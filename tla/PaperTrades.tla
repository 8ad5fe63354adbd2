----------------------------- MODULE PaperTrades -----------------------------
(***************************************************************************)
(* The paper trades of one instrument: their store, one file a trade, and  *)
(* the operations on it: the operations cycle (run_once), tracking one or  *)
(* all trades, and the human's create, close and cancel.                   *)
(*                                                                         *)
(* An operation reads a trade, asks the provider for candles and writes    *)
(* the trade back; between its read and its write other operations, in     *)
(* this process or another, take their steps.  There is no lock and no     *)
(* version.  Provider answers may be late: what an operation learned from  *)
(* the market is chosen when it is used, among all answers up to then.     *)
(***************************************************************************)
EXTENDS HistoricalOutcomes

CONSTANTS
    Operators,   \* requests and command lines that may run at a time
    Window,      \* how many candles the provider answers with, the latest ones
    Shapes,      \* bound: candles that the market makes
    MaxBars,     \* bound: candles
    MaxTrades    \* bound: trades created

ASSUME TradesAssumption ==
    /\ Window \in Nat \ {0} /\ MaxBars \in Nat \ {0} /\ MaxTrades \in Nat
    /\ Shapes \subseteq Candles

VARIABLES
    market,   \* the completed candles
    store,    \* the trade in each file there is
    op        \* what each operator is doing

vars == <<market, store, op>>

-----------------------------------------------------------------------------
\* The id is a hash of the opportunity, its geometry included, and of created_at.
\* The cycle takes the evaluated candle's time for that, and so does a request that
\* says nothing of it: theirs is one id.  A request may also bring the time of the
\* day, which no other request has (bound: one such request for an opportunity).
Geometries == {"full", "no_target", "none"}
Ids == [bar : 0..MaxBars, by : {"candle", "clock"}, geometry : Geometries]
Records == TradesUpTo(MaxBars)

Stored == DOMAIN store
NoId == [bar |-> 0, by |-> "none", geometry |-> "none"]

\* "cycle" stands for track_open_paper_trades too: a cycle that creates nothing.
Kinds == {"cycle", "track", "cancel", "close"}
\* todo: trades left to load; copy: the trade loaded
Operations ==
    [at : {"load", "save", "analyse", "create"}, kind : Kinds, todo : SUBSET Ids,
     id : Ids \cup {NoId}, copy : Records \cup {NoTrade}]
Idle == [at |-> "idle", kind |-> "none", todo |-> {}, id |-> NoId, copy |-> NoTrade]

TypeOK ==
    /\ market \in Seq(Candles) /\ Len(market) <= MaxBars
    /\ Stored \subseteq Ids /\ \A id \in Stored : store[id] \in Records
    /\ op \in [Operators -> Operations \cup {Idle}]
    /\ \A o \in Operators :
          /\ op[o].at = "save" => op[o].id \in op[o].todo /\ op[o].id \in Stored
          /\ op[o].at = "create" => op[o].id # NoId

Become(o, operation) == op' = [op EXCEPT ![o] = operation]
Operation(at, kind, todo) ==
    [at |-> at, kind |-> kind, todo |-> todo, id |-> NoId, copy |-> NoTrade]

\* The trade at hand is done with: on to the next, or to what follows the last.
Onward(job) ==
    LET rest == job.todo \ {job.id}
    IN  CASE rest # {} -> Operation("load", job.kind, rest)
          [] rest = {} /\ job.kind = "cycle" -> Operation("analyse", "cycle", {})
          [] OTHER -> Idle

-----------------------------------------------------------------------------
(* Tracking, closing, cancelling *)

RunCycle(o) ==
    /\ op[o] = Idle
    /\ Become(o, Onward(Operation("load", "cycle", Stored)))
    /\ UNCHANGED <<market, store>>

\* The cycle passes over trades that are over; a request to track one of them
\* saves it again; a request to close or cancel one raises.
GoesOn(kind, trade) ==
    CASE kind = "cycle" -> trade.status \notin Terminal
      [] kind = "track" -> TRUE
      [] kind = "close" -> MayClose(trade)
      [] kind = "cancel" -> MayCancel(trade)

LoadOne(o, job, id) ==
    LET loaded == [at |-> "save", kind |-> job.kind, todo |-> job.todo, id |-> id,
                   copy |-> store[id]]
    IN  Become(o, IF GoesOn(job.kind, store[id]) THEN loaded ELSE Onward(loaded))

Load(o) ==
    /\ op[o].at = "load"
    /\ \E id \in op[o].todo : LoadOne(o, op[o], id)
    /\ UNCHANGED <<market, store>>

\* track_paper_trade, cancel_paper_trade, manually_close_paper_trade
Request(o) ==
    /\ op[o] = Idle
    /\ \E id \in Stored, kind \in {"track", "cancel", "close"} :
          LoadOne(o, Operation("load", kind, {id}), id)
    /\ UNCHANGED <<market, store>>

\* The engine keeps the candles that are not after reference_now.
Shown(latest, reference) == {b \in 1..reference : b <= latest /\ b + Window > latest}
Answers == {Shown(latest, reference) : latest \in 0..Len(market), reference \in 0..Len(market)}

Results(job) ==
    CASE job.kind \in {"cycle", "track"} ->
            {Track(job.copy, market, window) : window \in Answers}
      [] job.kind = "close" -> {CloseManually(job.copy)}
      [] job.kind = "cancel" -> {Cancel(job.copy)}

Save(o) ==
    /\ op[o].at = "save"
    /\ \E next \in Results(op[o]) : store' = [store EXCEPT ![op[o].id] = next]
    /\ Become(o, Onward(op[o]))
    /\ UNCHANGED market

\* A failed fetch or save: the cycle goes on with the next trade.
Skip(o) ==
    /\ op[o].at = "save" /\ op[o].kind = "cycle"
    /\ Become(o, Onward(op[o]))
    /\ UNCHANGED <<market, store>>

-----------------------------------------------------------------------------
(* Creation *)

Write(id, new) ==
    /\ id \in Stored \/ Cardinality(Stored) < MaxTrades
    /\ store' = [i \in Stored \cup {id} |-> IF i = id THEN new ELSE store[i]]
    /\ UNCHANGED market

\* Second half of the cycle: a candle that is an opportunity, which no trade has
\* been made of, whoever made it.
Analyse(o) ==
    /\ op[o].at = "analyse"
    /\ Cardinality(Stored) < MaxTrades
    /\ \E bar \in 1..Len(market) :
         /\ \A other \in Stored : other.bar # bar
         /\ Become(o, [op[o] EXCEPT !.at = "create", !.id = [bar |-> bar, by |-> "candle", geometry |-> "full"]])
    /\ UNCHANGED <<market, store>>

\* Only complete geometry is an opportunity.
Create(o) ==
    /\ op[o].at = "create"
    /\ Write(op[o].id, NewTrade(op[o].id.bar, op[o].id.geometry))
    /\ Become(o, Idle)

\* A request looks at nothing in the store.  The same one again, without a time of its
\* own, writes the trade anew over what has become of it, or over the cycle's.
RequestAgain ==
    \E bar \in 0..Len(market), geometry \in Geometries :
        Write([bar |-> bar, by |-> "candle", geometry |-> geometry], NewTrade(bar, geometry))
        /\ UNCHANGED op

\* At the time of the day: a candle that forms then is not after it.
RequestNew ==
    \E bar \in 0..Len(market), forming \in {0, 1}, geometry \in Geometries :
       LET id == [bar |-> bar, by |-> "clock", geometry |-> geometry]
       IN  id \notin Stored /\ Write(id, NewTrade(bar + forming, geometry)) /\ UNCHANGED op

\* An error raised to the caller, no opportunity, a trade known already, or the
\* end of the process: nothing more of the operation happens.
GiveUp(o) ==
    /\ op[o] # Idle
    /\ Become(o, Idle)
    /\ UNCHANGED <<market, store>>

Tick ==
    /\ Len(market) < MaxBars
    /\ \E candle \in Shapes : market' = Append(market, candle)
    /\ UNCHANGED <<store, op>>

-----------------------------------------------------------------------------
Init ==
    /\ market = <<>>
    /\ store = <<>>
    /\ op = [o \in Operators |-> Idle]

Operate(o) ==
    \/ RunCycle(o) \/ Request(o) \/ Load(o) \/ Save(o) \/ Skip(o)
    \/ Analyse(o) \/ Create(o) \/ GiveUp(o)

Next == Tick \/ RequestAgain \/ RequestNew \/ \E o \in Operators : Operate(o)

Spec == Init /\ [][Next]_vars
-----------------------------------------------------------------------------
(* Properties *)

Entered(trade) == trade.entry # 0
EntryBars(trade) == {b \in 1..MaxBars : b > trade.created /\ b <= trade.created + MaxEntry}

\* Whatever copies, references and interleavings went into it, a stored trade
\* was entered at the first candle after its creation that reached the entry
\* (_track_entry, and the read-modify-write of every caller).
EntryIsFirst ==
    \A id \in Stored : LET t == store[id] IN
        Entered(t) =>
           /\ t.entry \in EntryBars(t) /\ t.entry <= Len(market)
           /\ "entry" \in market[t.entry]
           /\ \A b \in EntryBars(t) : b < t.entry => "entry" \notin market[b]

\* A trade that the candles closed, closed as the first candle after its entry to
\* reach the target or the stop says, or no candle up to its exit did; a trade
\* that is not entered has no exit (_track_exit, _resolve_exit).
Resolved(t) == t.reason \in {"TARGET_HIT", "STOP_HIT", "BOTH_TOUCHED", "EXPIRED"}
ExitIsFirst ==
    \A id \in Stored : LET t == store[id] IN
        Resolved(t) =>
           /\ Entered(t) /\ t.exit > t.entry /\ t.exit <= Len(market)
           /\ t.exit <= t.entry + MaxHolding
           /\ \A b \in t.entry + 1..t.exit - 1 : market[b] \cap {"stop", "target"} = {}
           /\ ("target" \in market[t.exit]) = (t.reason \in {"TARGET_HIT", "BOTH_TOUCHED"})
           /\ ("stop" \in market[t.exit]) = (t.reason \in {"STOP_HIT", "BOTH_TOUCHED"})

\* Backtest and paper trading agree, which share no code: a trade that candles
\* closed, closed as the evaluator of historical outcomes says of a setup taken at
\* its entry, at the same candle; one that expired, as it says of the candles up to
\* then.  No later candle makes the evaluator say otherwise of a level that was hit.
BacktestAgrees ==
    \A id \in Stored : LET t == store[id] IN
        Resolved(t) =>
           LET seen == IF t.reason = "EXPIRED" THEN SubSeq(market, 1, t.exit) ELSE market
           IN  Evaluate(seen, t.entry) =
                  Verdict(t.reason, IF t.reason = "EXPIRED" THEN 0 ELSE t.exit, t.exit - t.entry)

\* No look-ahead: what the three measures say of a candle when its horizon is full
\* (or a level was hit) is what they say for ever, all three of the same candles;
\* and a candle that still forms at the instant of the measurement, shown or not,
\* is not used by the forward outcome.
Settled(verdict) ==
    verdict.status \in {"TARGET_HIT", "STOP_HIT", "BOTH_TOUCHED"} \/ verdict.held >= MaxHolding
MeasuresSettle ==
    [][Len(market') > Len(market) => \A anchor \in DOMAIN market :
          LET at == Len(market) + 1
              verdict == Evaluate(market, anchor)
          IN  /\ Settled(verdict) => Evaluate(market', anchor) = verdict
              /\ \A before \in {Measure(market, anchor, at)},
                   after \in {Measure(market', anchor, at + 1)} :
                     /\ Measure(market', anchor, at) = before
                     /\ before.complete => after = before
                     /\ after.complete =>
                           /\ after.used = Inspected(market', anchor)
                           /\ after.used = FixedHorizon(market', anchor, MaxHolding)]_market

\* Documented: CLOSED, CANCELLED and INVALIDATED are "terminal - immutable".
TerminalKept ==
    [][\A id \in Stored : store[id].status \in Terminal => store'[id] = store[id]]_vars

\* "If neither is reached within this horizon the paper trade is resolved as
\* EXPIRED": a trade expires when it has been held max_holding_bars candles.
HorizonKept ==
    \A id \in Stored : store[id].reason = "EXPIRED" => store[id].exit = store[id].entry + MaxHolding

\* "If the entry reference is not touched within this window the paper trade
\* remains WAITING_FOR_ENTRY": no entry later than max_entry_bars after creation.
EntryInTime ==
    \A id \in Stored : Entered(store[id]) => store[id].entry <= store[id].created + MaxEntry
=============================================================================
