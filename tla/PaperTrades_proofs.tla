--------------------------- MODULE PaperTrades_proofs ---------------------------
(***************************************************************************)
(* Proofs about PaperTrades and the engines it uses, for any market, any   *)
(* operators and any entry window and horizon: entries and exits are the   *)
(* first, backtest and paper trading agree, and measures settle.           *)
(***************************************************************************)
EXTENDS PaperTrades, SequenceTheorems, FiniteSetTheorems, WellFoundedInduction, TLAPS

(* First and last of candles *)

LEMMA FirstIs ==
    ASSUME NEW bars \in SUBSET Nat, NEW m \in bars, \A b \in bars : m <= b
    PROVE  Min(bars) = m
<1>1. Min(bars) \in bars /\ \A b \in bars : Min(bars) <= b
  BY DEF Min
<1>2. Min(bars) \in Nat /\ m \in Nat /\ m <= Min(bars) /\ Min(bars) <= m
  BY <1>1
<1> QED
  BY <1>2

LEMMA LastIs ==
    ASSUME NEW bars \in SUBSET Nat, NEW m \in bars, \A b \in bars : b <= m
    PROVE  Max(bars) = m
<1>1. Max(bars) \in bars /\ \A b \in bars : b <= Max(bars)
  BY DEF Max
<1>2. Max(bars) \in Nat /\ m \in Nat /\ m <= Max(bars) /\ Max(bars) <= m
  BY <1>1
<1> QED
  BY <1>2

LEMMA FirstExists ==
    ASSUME NEW bars \in SUBSET Nat, bars # {}
    PROVE  Min(bars) \in bars /\ \A b \in bars : Min(bars) <= b
<1> DEFINE less == {pair \in Nat \X Nat : pair[1] < pair[2]}
<1>1. IsWellFoundedOn(less, Nat)
  BY NatLessThanWellFounded DEF OpToRel
<1>2. PICK m \in bars : \A b \in bars : <<b, m>> \notin less
  <2> HIDE DEF less
  <2> QED
    BY <1>1, WFMin
<1>3. ASSUME NEW b \in bars PROVE m <= b
  <2>1. m \in Nat /\ b \in Nat /\ <<b, m>> \notin less
    BY <1>2
  <2>2. ~(b < m)
    BY <2>1
  <2> QED
    BY <2>1, <2>2
<1> QED
  BY <1>3 DEF Min

\* candidates[:k] of the candles after a, of which there are those up to n.
LEMMA LeadingIs ==
    ASSUME NEW a \in Nat, NEW n \in Nat, NEW k \in Nat \ {0}
    PROVE  Leading(After(1..n, a), k) = {b \in 1..n : b > a /\ b <= a + k}
<1> DEFINE bars == After(1..n, a)
<1>1. bars = {b \in 1..n : b > a}
  BY DEF After
<1>2. Leading(bars, k) = {b \in bars : b < Min(bars) + k}
  BY DEF Leading
<1> HIDE DEF bars
<1>3. CASE n <= a
  <2>1. bars = {} /\ {b \in 1..n : b > a /\ b <= a + k} = {}
    BY <1>1, <1>3
  <2> QED
    BY <1>2, <2>1 DEF bars
<1>4. CASE n > a
  <2>1. bars \in SUBSET Nat /\ a + 1 \in bars /\ \A b \in bars : a + 1 <= b
    BY <1>1, <1>4
  <2>2. Min(bars) = a + 1
    BY <2>1, FirstIs
  <2>3. Leading(bars, k) = {b \in bars : b < a + 1 + k}
    BY <1>2, <2>2
  <2>4. {b \in bars : b < a + 1 + k} = {b \in 1..n : b > a /\ b <= a + k}
    BY <1>1
  <2> QED
    BY <2>3, <2>4 DEF bars
<1> QED
  BY <1>3, <1>4 DEF bars

LEMMA FirstWithin ==
    ASSUME NEW n, NEW bars \in SUBSET (1..n), bars # {}
    PROVE  Min(bars) \in bars /\ \A b \in bars : Min(bars) <= b
<1>1. bars \in SUBSET Nat
  OBVIOUS
<1> QED
  BY <1>1, FirstExists

LEMMA LastExists ==
    ASSUME NEW n \in Nat, NEW bars \in SUBSET (1..n), bars # {}
    PROVE  Max(bars) \in bars /\ \A b \in bars : b <= Max(bars)
<1> DEFINE back == {n - b : b \in bars}
<1>1. back \in SUBSET Nat /\ back # {}
  <2>1. \A b \in bars : n - b \in Nat
    OBVIOUS
  <2>2. PICK b \in bars : TRUE
    OBVIOUS
  <2>3. n - b \in back
    OBVIOUS
  <2> QED
    BY <2>1, <2>3
<1>2. Min(back) \in back /\ \A d \in back : Min(back) <= d
  <2> HIDE DEF back
  <2> QED
    BY <1>1, FirstExists
<1>3. PICK m \in bars : Min(back) = n - m
  BY <1>2
<1>4. \A b \in bars : n - m <= n - b
  BY <1>2, <1>3
<1>5. \A b \in bars : b <= m
  BY <1>4
<1> QED
  BY <1>5 DEF Max

-----------------------------------------------------------------------------
(* One trade *)

LEMMA NewTradeIs ==
    ASSUME NEW created \in 0..MaxBars + 1, NEW geometry \in Geometries
    PROVE  /\ NewTrade(created, geometry) \in Records
           /\ NewTrade(created, geometry).status \in {"WAITING_FOR_ENTRY", "INVALIDATED"}
           /\ NewTrade(created, geometry).entry = 0
           /\ NewTrade(created, geometry).exit = 0
           /\ NewTrade(created, geometry).reason \in {"none", "NO_GEOMETRY"}
           /\ NewTrade(created, geometry).status = "WAITING_FOR_ENTRY" =>
                 NewTrade(created, geometry).reason = "none"
<1>1. (geometry = "full") \in BOOLEAN /\ 0 \in 0..MaxBars
  BY TradesAssumption
<1> QED
  BY <1>1 DEF NewTrade, Records, TradesUpTo, Terminal, Reasons, Geometries

LEMMA ClosedIs ==
    ASSUME NEW trade \in Records, NEW bar \in 0..MaxBars, NEW reason \in Reasons
    PROVE  Closed(trade, bar, reason) \in Records
BY DEF Closed, Records, TradesUpTo, Terminal

LEMMA TouchIs == \A candle : Touch(candle) \in {"TARGET_HIT", "STOP_HIT", "BOTH_TOUCHED"}
BY DEF Touch

LEMMA LeadingOf == \A bars, n : Leading(bars, n) \subseteq bars
BY DEF Leading

\* The engine makes trades of trades, whatever candles it is shown.
LEMMA ExitTyped ==
    ASSUME NEW series \in Seq(Candles), Len(series) <= MaxBars,
           NEW window \in SUBSET (1..Len(series)), NEW trade \in Records
    PROVE  TrackExit(trade, series, window) \in Records
<1> DEFINE held == Leading(After(window, trade.entry), MaxHolding)
           touching == {b \in held : series[b] \cap {"stop", "target"} # {}}
<1>1. held \in SUBSET (1..Len(series)) /\ Len(series) \in Nat
  BY LeadingOf, LenProperties DEF After
<1>2. CASE ~trade.target \/ held = {}
  BY <1>2 DEF TrackExit
<1>3. CASE ~(~trade.target \/ held = {})
  <2>1. TrackExit(trade, series, window) = Resolve(trade, series, held)
    BY <1>3 DEF TrackExit
  <2> HIDE DEF held
  <2>2. CASE touching = {}
    <3>1. Max(held) \in 1..Len(series)
      BY <1>1, <1>3, LastExists
    <3>2. Max(held) \in 0..MaxBars /\ "EXPIRED" \in Reasons
      BY <1>1, <3>1, TradesAssumption DEF Reasons
    <3> QED
      BY <2>1, <2>2, <3>2, ClosedIs DEF Resolve
  <2>3. CASE touching # {}
    <3>1. Min(touching) \in 1..Len(series)
      BY <1>1, <2>3, FirstWithin
    <3>2. Min(touching) \in 0..MaxBars /\ Touch(series[Min(touching)]) \in Reasons
      BY <1>1, <3>1, TouchIs, TradesAssumption DEF Reasons
    <3> QED
      BY <2>1, <2>3, <3>2, ClosedIs DEF Resolve
  <2> QED
    BY <2>2, <2>3
<1> QED
  BY <1>2, <1>3

LEMMA TrackTyped ==
    ASSUME NEW series \in Seq(Candles), Len(series) <= MaxBars,
           NEW window \in SUBSET (1..Len(series)), NEW trade \in Records
    PROVE  Track(trade, series, window) \in Records
<1> DEFINE entered == TrackEntry(trade, series, window)
           touching == {b \in SinceCreation(trade, window) : "entry" \in series[b]}
<1>1. touching \in SUBSET (1..Len(series)) /\ Len(series) \in Nat
  BY LeadingOf, LenProperties DEF SinceCreation, After
<1>2. entered \in Records
  <2>1. CASE touching = {}
    BY <2>1 DEF TrackEntry
  <2>2. CASE touching # {}
    <3>1. Min(touching) \in 0..MaxBars
      <4> HIDE DEF touching
      <4>1. Min(touching) \in 1..Len(series)
        BY <1>1, <2>2, FirstWithin
      <4> QED
        BY <1>1, <4>1, TradesAssumption
    <3>2. entered = [trade EXCEPT !.status = "OPEN", !.entry = Min(touching)]
      BY <2>2 DEF TrackEntry
    <3> HIDE DEF touching, entered
    <3>3. entered \in Records
      BY <3>1, <3>2 DEF Records, TradesUpTo
    <3> QED
      BY <3>3 DEF entered
  <2> QED
    BY <2>1, <2>2
<1> HIDE DEF entered
<1>3. TrackExit(entered, series, window) \in Records /\ TrackExit(trade, series, window) \in Records
  BY <1>2, ExitTyped
<1> QED
  BY <1>2, <1>3 DEF Track, entered
-----------------------------------------------------------------------------
(* Operations and the store *)

\* What an operator is doing is possible with the trades that are stored; what it
\* is about to save, it may.
Fine(job, stored) ==
    /\ job \in Operations \cup {Idle}
    /\ job.at \in {"load", "save"} => job.todo \subseteq stored
    /\ job.at = "save" => /\ job.id \in job.todo /\ job.copy \in Records
                          /\ GoesOn(job.kind, job.copy)
    /\ job.at = "create" => job.id \in Ids
    /\ job.at # "save" => job.copy = NoTrade

TradesInv ==
    /\ market \in Seq(Candles) /\ Len(market) <= MaxBars
    /\ Stored \subseteq Ids /\ \A id \in Stored : store[id] \in Records
    /\ op = [o \in Operators |-> op[o]]
    /\ \A o \in Operators : Fine(op[o], Stored)

LEMMA OperationIs ==
    ASSUME NEW at \in {"load", "analyse"}, NEW kind \in Kinds, NEW todo \in SUBSET Ids
    PROVE  /\ Operation(at, kind, todo) =
                 [at |-> at, kind |-> kind, todo |-> todo, id |-> NoId, copy |-> NoTrade]
           /\ Operation(at, kind, todo) \in Operations
<1>1. Operation(at, kind, todo) =
         [at |-> at, kind |-> kind, todo |-> todo, id |-> NoId, copy |-> NoTrade]
  BY DEF Operation
<1>2. NoId \in Ids \cup {NoId} /\ NoTrade \in Records \cup {NoTrade}
  OBVIOUS
<1> QED
  BY <1>1, <1>2 DEF Operations

LEMMA OnwardFine ==
    ASSUME NEW stored \in SUBSET Ids, NEW job, job.kind \in Kinds, job.todo \subseteq stored
    PROVE  Fine(Onward(job), stored)
<1> DEFINE rest == job.todo \ {job.id}
<1>1. CASE rest # {}
  <2>1. /\ Onward(job) = Operation("load", job.kind, rest) /\ rest \in SUBSET Ids
        /\ rest \subseteq stored
    BY <1>1 DEF Onward
  <2> HIDE DEF rest
  <2> QED
    BY <2>1, OperationIs DEF Fine
<1>2. CASE rest = {} /\ job.kind = "cycle"
  <2>1. Onward(job) = Operation("analyse", "cycle", {})
    BY <1>2 DEF Onward
  <2>2. "cycle" \in Kinds
    BY DEF Kinds
  <2> QED
    BY <2>1, <2>2, OperationIs DEF Fine
<1>3. CASE rest = {} /\ job.kind # "cycle"
  <2>1. Onward(job) = Idle
    BY <1>3 DEF Onward
  <2> QED
    BY <2>1 DEF Fine, Idle
<1> QED
  BY <1>1, <1>2, <1>3

LEMMA FineLater ==
    ASSUME NEW job, NEW stored, NEW more, stored \subseteq more, Fine(job, stored)
    PROVE  Fine(job, more)
BY DEF Fine

LEMMA LoadFine ==
    ASSUME TradesInv, NEW o \in Operators, NEW job, NEW id \in job.todo,
           job \in Operations,
           job.todo \subseteq Stored,
           LoadOne(o, job, id)
    PROVE  op' = [op EXCEPT ![o] = op'[o]] /\ Fine(op'[o], Stored)
<1> DEFINE loaded == [at |-> "save", kind |-> job.kind, todo |-> job.todo, id |-> id,
                      copy |-> store[id]]
<1>1. /\ id \in Ids /\ job.kind \in Kinds /\ job.todo \in SUBSET Ids /\ store[id] \in Records
      /\ job.todo \subseteq Stored
  BY DEF TradesInv, Operations
<1>2. op' = [op EXCEPT ![o] = IF GoesOn(job.kind, store[id]) THEN loaded ELSE Onward(loaded)]
  BY DEF LoadOne, Become
<1>3. op'[o] = IF GoesOn(job.kind, store[id]) THEN loaded ELSE Onward(loaded)
  BY <1>2 DEF TradesInv
<1>4. loaded \in Operations
  BY <1>1 DEF Operations
<1>5. loaded.kind = job.kind /\ loaded.todo = job.todo /\ loaded.at = "save"
      /\ loaded.id = id /\ loaded.copy = store[id]
  OBVIOUS
<1> HIDE DEF loaded
<1>6. Stored \in SUBSET Ids
  BY DEF TradesInv
<1>7. Fine(Onward(loaded), Stored)
  BY <1>1, <1>5, <1>6, OnwardFine
<1>8. GoesOn(job.kind, store[id]) => Fine(loaded, Stored)
  BY <1>1, <1>4, <1>5 DEF Fine
<1> QED
  BY <1>2, <1>3, <1>7, <1>8

LEMMA ResultsTyped ==
    ASSUME TradesInv, NEW job \in Operations, job.copy \in Records, NEW next \in Results(job)
    PROVE  next \in Records
<1>1. \A window \in Answers : window \in SUBSET (1..Len(market))
  BY LenProperties DEF Answers, Shown, TradesInv
<1>2. CASE job.kind \in {"cycle", "track"}
  <2>1. PICK window \in Answers : next = Track(job.copy, market, window)
    BY <1>2 DEF Results
  <2> QED
    BY <1>1, <2>1, TrackTyped DEF TradesInv
<1>3. CASE job.kind = "close"
  <2>1. next = Closed(job.copy, 0, "MANUAL_CLOSE")
    BY <1>3 DEF Results, CloseManually
  <2>2. 0 \in 0..MaxBars /\ "MANUAL_CLOSE" \in Reasons
    BY TradesAssumption DEF Reasons
  <2> QED
    BY <2>1, <2>2, ClosedIs
<1>4. CASE job.kind = "cancel"
  <2>1. next = [job.copy EXCEPT !.status = "CANCELLED", !.reason = "CANCELLED"]
    BY <1>4 DEF Results, Cancel
  <2> QED
    BY <2>1 DEF Records, TradesUpTo, Terminal, Reasons
<1> QED
  BY <1>2, <1>3, <1>4 DEF Operations, Kinds
\* What a step does to the store, the market and the operator that takes it.
LEMMA StepKeeps ==
    ASSUME TradesInv, NEW o \in Operators,
           op' = [op EXCEPT ![o] = op'[o]], Fine(op'[o], Stored'),
           market' = market, Stored \subseteq Stored', Stored' \subseteq Ids,
           \A id \in Stored' : store'[id] \in Records
    PROVE  TradesInv'
<1>1. \A p \in Operators : op'[p] = IF p = o THEN op'[o] ELSE op[p]
  BY DEF TradesInv
<1>2. \A p \in Operators : Fine(op'[p], Stored')
  BY <1>1, FineLater DEF TradesInv
<1>3. op' = [p \in Operators |-> op'[p]]
  BY DEF TradesInv
<1> QED
  BY <1>2, <1>3 DEF TradesInv

LEMMA SaveStep ==
    ASSUME TradesInv, NEW o \in Operators, Save(o)
    PROVE  /\ op' = [op EXCEPT ![o] = op'[o]] /\ Fine(op'[o], Stored)
           /\ op[o].id \in Stored /\ Stored' = Stored /\ market' = market
           /\ store'[op[o].id] \in Results(op[o]) /\ store'[op[o].id] \in Records
           /\ \A id \in Stored : id # op[o].id => store'[id] = store[id]
<1> DEFINE job == op[o]
<1>1. /\ job \in Operations /\ job.at = "save" /\ job.todo \subseteq Stored
      /\ job.id \in Stored /\ job.copy \in Records /\ job.kind \in Kinds
  BY DEF Save, TradesInv, Fine, Idle, Operations
<1>2. PICK next \in Results(job) : store' = [store EXCEPT ![job.id] = next]
  BY DEF Save
<1>3. next \in Records
  BY <1>1, ResultsTyped
<1>4. Stored' = Stored /\ \A id \in Stored : store'[id] = IF id = job.id THEN next ELSE store[id]
  BY <1>2 DEF Stored
<1>5. op' = [op EXCEPT ![o] = Onward(job)] /\ op'[o] = Onward(job)
  BY DEF Save, Become, TradesInv
<1>6. Fine(Onward(job), Stored)
  BY <1>1, OnwardFine DEF TradesInv
<1> QED
  BY <1>1, <1>2, <1>3, <1>4, <1>5, <1>6 DEF Save

LEMMA WriteIs ==
    ASSUME NEW id \in Ids, NEW made, Write(id, made)
    PROVE  /\ Stored' = Stored \cup {id} /\ store'[id] = made
           /\ \A other \in Stored : other # id => store'[other] = store[other]
           /\ market' = market
BY DEF Write, Stored

LEMMA OperateStep ==
    ASSUME TradesInv, NEW o \in Operators, Operate(o)
    PROVE  TradesInv'
<1> DEFINE job == op[o]
<1>0. /\ op = [p \in Operators |-> op[p]] /\ Fine(job, Stored) /\ Stored \in SUBSET Ids
      /\ \A id \in Stored : store[id] \in Records
  BY DEF TradesInv
<1>1. CASE RunCycle(o)
  <2>1. "cycle" \in Kinds /\ Operation("load", "cycle", Stored).kind = "cycle"
        /\ Operation("load", "cycle", Stored).todo = Stored
    BY DEF Kinds, Operation
  <2>2. Fine(Onward(Operation("load", "cycle", Stored)), Stored)
    BY <1>0, <2>1, OnwardFine
  <2>3. op'[o] = Onward(Operation("load", "cycle", Stored))
    BY <1>0, <1>1 DEF RunCycle, Become
  <2> QED
    BY <1>0, <1>1, <2>2, <2>3, StepKeeps DEF RunCycle, Become, Stored
<1>2. CASE Load(o)
  <2>1. PICK id \in job.todo : LoadOne(o, job, id)
    BY <1>2 DEF Load
  <2>2. job \in Operations /\ job.todo \subseteq Stored
    BY <1>0, <1>2 DEF Load, Fine, Idle
  <2>3. op' = [op EXCEPT ![o] = op'[o]] /\ Fine(op'[o], Stored)
    BY <2>1, <2>2, LoadFine
  <2> QED
    BY <1>0, <1>2, <2>3, StepKeeps DEF Load, Stored
<1>3. CASE Request(o)
  <2>1. PICK id \in Stored, kind \in {"track", "cancel", "close"} :
           LoadOne(o, Operation("load", kind, {id}), id)
    BY <1>3 DEF Request
  <2>2. /\ Operation("load", kind, {id}) \in Operations
        /\ Operation("load", kind, {id}).todo = {id}
    BY <1>0, OperationIs DEF Kinds
  <2>3. op' = [op EXCEPT ![o] = op'[o]] /\ Fine(op'[o], Stored)
    BY <2>1, <2>2, LoadFine
  <2> QED
    BY <1>0, <1>3, <2>3, StepKeeps DEF Request, Stored
<1>4. CASE Save(o)
  <2>1. \A id \in Stored' : store'[id] \in Records
    BY <1>0, <1>4, SaveStep
  <2> QED
    BY <1>0, <1>4, <2>1, SaveStep, StepKeeps
<1>5. CASE Skip(o)
  <2>1. job.at = "save" /\ job.todo \subseteq Stored /\ job.kind \in Kinds
    BY <1>0, <1>5 DEF Skip, Fine, Kinds
  <2>2. Fine(Onward(job), Stored)
    BY <1>0, <2>1, OnwardFine
  <2>3. op'[o] = Onward(job)
    BY <1>0, <1>5 DEF Skip, Become
  <2> QED
    BY <1>0, <1>5, <2>2, <2>3, StepKeeps DEF Skip, Become, Stored
<1>6. CASE Analyse(o)
  <2>1. PICK bar \in 1..Len(market) :
           op' = [op EXCEPT ![o] = [job EXCEPT !.at = "create", !.id = [bar |-> bar, by |-> "candle", geometry |-> "full"]]]
    BY <1>6 DEF Analyse, Become
  <2>2. job.at = "analyse" /\ job \in Operations /\ job.copy = NoTrade
    BY <1>0, <1>6 DEF Analyse, Fine, Idle
  <2>3. [bar |-> bar, by |-> "candle", geometry |-> "full"] \in Ids
    <3>1. bar \in 0..MaxBars
      BY LenProperties, TradesAssumption DEF TradesInv
    <3> QED
      BY <3>1 DEF Ids, Geometries
  <2>4. op'[o] = [job EXCEPT !.at = "create", !.id = [bar |-> bar, by |-> "candle", geometry |-> "full"]]
    BY <1>0, <2>1
  <2>5. /\ op'[o] \in Operations /\ op'[o].at = "create" /\ op'[o].copy = NoTrade
        /\ op'[o].id \in Ids
    BY <2>2, <2>3, <2>4 DEF Operations
  <2>6. Fine(op'[o], Stored)
    BY <2>5 DEF Fine
  <2> QED
    BY <1>0, <1>6, <2>1, <2>4, <2>6, StepKeeps DEF Analyse, Stored
<1>7. CASE Create(o)
  <2>1. job.at = "create" /\ job.id \in Ids
    BY <1>0, <1>7 DEF Create, Fine
  <2>2. NewTrade(job.id.bar, job.id.geometry) \in Records
    <3>1. job.id.bar \in 0..MaxBars + 1 /\ job.id.geometry \in Geometries
      BY <2>1, TradesAssumption DEF Ids
    <3> QED
      BY <3>1, NewTradeIs
  <2>3. Write(job.id, NewTrade(job.id.bar, job.id.geometry)) /\ op'[o] = Idle /\ op' = [op EXCEPT ![o] = Idle]
    BY <1>0, <1>7 DEF Create, Become
  <2>4. /\ Stored' = Stored \cup {job.id} /\ market' = market
        /\ \A id \in Stored' : store'[id] \in Records
    BY <1>0, <2>1, <2>2, <2>3, WriteIs
  <2>5. Fine(Idle, Stored')
    BY DEF Fine, Idle
  <2> QED
    BY <1>0, <2>1, <2>3, <2>4, <2>5, StepKeeps
<1>8. CASE GiveUp(o)
  <2>1. Fine(Idle, Stored) /\ op'[o] = Idle /\ op' = [op EXCEPT ![o] = Idle]
    BY <1>0, <1>8 DEF Fine, Idle, GiveUp, Become
  <2> QED
    BY <1>0, <1>8, <2>1, StepKeeps DEF GiveUp, Stored
<1> QED
  BY <1>1, <1>2, <1>3, <1>4, <1>5, <1>6, <1>7, <1>8 DEF Operate

\* A request, with a time of its own or without, writes one new trade.
LEMMA RequestWrites ==
    ASSUME TradesInv, RequestAgain \/ RequestNew
    PROVE  /\ UNCHANGED op
           /\ \E id \in Ids, created \in 0..MaxBars + 1, geometry \in Geometries :
                 Write(id, NewTrade(created, geometry))
<1>1. \A bar \in 0..Len(market) : \A forming \in {0, 1} :
         bar \in 0..MaxBars /\ bar \in 0..MaxBars + 1 /\ bar + forming \in 0..MaxBars + 1
  BY LenProperties, TradesAssumption DEF TradesInv
<1>2. CASE RequestAgain
  <2>1. PICK bar \in 0..Len(market), geometry \in Geometries :
           /\ Write([bar |-> bar, by |-> "candle", geometry |-> geometry], NewTrade(bar, geometry))
           /\ UNCHANGED op
    BY <1>2 DEF RequestAgain
  <2>2. [bar |-> bar, by |-> "candle", geometry |-> geometry] \in Ids
    BY <1>1 DEF Ids
  <2> QED
    BY <1>1, <2>1, <2>2
<1>3. CASE RequestNew
  <2>1. PICK bar \in 0..Len(market), forming \in {0, 1}, geometry \in Geometries :
           /\ Write([bar |-> bar, by |-> "clock", geometry |-> geometry],
                    NewTrade(bar + forming, geometry))
           /\ UNCHANGED op
    BY <1>3 DEF RequestNew
  <2>2. [bar |-> bar, by |-> "clock", geometry |-> geometry] \in Ids
    BY <1>1 DEF Ids
  <2> QED
    BY <1>1, <2>1, <2>2
<1> QED
  BY <1>2, <1>3

LEMMA TradesStep ==
    ASSUME TradesInv, [Next]_vars
    PROVE  TradesInv'
<1>1. CASE Tick
  <2>1. PICK candle \in Candles : market' = Append(market, candle)
    BY <1>1, TradesAssumption DEF Tick
  <2>2. market' \in Seq(Candles) /\ Len(market') <= MaxBars
    BY <1>1, <2>1, AppendProperties, LenProperties, TradesAssumption DEF Tick, TradesInv
  <2> QED
    BY <1>1, <2>2 DEF Tick, TradesInv, Stored
<1>2. CASE RequestAgain \/ RequestNew
  <2>1. PICK id \in Ids, created \in 0..MaxBars + 1, geometry \in Geometries :
           Write(id, NewTrade(created, geometry))
    BY <1>2, RequestWrites
  <2>2. NewTrade(created, geometry) \in Records /\ op' = op
    BY <1>2, RequestWrites, NewTradeIs
  <2>3. /\ Stored' = Stored \cup {id} /\ market' = market
        /\ \A i \in Stored' : store'[i] \in Records
    BY <2>1, <2>2, WriteIs DEF TradesInv
  <2>4. \A o \in Operators : Fine(op'[o], Stored')
    BY <2>2, <2>3, FineLater DEF TradesInv
  <2> QED
    BY <2>2, <2>3, <2>4 DEF TradesInv
<1>3. CASE UNCHANGED vars
  BY <1>3 DEF vars, TradesInv, Stored
<1> QED
  BY <1>1, <1>2, <1>3, OperateStep DEF Next

LEMMA TradesStart == Init => TradesInv
<1> SUFFICES ASSUME Init PROVE TradesInv
  OBVIOUS
<1>1. market \in Seq(Candles) /\ Len(market) = 0 /\ Stored = {}
  BY EmptySeq DEF Init, Stored
<1>2. \A o \in Operators : op[o] = Idle /\ Fine(Idle, Stored)
  BY DEF Init, Fine, Idle
<1> QED
  BY <1>1, <1>2, TradesAssumption DEF Init, TradesInv

LEMMA TradesInvariant == Spec => []TradesInv
BY TradesStart, TradesStep, PTL DEF Spec
-----------------------------------------------------------------------------
\* The store, the market and the operators keep their types.
THEOREM TradesTypeCorrect == Spec => []TypeOK
<1>1. TradesInv => TypeOK
  BY DEF TradesInv, Fine, TypeOK, Ids, NoId
<1> QED
  BY <1>1, TradesInvariant, PTL

-----------------------------------------------------------------------------
(* First entries and first exits *)

\* What a trade says of the candles: of EntryIsFirst and ExitIsFirst, what they
\* say of one trade, and which states are entered and resolved.
EntryTrue(t, series) ==
    Entered(t) =>
       /\ t.entry \in EntryBars(t) /\ t.entry <= Len(series)
       /\ "entry" \in series[t.entry]
       /\ \A b \in EntryBars(t) : b < t.entry => "entry" \notin series[b]
ExitTrue(t, series) ==
    Resolved(t) =>
       /\ Entered(t) /\ t.exit > t.entry /\ t.exit <= Len(series)
       /\ t.exit <= t.entry + MaxHolding
       /\ \A b \in t.entry + 1..t.exit - 1 : series[b] \cap {"stop", "target"} = {}
       /\ "target" \in series[t.exit] <=> t.reason \in {"TARGET_HIT", "BOTH_TOUCHED"}
       /\ "stop" \in series[t.exit] <=> t.reason \in {"STOP_HIT", "BOTH_TOUCHED"}
TrueOf(t, series) ==
    /\ t \in Records
    /\ t.status = "WAITING_FOR_ENTRY" => ~Entered(t) /\ ~Resolved(t)
    /\ t.status = "OPEN" => Entered(t) /\ ~Resolved(t)
    /\ EntryTrue(t, series) /\ ExitTrue(t, series)

LEMMA ExitFound ==
    ASSUME NEW series \in Seq(Candles), Len(series) <= MaxBars, NEW n \in 0..Len(series),
           NEW t, TrueOf(t, series), t.status = "OPEN"
    PROVE  TrueOf(TrackExit(t, series, 1..n), series)
<1> DEFINE held == Leading(After(1..n, t.entry), MaxHolding)
           touching == {b \in held : series[b] \cap {"stop", "target"} # {}}
           next == TrackExit(t, series, 1..n)
<1>1. /\ t \in Records /\ Entered(t) /\ EntryTrue(t, series) /\ t.entry \in Nat
      /\ Len(series) \in Nat /\ n \in Nat /\ MaxHolding \in Nat \ {0}
  BY LenProperties, EngineAssumption DEF TrueOf, Records, TradesUpTo
<1>2. held = {b \in 1..n : b > t.entry /\ b <= t.entry + MaxHolding}
  BY <1>1, LeadingIs
<1>3. next \in Records
  <2>1. 1..n \in SUBSET (1..Len(series))
    BY <1>1
  <2> QED
    BY <1>1, <2>1, ExitTyped
<1>4. CASE ~t.target \/ held = {}
  BY <1>4 DEF TrackExit
<1>5. ASSUME NEW bar \in held, NEW reason \in Reasons, next = Closed(t, bar, reason),
             \A b \in t.entry + 1..bar - 1 : series[b] \cap {"stop", "target"} = {},
             "target" \in series[bar] <=> reason \in {"TARGET_HIT", "BOTH_TOUCHED"},
             "stop" \in series[bar] <=> reason \in {"STOP_HIT", "BOTH_TOUCHED"}
      PROVE  TrueOf(next, series)
  <2>1. /\ next.status = "CLOSED" /\ next.created = t.created /\ next.entry = t.entry
        /\ next.exit = bar /\ next.reason = reason
    BY <1>1, <1>5 DEF Closed, Records, TradesUpTo
  <2>2. bar \in 1..n /\ bar > t.entry /\ bar <= t.entry + MaxHolding /\ bar <= Len(series)
    BY <1>1, <1>2, <1>5
  <2> HIDE DEF next, held
  <2>3. EntryTrue(next, series)
    BY <1>1, <2>1 DEF EntryTrue, Entered, EntryBars
  <2>4. ExitTrue(next, series)
    BY <1>1, <1>5, <2>1, <2>2 DEF ExitTrue, Entered
  <2> QED
    BY <1>3, <2>1, <2>3, <2>4 DEF TrueOf
<1>6. CASE ~(~t.target \/ held = {}) /\ touching = {}
  <2>1. next = Closed(t, Max(held), "EXPIRED")
    BY <1>6 DEF TrackExit, Resolve
  <2>2. Max(held) \in held /\ \A b \in held : b <= Max(held)
    <3>1. held \in SUBSET (1..n) /\ held # {}
      BY <1>2, <1>6
    <3> HIDE DEF held
    <3> QED
      BY <1>1, <3>1, LastExists
  <2>3. \A b \in t.entry + 1..Max(held) - 1 : b \in held
    BY <1>1, <1>2, <2>2
  <2>4. \A b \in held : series[b] \cap {"stop", "target"} = {}
    BY <1>6
  <2>5. "EXPIRED" \in Reasons
    BY DEF Reasons
  <2>6. /\ "target" \in series[Max(held)] <=> "EXPIRED" \in {"TARGET_HIT", "BOTH_TOUCHED"}
        /\ "stop" \in series[Max(held)] <=> "EXPIRED" \in {"STOP_HIT", "BOTH_TOUCHED"}
    <3> HIDE DEF held
    <3> QED
      BY <2>2, <2>4
  <2>7. \A b \in t.entry + 1..Max(held) - 1 : series[b] \cap {"stop", "target"} = {}
    BY <2>3, <2>4
  <2> DEFINE bar == Max(held)
  <2>8. /\ bar \in held /\ next = Closed(t, bar, "EXPIRED")
        /\ \A b \in t.entry + 1..bar - 1 : series[b] \cap {"stop", "target"} = {}
        /\ "target" \in series[bar] <=> "EXPIRED" \in {"TARGET_HIT", "BOTH_TOUCHED"}
        /\ "stop" \in series[bar] <=> "EXPIRED" \in {"STOP_HIT", "BOTH_TOUCHED"}
    BY <2>1, <2>2, <2>6, <2>7
  <2> HIDE DEF held, next, bar
  <2>9. TrueOf(next, series)
    BY <1>5, <2>5, <2>8
  <2> QED
    BY <2>9 DEF next
<1>7. CASE ~(~t.target \/ held = {}) /\ touching # {}
  <2> DEFINE first == Min(touching)
  <2>1. next = Closed(t, first, Touch(series[first]))
    BY <1>7 DEF TrackExit, Resolve
  <2>2. first \in touching /\ \A b \in touching : first <= b
    <3>1. touching \in SUBSET (1..n)
      BY <1>2
    <3> HIDE DEF touching
    <3> QED
      BY <1>7, <3>1, FirstWithin
  <2>3. first \in held /\ series[first] \cap {"stop", "target"} # {}
    BY <2>2
  <2>4. \A b \in t.entry + 1..first - 1 : b \in held /\ b \notin touching
    <3>1. first \in 1..n /\ first <= t.entry + MaxHolding
      <4> HIDE DEF first
      <4> QED
        BY <1>2, <2>3
    <3> SUFFICES ASSUME NEW b \in t.entry + 1..first - 1
                 PROVE  b \in held /\ b \notin touching
      OBVIOUS
    <3> HIDE DEF first, touching
    <3>2. b \in 1..n /\ b > t.entry /\ b <= t.entry + MaxHolding /\ ~(first <= b)
      BY <1>1, <3>1
    <3> QED
      BY <1>2, <2>2, <3>2
  <2>5. \A b \in t.entry + 1..first - 1 : series[b] \cap {"stop", "target"} = {}
    BY <2>4
  <2>6. /\ Touch(series[first]) \in Reasons
        /\ "target" \in series[first] <=> Touch(series[first]) \in {"TARGET_HIT", "BOTH_TOUCHED"}
        /\ "stop" \in series[first] <=> Touch(series[first]) \in {"STOP_HIT", "BOTH_TOUCHED"}
    <3> HIDE DEF first
    <3> QED
      BY <2>3 DEF Touch, Reasons
  <2> DEFINE reason == Touch(series[first])
  <2>7. /\ first \in held /\ reason \in Reasons /\ next = Closed(t, first, reason)
        /\ \A b \in t.entry + 1..first - 1 : series[b] \cap {"stop", "target"} = {}
        /\ "target" \in series[first] <=> reason \in {"TARGET_HIT", "BOTH_TOUCHED"}
        /\ "stop" \in series[first] <=> reason \in {"STOP_HIT", "BOTH_TOUCHED"}
    BY <2>1, <2>3, <2>5, <2>6
  <2> HIDE DEF held, next, first, touching, reason
  <2>8. TrueOf(next, series)
    BY <1>5, <2>7
  <2> QED
    BY <2>8 DEF next
<1> QED
  BY <1>4, <1>6, <1>7

LEMMA EntryFound ==
    ASSUME NEW series \in Seq(Candles), Len(series) <= MaxBars, NEW n \in 0..Len(series),
           NEW t, TrueOf(t, series), t.status = "WAITING_FOR_ENTRY"
    PROVE  TrueOf(TrackEntry(t, series, 1..n), series)
<1> DEFINE bars == SinceCreation(t, 1..n)
           touching == {b \in bars : "entry" \in series[b]}
           first == Min(touching)
           next == TrackEntry(t, series, 1..n)
<1>1. /\ t \in Records /\ t.created \in Nat /\ ~Resolved(t)
      /\ Len(series) \in Nat /\ n \in Nat /\ MaxEntry \in Nat \ {0} /\ MaxBars \in Nat
  BY LenProperties, EngineAssumption, TradesAssumption DEF TrueOf, Records, TradesUpTo
<1>2. bars = {b \in 1..n : b > t.created /\ b <= t.created + MaxEntry}
  BY <1>1, LeadingIs DEF SinceCreation
<1>3. CASE touching = {}
  BY <1>3 DEF TrackEntry
<1>4. CASE touching # {}
  <2>1. first \in touching /\ \A b \in touching : first <= b
    <3>1. touching \in SUBSET (1..n)
      BY <1>2
    <3> HIDE DEF touching
    <3> QED
      BY <1>4, <3>1, FirstWithin
  <2>2. next = [t EXCEPT !.status = "OPEN", !.entry = first]
    BY <1>4 DEF TrackEntry
  <2>3. first \in 1..n /\ first \in EntryBars(t) /\ first <= Len(series) /\ first # 0
        /\ first \in 0..MaxBars /\ "entry" \in series[first]
    BY <1>1, <1>2, <2>1 DEF EntryBars
  <2>4. \A b \in EntryBars(t) : b < first => "entry" \notin series[b]
    <3> SUFFICES ASSUME NEW b \in EntryBars(t), b < first, "entry" \in series[b] PROVE FALSE
      OBVIOUS
    <3>1. b \in bars
      BY <1>1, <1>2, <2>3 DEF EntryBars
    <3>2. b \in touching /\ first <= b /\ b \in Nat /\ first \in Nat
      BY <1>2, <2>1, <3>1
    <3> QED
      BY <3>2
  <2> HIDE DEF first, next
  <2>5. /\ next \in Records /\ next.status = "OPEN" /\ next.entry = first
        /\ next.created = t.created /\ next.reason = t.reason
    BY <1>1, <2>2, <2>3 DEF Records, TradesUpTo
  <2>6. EntryTrue(next, series)
    BY <2>3, <2>4, <2>5 DEF EntryTrue, EntryBars
  <2>7. Entered(next) /\ ~Resolved(next)
    BY <1>1, <2>3, <2>5 DEF Entered, Resolved
  <2> QED
    BY <2>5, <2>6, <2>7 DEF TrueOf, ExitTrue, next
<1> QED
  BY <1>3, <1>4

LEMMA TrackTrue ==
    ASSUME NEW series \in Seq(Candles), Len(series) <= MaxBars, NEW n \in 0..Len(series),
           NEW t, TrueOf(t, series)
    PROVE  TrueOf(Track(t, series, 1..n), series)
<1>1. CASE t.status = "WAITING_FOR_ENTRY"
  <2> DEFINE entered == TrackEntry(t, series, 1..n)
  <2>1. TrueOf(entered, series)
    BY <1>1, EntryFound
  <2>2. Track(t, series, 1..n) =
           IF entered.status = "OPEN" THEN TrackExit(entered, series, 1..n) ELSE entered
    BY <1>1 DEF Track
  <2> HIDE DEF entered
  <2>3. entered.status = "OPEN" => TrueOf(TrackExit(entered, series, 1..n), series)
    BY <2>1, ExitFound
  <2> QED
    BY <2>1, <2>2, <2>3
<1>2. CASE t.status = "OPEN"
  <2>1. Track(t, series, 1..n) = TrackExit(t, series, 1..n)
    BY <1>2 DEF Track
  <2> QED
    BY <1>2, <2>1, ExitFound
<1>3. CASE t.status \notin {"WAITING_FOR_ENTRY", "OPEN"}
  BY <1>3 DEF Track
<1> QED
  BY <1>1, <1>2, <1>3

LEMMA CloseTrue ==
    ASSUME NEW series, NEW t, TrueOf(t, series), MayClose(t)
    PROVE  TrueOf(CloseManually(t), series)
<1> DEFINE next == CloseManually(t)
<1>1. /\ t \in Records /\ EntryTrue(t, series)
      /\ 0 \in 0..MaxBars /\ "MANUAL_CLOSE" \in Reasons
  BY TradesAssumption DEF TrueOf, Reasons
<1>2. next \in Records
  BY <1>1, ClosedIs DEF CloseManually
<1>3. /\ next.status = "CLOSED" /\ next.reason = "MANUAL_CLOSE"
      /\ next.created = t.created /\ next.entry = t.entry
  BY <1>1 DEF CloseManually, Closed, Records, TradesUpTo
<1> HIDE DEF next
<1>4. EntryTrue(next, series) /\ ~Resolved(next)
  BY <1>1, <1>3 DEF EntryTrue, Entered, EntryBars, Resolved
<1>5. TrueOf(next, series)
  BY <1>2, <1>3, <1>4 DEF TrueOf, ExitTrue
<1> QED
  BY <1>5 DEF next

LEMMA CancelTrue ==
    ASSUME NEW series, NEW t, TrueOf(t, series), MayCancel(t)
    PROVE  TrueOf(Cancel(t), series)
<1> DEFINE next == Cancel(t)
<1>1. t \in Records /\ ~Entered(t)
  BY DEF TrueOf, MayCancel
<1>2. next = [t EXCEPT !.status = "CANCELLED", !.reason = "CANCELLED"]
  BY DEF Cancel
<1>3. /\ next \in Records /\ next.status = "CANCELLED" /\ next.reason = "CANCELLED"
      /\ next.entry = t.entry
  BY <1>1, <1>2 DEF Records, TradesUpTo, Terminal, Reasons
<1> HIDE DEF next
<1>4. ~Entered(next) /\ ~Resolved(next)
  BY <1>1, <1>3 DEF Entered, Resolved
<1>5. TrueOf(next, series)
  BY <1>3, <1>4 DEF TrueOf, EntryTrue, ExitTrue
<1> QED
  BY <1>5 DEF next

LEMMA NewTrue ==
    ASSUME NEW series, NEW created \in 0..MaxBars + 1,
           NEW geometry \in Geometries
    PROVE  TrueOf(NewTrade(created, geometry), series)
<1> DEFINE t == NewTrade(created, geometry)
<1>1. /\ t \in Records /\ t.status \in {"WAITING_FOR_ENTRY", "INVALIDATED"}
      /\ t.entry = 0 /\ t.reason \in {"none", "NO_GEOMETRY"}
  BY NewTradeIs
<1> HIDE DEF t
<1>2. TrueOf(t, series)
  BY <1>1 DEF TrueOf, EntryTrue, ExitTrue, Entered, Resolved
<1> QED
  BY <1>2 DEF t

\* Later candles change nothing of what a trade says.
LEMMA TrueLater ==
    ASSUME NEW series \in Seq(Candles), NEW candle \in Candles, NEW t, TrueOf(t, series)
    PROVE  TrueOf(t, Append(series, candle))
<1> DEFINE more == Append(series, candle)
<1>1. /\ Len(series) \in Nat /\ Len(more) = Len(series) + 1
      /\ \A b \in 1..Len(series) : more[b] = series[b]
  BY AppendProperties, LenProperties
<1>2. t \in Records /\ t.entry \in Nat /\ t.exit \in Nat /\ t.created \in Nat /\ MaxBars \in Nat
  BY TradesAssumption DEF TrueOf, Records, TradesUpTo
<1> HIDE DEF more
<1>3. EntryTrue(t, more)
  <2> SUFFICES ASSUME Entered(t) PROVE EntryTrue(t, more)
    BY DEF EntryTrue
  <2>1. /\ t.entry \in EntryBars(t) /\ t.entry <= Len(series) /\ "entry" \in series[t.entry]
        /\ \A b \in EntryBars(t) : b < t.entry => "entry" \notin series[b]
    BY DEF TrueOf, EntryTrue
  <2>2. t.entry \in 1..Len(series) /\ more[t.entry] = series[t.entry]
    BY <1>1, <1>2, <2>1 DEF EntryBars
  <2>3. \A b \in EntryBars(t) : b < t.entry => more[b] = series[b]
    BY <1>1, <1>2, <2>1 DEF EntryBars
  <2> QED
    BY <1>1, <1>2, <2>1, <2>2, <2>3 DEF EntryTrue
<1>4. ExitTrue(t, more)
  <2> SUFFICES ASSUME Resolved(t) PROVE ExitTrue(t, more)
    BY DEF ExitTrue
  <2>1. /\ Entered(t) /\ t.exit > t.entry /\ t.exit <= Len(series)
        /\ t.exit <= t.entry + MaxHolding
        /\ \A b \in t.entry + 1..t.exit - 1 : series[b] \cap {"stop", "target"} = {}
        /\ "target" \in series[t.exit] <=> t.reason \in {"TARGET_HIT", "BOTH_TOUCHED"}
        /\ "stop" \in series[t.exit] <=> t.reason \in {"STOP_HIT", "BOTH_TOUCHED"}
    BY DEF TrueOf, ExitTrue
  <2>2. more[t.exit] = series[t.exit]
    BY <1>1, <1>2, <2>1
  <2>3. \A b \in t.entry + 1..t.exit - 1 : more[b] = series[b]
    BY <1>1, <1>2, <2>1
  <2>4. t.exit <= Len(more)
    BY <1>1, <1>2, <2>1
  <2> QED
    BY <2>1, <2>2, <2>3, <2>4 DEF ExitTrue
<1>5. TrueOf(t, more)
  BY <1>3, <1>4 DEF TrueOf
<1> QED
  BY <1>5 DEF more
-----------------------------------------------------------------------------
(* ... of every trade stored or about to be saved, when answers are complete *)

AllTrue(stored, jobs, series) ==
    /\ \A id \in DOMAIN stored : TrueOf(stored[id], series)
    /\ \A o \in Operators : jobs[o].at = "save" => TrueOf(jobs[o].copy, series)
TrueInv == TradesInv /\ AllTrue(store, op, market)

LEMMA AnswersAre ==
    ASSUME Window >= MaxBars, TradesInv, NEW window \in Answers
    PROVE  \E n \in 0..Len(market) : window = 1..n
<1>1. Len(market) \in Nat /\ Len(market) <= MaxBars /\ Window \in Nat /\ MaxBars \in Nat
  BY LenProperties, TradesAssumption DEF TradesInv
<1>2. PICK latest \in 0..Len(market), reference \in 0..Len(market) :
         window = Shown(latest, reference)
  BY DEF Answers
<1>3. CASE latest <= reference
  <2>1. Shown(latest, reference) = 1..latest
    BY <1>1, <1>3 DEF Shown
  <2> QED
    BY <1>2, <2>1
<1>4. CASE reference < latest
  <2>1. Shown(latest, reference) = 1..reference
    BY <1>1, <1>4 DEF Shown
  <2> QED
    BY <1>2, <2>1
<1> QED
  BY <1>1, <1>3, <1>4

LEMMA OnwardAt == \A job : Onward(job).at # "save"
BY DEF Onward, Operation, Idle

LEMMA LoadCopies ==
    ASSUME TradesInv, NEW o \in Operators, NEW job, NEW id, LoadOne(o, job, id),
           op'[o].at = "save"
    PROVE  op'[o].copy = store[id]
<1> DEFINE loaded == [at |-> "save", kind |-> job.kind, todo |-> job.todo, id |-> id,
                      copy |-> store[id]]
<1>1. op'[o] = IF GoesOn(job.kind, store[id]) THEN loaded ELSE Onward(loaded)
  BY DEF LoadOne, Become, TradesInv
<1>2. Onward(loaded).at # "save"
  BY OnwardAt
<1>3. op'[o] = loaded
  BY <1>1, <1>2
<1> QED
  BY <1>3

LEMMA StepTrue ==
    ASSUME TrueInv, NEW o \in Operators, op' = [op EXCEPT ![o] = op'[o]], market' = market,
           \A id \in Stored' : TrueOf(store'[id], market),
           op'[o].at = "save" => TrueOf(op'[o].copy, market)
    PROVE  AllTrue(store', op', market')
<1>1. \A p \in Operators : op'[p] = IF p = o THEN op'[o] ELSE op[p]
  BY DEF TrueInv, TradesInv
<1>2. \A p \in Operators : op'[p].at = "save" => TrueOf(op'[p].copy, market)
  BY <1>1 DEF TrueInv, AllTrue
<1> QED
  BY <1>2 DEF AllTrue, Stored

LEMMA ResultsTrue ==
    ASSUME Window >= MaxBars, TradesInv, NEW job, Fine(job, Stored), job.at = "save",
           TrueOf(job.copy, market), NEW next \in Results(job)
    PROVE  TrueOf(next, market)
<1>1. /\ GoesOn(job.kind, job.copy) /\ job.kind \in {"cycle", "track", "cancel", "close"}
      /\ market \in Seq(Candles) /\ Len(market) <= MaxBars
  BY DEF Fine, Operations, Kinds, Idle, TradesInv
<1>2. CASE job.kind \in {"cycle", "track"}
  <2>1. PICK window \in Answers : next = Track(job.copy, market, window)
    BY <1>2 DEF Results
  <2>2. PICK n \in 0..Len(market) : window = 1..n
    BY AnswersAre
  <2> QED
    BY <1>1, <2>1, <2>2, TrackTrue
<1>3. CASE job.kind = "close"
  <2>1. next = CloseManually(job.copy) /\ MayClose(job.copy)
    BY <1>1, <1>3 DEF Results, GoesOn
  <2> QED
    BY <2>1, CloseTrue
<1>4. CASE job.kind = "cancel"
  <2>1. next = Cancel(job.copy) /\ MayCancel(job.copy)
    BY <1>1, <1>4 DEF Results, GoesOn
  <2> QED
    BY <2>1, CancelTrue
<1> QED
  BY <1>1, <1>2, <1>3, <1>4

LEMMA OperateTrue ==
    ASSUME Window >= MaxBars, TrueInv, NEW o \in Operators, Operate(o)
    PROVE  AllTrue(store', op', market')
<1>0. /\ TradesInv /\ Fine(op[o], Stored) /\ op = [p \in Operators |-> op[p]]
      /\ \A id \in Stored : TrueOf(store[id], market)
      /\ op[o].at = "save" => TrueOf(op[o].copy, market)
  BY DEF TrueInv, AllTrue, TradesInv, Stored
<1>1. CASE /\ UNCHANGED <<market, store>>
           /\ \E job : op' = [op EXCEPT ![o] = Onward(job)]
  <2>1. op'[o].at # "save" /\ op' = [op EXCEPT ![o] = op'[o]]
    BY <1>0, <1>1, OnwardAt
  <2>2. \A id \in Stored' : TrueOf(store'[id], market)
    BY <1>0, <1>1 DEF Stored
  <2> QED
    BY <1>1, <2>1, <2>2, StepTrue
<1>2. CASE \E job : \E id \in Stored : LoadOne(o, job, id) /\ UNCHANGED <<market, store>>
  <2>1. PICK job : \E id \in Stored : LoadOne(o, job, id) /\ UNCHANGED <<market, store>>
    BY <1>2
  <2>2. PICK id \in Stored : LoadOne(o, job, id) /\ UNCHANGED <<market, store>>
    BY <2>1
  <2>3. op'[o].at = "save" => TrueOf(op'[o].copy, market)
    BY <1>0, <2>2, LoadCopies
  <2>4. op' = [op EXCEPT ![o] = op'[o]]
    BY <1>0, <2>2 DEF LoadOne, Become
  <2>5. \A i \in Stored' : TrueOf(store'[i], market)
    BY <1>0, <2>2 DEF Stored
  <2> QED
    BY <2>2, <2>3, <2>4, <2>5, StepTrue
<1>3. CASE Save(o)
  <2>1. /\ op' = [op EXCEPT ![o] = op'[o]] /\ op[o].id \in Stored /\ Stored' = Stored
        /\ market' = market /\ store'[op[o].id] \in Results(op[o])
        /\ \A id \in Stored : id # op[o].id => store'[id] = store[id]
    BY <1>0, <1>3, SaveStep
  <2>2. op[o].at = "save" /\ op'[o] = Onward(op[o])
    BY <1>0, <1>3 DEF Save, Become
  <2>3. TrueOf(store'[op[o].id], market)
    BY <1>0, <2>1, <2>2, ResultsTrue
  <2>4. \A id \in Stored' : TrueOf(store'[id], market)
    BY <1>0, <2>1, <2>3
  <2>5. op'[o].at # "save"
    BY <2>2, OnwardAt
  <2> QED
    BY <2>1, <2>4, <2>5, StepTrue
<1>4. CASE Analyse(o)
  <2>1. PICK id : op' = [op EXCEPT ![o] = [op[o] EXCEPT !.at = "create", !.id = id]]
    BY <1>4 DEF Analyse, Become
  <2>2. op[o].at = "analyse" /\ op[o] \in Operations
    BY <1>0, <1>4 DEF Analyse, Fine, Idle
  <2>3. op'[o].at = "create" /\ op' = [op EXCEPT ![o] = op'[o]]
    BY <1>0, <2>1, <2>2 DEF Operations
  <2>4. \A i \in Stored' : TrueOf(store'[i], market)
    BY <1>0, <1>4 DEF Analyse, Stored
  <2> QED
    BY <1>4, <2>3, <2>4, StepTrue DEF Analyse
<1>5. CASE Create(o)
  <2> DEFINE id == op[o].id
             new == NewTrade(id.bar, id.geometry)
  <2>1. id \in Ids /\ id.bar \in 0..MaxBars + 1 /\ id.geometry \in Geometries
    BY <1>0, <1>5, TradesAssumption DEF Create, Fine, Ids
  <2>2. Write(id, new) /\ op' = [op EXCEPT ![o] = Idle] /\ op'[o] = Idle
    BY <1>0, <1>5 DEF Create, Become
  <2>3. TrueOf(new, market)
    BY <2>1, NewTrue
  <2> HIDE DEF id, new
  <2>4. market' = market /\ \A i \in Stored' : TrueOf(store'[i], market)
    BY <1>0, <2>1, <2>2, <2>3, WriteIs
  <2>5. op'[o].at # "save"
    BY <2>2 DEF Idle
  <2>6. op' = [op EXCEPT ![o] = op'[o]]
    BY <2>2
  <2> QED
    BY <2>4, <2>5, <2>6, StepTrue
<1>6. CASE GiveUp(o)
  <2>1. op' = [op EXCEPT ![o] = Idle] /\ op'[o] = Idle /\ UNCHANGED <<market, store>>
    BY <1>0, <1>6 DEF GiveUp, Become
  <2>2. \A i \in Stored' : TrueOf(store'[i], market)
    BY <1>0, <2>1 DEF Stored
  <2>3. op'[o].at # "save"
    BY <2>1 DEF Idle
  <2>4. op' = [op EXCEPT ![o] = op'[o]]
    BY <2>1
  <2> QED
    BY <2>1, <2>2, <2>3, <2>4, StepTrue
<1>7. ASSUME RunCycle(o) \/ Skip(o) PROVE \E job : op' = [op EXCEPT ![o] = Onward(job)]
  BY <1>7 DEF RunCycle, Skip, Become
<1>8. ASSUME Load(o) PROVE \E job : \E id \in Stored : LoadOne(o, job, id)
  <2>1. PICK id \in op[o].todo : LoadOne(o, op[o], id)
    BY <1>8 DEF Load
  <2>2. id \in Stored
    BY <1>0, <1>8, <2>1 DEF Load, Fine
  <2> QED
    BY <2>1, <2>2
<1>9. ASSUME Request(o) PROVE \E job : \E id \in Stored : LoadOne(o, job, id)
  BY <1>9 DEF Request
<1>10. ASSUME RunCycle(o) \/ Skip(o) \/ Load(o) \/ Request(o) PROVE UNCHANGED <<market, store>>
  BY <1>10 DEF RunCycle, Skip, Load, Request
<1> QED
  BY <1>1, <1>2, <1>3, <1>4, <1>5, <1>6, <1>7, <1>8, <1>9, <1>10 DEF Operate

LEMMA TrueStep ==
    ASSUME Window >= MaxBars, TrueInv, [Next]_vars
    PROVE  TrueInv'
<1>0. /\ TradesInv /\ TradesInv'
      /\ \A id \in Stored : TrueOf(store[id], market)
      /\ \A o \in Operators : op[o].at = "save" => TrueOf(op[o].copy, market)
  BY TradesStep DEF TrueInv, AllTrue, Stored
<1>1. CASE Tick
  <2>1. PICK candle \in Candles : market' = Append(market, candle)
    BY <1>1, TradesAssumption DEF Tick
  <2>2. \A t : TrueOf(t, market) => TrueOf(t, market')
    BY <1>0, <2>1, TrueLater DEF TradesInv
  <2> QED
    BY <1>0, <1>1, <2>2 DEF Tick, TrueInv, AllTrue, Stored
<1>2. CASE RequestAgain \/ RequestNew
  <2>1. PICK id \in Ids, created \in 0..MaxBars + 1, geometry \in Geometries :
           Write(id, NewTrade(created, geometry))
    BY <1>0, <1>2, RequestWrites
  <2>2. TrueOf(NewTrade(created, geometry), market) /\ op' = op
    BY <1>0, <1>2, RequestWrites, NewTrue
  <2>3. market' = market /\ \A i \in Stored' : TrueOf(store'[i], market)
    BY <1>0, <2>1, <2>2, WriteIs
  <2> QED
    BY <1>0, <2>2, <2>3 DEF TrueInv, AllTrue, Stored
<1>3. CASE UNCHANGED vars
  BY <1>0, <1>3 DEF vars, TrueInv, AllTrue, Stored
<1>4. CASE \E o \in Operators : Operate(o)
  BY <1>0, <1>4, OperateTrue DEF TrueInv
<1> QED
  BY <1>1, <1>2, <1>3, <1>4 DEF Next

LEMMA TrueInvariant ==
    ASSUME Window >= MaxBars
    PROVE  Spec => []TrueInv
<1>1. Init => TrueInv
  <2> SUFFICES ASSUME Init PROVE TrueInv
    OBVIOUS
  <2>1. TradesInv /\ DOMAIN store = {}
    BY TradesStart DEF Init
  <2>2. \A o \in Operators : op[o].at # "save"
    BY DEF Init, Idle
  <2> QED
    BY <2>1, <2>2 DEF TrueInv, AllTrue
<1>2. TrueInv /\ [Next]_vars => TrueInv'
  BY TrueStep
<1> QED
  BY <1>1, <1>2, PTL DEF Spec

-----------------------------------------------------------------------------
(* EntryIsFirst and ExitIsFirst *)

\* Whatever interleavings of reads and writes: a stored trade was entered at the
\* first candle of its entry window that reached the entry, when the provider
\* answers with all candles there are.
THEOREM EntriesAreFirst ==
    ASSUME Window >= MaxBars
    PROVE  Spec => []EntryIsFirst
<1>1. TrueInv => EntryIsFirst
  BY DEF TrueInv, AllTrue, TrueOf, EntryTrue, EntryIsFirst, Stored
<1> QED
  BY <1>1, TrueInvariant, PTL

LEMMA ExitIntro ==
    ASSUME NEW t, NEW series, Resolved(t), ExitTrue(t, series)
    PROVE  /\ Entered(t) /\ t.exit > t.entry /\ t.exit <= Len(series)
           /\ t.exit <= t.entry + MaxHolding
           /\ \A b \in t.entry + 1..t.exit - 1 : series[b] \cap {"stop", "target"} = {}
           /\ ("target" \in series[t.exit]) = (t.reason \in {"TARGET_HIT", "BOTH_TOUCHED"})
           /\ ("stop" \in series[t.exit]) = (t.reason \in {"STOP_HIT", "BOTH_TOUCHED"})
<1>1. /\ Entered(t) /\ t.exit > t.entry /\ t.exit <= Len(series)
      /\ t.exit <= t.entry + MaxHolding
      /\ \A b \in t.entry + 1..t.exit - 1 : series[b] \cap {"stop", "target"} = {}
  BY DEF ExitTrue
<1>2. /\ "target" \in series[t.exit] <=> t.reason \in {"TARGET_HIT", "BOTH_TOUCHED"}
      /\ "stop" \in series[t.exit] <=> t.reason \in {"STOP_HIT", "BOTH_TOUCHED"}
  BY DEF ExitTrue
<1>3. ("target" \in series[t.exit]) = (t.reason \in {"TARGET_HIT", "BOTH_TOUCHED"})
  BY <1>2
<1>4. ("stop" \in series[t.exit]) = (t.reason \in {"STOP_HIT", "BOTH_TOUCHED"})
  BY <1>2
<1> QED
  BY <1>1, <1>3, <1>4, Zenon

\* ... and a trade that candles closed, closed at the first candle after its entry,
\* within the horizon, that reached a level, and as that candle says.
THEOREM ExitsAreFirst ==
    ASSUME Window >= MaxBars
    PROVE  Spec => []ExitIsFirst
<1>1. TrueInv => ExitIsFirst
  BY ExitIntro, Zenon DEF TrueInv, AllTrue, TrueOf, ExitIsFirst, Stored
<1> QED
  BY <1>1, TrueInvariant, PTL

-----------------------------------------------------------------------------
(* The evaluator of historical outcomes *)

LEMMA InspectedIs ==
    ASSUME NEW series \in Seq(Candles), NEW a \in Nat
    PROVE  Inspected(series, a) = {b \in 1..Len(series) : b > a /\ b <= a + MaxHolding}
<1>1. Afterwards(series, a) = After(1..Len(series), a)
  BY LenProperties DEF Afterwards, After
<1> QED
  BY <1>1, LeadingIs, LenProperties, EngineAssumption DEF Inspected

\* A candle of the window that reaches a level, and none before it does.
LEMMA EvaluateHit ==
    ASSUME NEW series \in Seq(Candles), NEW a \in Nat, NEW x \in 1..Len(series),
           x > a, x <= a + MaxHolding, series[x] \cap {"stop", "target"} # {},
           \A b \in a + 1..x - 1 : series[b] \cap {"stop", "target"} = {}
    PROVE  Evaluate(series, a) = Verdict(Touch(series[x]), x, x - a)
<1> DEFINE window == Inspected(series, a)
           Touching(level) == {b \in window : level \in series[b]}
           First(level) == Min(Touching(level))
<1>0. Len(series) \in Nat /\ MaxHolding \in Nat \ {0} /\ x \in Nat
  BY LenProperties, EngineAssumption
<1>1. /\ window = {b \in 1..Len(series) : b > a /\ b <= a + MaxHolding}
      /\ window \in SUBSET Nat /\ x \in window
  BY <1>0, InspectedIs
<1>2. Min(window) = a + 1
  <2>1. a + 1 \in window /\ \A b \in window : a + 1 <= b
    BY <1>0, <1>1
  <2> HIDE DEF window
  <2> QED
    BY <1>1, <2>1, FirstIs
<1>3. Evaluate(series, a) =
         IF window = {} THEN Verdict("INSUFFICIENT_DATA", 0, 0)
         ELSE IF Touching("target") = {} /\ Touching("stop") = {}
              THEN Verdict("EXPIRED", 0, Cardinality(window))
         ELSE IF Touching("stop") = {}
              THEN Verdict("TARGET_HIT", First("target"), First("target") - Min(window) + 1)
         ELSE IF Touching("target") = {} \/ First("stop") < First("target")
              THEN Verdict("STOP_HIT", First("stop"), First("stop") - Min(window) + 1)
         ELSE IF First("target") < First("stop")
              THEN Verdict("TARGET_HIT", First("target"), First("target") - Min(window) + 1)
         ELSE Verdict("BOTH_TOUCHED", First("target"), First("target") - Min(window) + 1)
  BY DEF Evaluate
<1>4. ASSUME NEW level \in {"stop", "target"}
      PROVE  /\ Touching(level) \in SUBSET window
             /\ level \in series[x] => x \in Touching(level) /\ First(level) = x
             /\ level \notin series[x] /\ Touching(level) # {} => First(level) \in Nat /\ x < First(level)
  <2>1. \A b \in Touching(level) : b \in Nat /\ x <= b
    <3> SUFFICES ASSUME NEW b \in window, level \in series[b], ~(x <= b) PROVE FALSE
      BY <1>0, <1>1
    <3>1. b \in a + 1..x - 1
      BY <1>0, <1>1
    <3> QED
      BY <3>1
  <2>2. Touching(level) \in SUBSET Nat
    BY <2>1
  <2>3. level \in series[x] => x \in Touching(level)
    BY <1>1
  <2>4. level \notin series[x] => x \notin Touching(level)
    OBVIOUS
  <2>5. Touching(level) \in SUBSET window
    OBVIOUS
  <2> DEFINE touching == Touching(level)
  <2> HIDE DEF Touching, touching
  <2>6. level \in series[x] => First(level) = x
    <3> SUFFICES ASSUME level \in series[x] PROVE Min(touching) = x
      BY DEF touching, First
    <3> QED
      BY <2>1, <2>2, <2>3, FirstIs DEF touching
  <2>7. level \notin series[x] /\ touching # {} => Min(touching) \in Nat /\ x < Min(touching)
    <3> SUFFICES ASSUME level \notin series[x], touching # {}
                 PROVE  Min(touching) \in Nat /\ x < Min(touching)
      OBVIOUS
    <3>1. touching \in SUBSET Nat /\ x \notin touching /\ \A b \in touching : b \in Nat /\ x <= b
      BY <2>1, <2>2, <2>4 DEF touching
    <3> DEFINE m == Min(touching)
    <3>2. m \in touching
      BY <3>1, FirstExists
    <3> HIDE DEF m
    <3>3. m \in Nat /\ x <= m /\ m # x
      BY <3>1, <3>2
    <3>4. x < m
      BY <1>0, <3>3
    <3> QED
      BY <3>3, <3>4 DEF m
  <2> QED
    BY <2>3, <2>5, <2>6, <2>7 DEF touching
<1>5. window # {} /\ x - (a + 1) + 1 = x - a
  BY <1>0, <1>1
<1> HIDE DEF window, Touching, First
<1>6. CASE "target" \in series[x] /\ "stop" \in series[x]
  <2>1. Touch(series[x]) = "BOTH_TOUCHED"
    BY <1>6 DEF Touch
  <2>2. x \in Touching("target") /\ x \in Touching("stop") /\ First("target") = x /\ First("stop") = x
    BY <1>4, <1>6
  <2>3. ~(x < x)
    BY <1>0
  <2> QED
    BY <1>2, <1>3, <1>5, <2>1, <2>2, <2>3
<1>7. CASE "target" \in series[x] /\ "stop" \notin series[x]
  <2>1. Touch(series[x]) = "TARGET_HIT"
    BY <1>7 DEF Touch
  <2>2. /\ x \in Touching("target") /\ First("target") = x
        /\ Touching("stop") # {} => First("stop") \in Nat /\ x < First("stop")
    BY <1>4, <1>7
  <2>3. Touching("stop") # {} => x < First("stop") /\ ~(First("stop") < x)
    BY <1>0, <2>2
  <2> QED
    BY <1>2, <1>3, <1>5, <2>1, <2>2, <2>3
<1>8. CASE "target" \notin series[x]
  <2>1. "stop" \in series[x] /\ Touch(series[x]) = "STOP_HIT"
    BY <1>8 DEF Touch
  <2>2. /\ x \in Touching("stop") /\ First("stop") = x
        /\ Touching("target") # {} => First("target") \in Nat /\ x < First("target")
    BY <1>4, <1>8, <2>1
  <2> QED
    BY <1>2, <1>3, <1>5, <2>1, <2>2
<1> QED
  BY <1>6, <1>7, <1>8

\* No candle of the window reaches a level; its last is x.
LEMMA EvaluateNothing ==
    ASSUME NEW series \in Seq(Candles), NEW a \in Nat, NEW x \in 1..Len(series),
           x > a, x <= a + MaxHolding, x = Len(series) \/ x = a + MaxHolding,
           \A b \in a + 1..x : series[b] \cap {"stop", "target"} = {}
    PROVE  Evaluate(series, a) = Verdict("EXPIRED", 0, x - a)
<1> DEFINE window == Inspected(series, a)
           Touching(level) == {b \in window : level \in series[b]}
<1>0. Len(series) \in Nat /\ MaxHolding \in Nat \ {0} /\ x \in Nat
  BY LenProperties, EngineAssumption
<1>1. window = a + 1..x
  <2>1. window = {b \in 1..Len(series) : b > a /\ b <= a + MaxHolding}
    BY InspectedIs
  <2> QED
    BY <1>0, <2>1
<1>2. Cardinality(window) = x - a
  <2>1. Cardinality(a + 1..x) = x - (a + 1) + 1
    BY <1>0, FS_Interval
  <2> HIDE DEF window
  <2> QED
    BY <1>0, <1>1, <2>1
<1>3. Touching("target") = {} /\ Touching("stop") = {} /\ window # {}
  <2> HIDE DEF window
  <2> QED
    BY <1>0, <1>1
<1>4. window # {} /\ Touching("target") = {} /\ Touching("stop") = {} =>
         Evaluate(series, a) = Verdict("EXPIRED", 0, Cardinality(window))
  BY DEF Evaluate
<1> HIDE DEF window, Touching
<1> QED
  BY <1>2, <1>3, <1>4

\* Two engines that share no code agree: what paper trading did, the evaluator says.
LEMMA EvaluatorAgrees ==
    ASSUME NEW series \in Seq(Candles), NEW t, TrueOf(t, series), Resolved(t)
    PROVE  LET seen == IF t.reason = "EXPIRED" THEN SubSeq(series, 1, t.exit) ELSE series
           IN  Evaluate(seen, t.entry) =
                  Verdict(t.reason, IF t.reason = "EXPIRED" THEN 0 ELSE t.exit, t.exit - t.entry)
<1>1. /\ Len(series) \in Nat /\ t.entry \in Nat /\ t.exit \in Nat
      /\ t.reason \in {"TARGET_HIT", "STOP_HIT", "BOTH_TOUCHED", "EXPIRED"}
      /\ MaxHolding \in Nat \ {0}
  BY LenProperties, EngineAssumption DEF TrueOf, Records, TradesUpTo, Resolved
<1>2. /\ t.exit > t.entry /\ t.exit <= Len(series) /\ t.exit <= t.entry + MaxHolding
      /\ \A b \in t.entry + 1..t.exit - 1 : series[b] \cap {"stop", "target"} = {}
      /\ "target" \in series[t.exit] <=> t.reason \in {"TARGET_HIT", "BOTH_TOUCHED"}
      /\ "stop" \in series[t.exit] <=> t.reason \in {"STOP_HIT", "BOTH_TOUCHED"}
  BY DEF TrueOf, ExitTrue
<1>3. t.exit \in 1..Len(series)
  BY <1>1, <1>2
<1>4. CASE t.reason # "EXPIRED"
  <2>1. series[t.exit] \cap {"stop", "target"} # {} /\ Touch(series[t.exit]) = t.reason
    BY <1>1, <1>2, <1>4 DEF Touch
  <2>2. Evaluate(series, t.entry) = Verdict(t.reason, t.exit, t.exit - t.entry)
    BY <1>1, <1>2, <1>3, <2>1, EvaluateHit
  <2> QED
    BY <1>4, <2>2
<1>5. CASE t.reason = "EXPIRED"
  <2> DEFINE seen == SubSeq(series, 1, t.exit)
  <2>1. /\ seen \in Seq(Candles) /\ Len(seen) = t.exit
        /\ \A b \in 1..t.exit : seen[b] = series[b]
    <3>1. \A b \in 1..t.exit : series[b] \in Candles
      BY <1>1, <1>2, LenProperties
    <3>2. /\ seen \in Seq(Candles)
          /\ Len(seen) = IF 1 <= t.exit THEN t.exit - 1 + 1 ELSE 0
          /\ \A b \in 1..t.exit - 1 + 1 : seen[b] = series[1 + b - 1]
      BY <1>1, <3>1, SubSeqProperties
    <3> HIDE DEF seen
    <3> QED
      BY <1>1, <1>3, <3>2
  <2> HIDE DEF seen
  <2>2. \A b \in t.entry + 1..t.exit : seen[b] \cap {"stop", "target"} = {}
    <3> SUFFICES ASSUME NEW b \in t.entry + 1..t.exit
                 PROVE  series[b] \cap {"stop", "target"} = {}
      BY <1>1, <2>1
    <3>1. CASE b = t.exit
      BY <1>2, <1>5, <3>1
    <3>2. CASE b # t.exit
      BY <1>1, <1>2, <3>2
    <3> QED
      BY <3>1, <3>2
  <2>3. Evaluate(seen, t.entry) = Verdict("EXPIRED", 0, t.exit - t.entry)
    <3> DEFINE a == t.entry
               x == t.exit
    <3>1. /\ a \in Nat /\ x \in 1..Len(seen) /\ x > a /\ x <= a + MaxHolding /\ x = Len(seen)
          /\ \A b \in a + 1..x : seen[b] \cap {"stop", "target"} = {}
      BY <1>1, <1>2, <1>3, <2>1, <2>2
    <3> HIDE DEF a, x
    <3>2. Evaluate(seen, a) = Verdict("EXPIRED", 0, x - a)
      BY <2>1, <3>1, EvaluateNothing
    <3> QED
      BY <3>2 DEF a, x
  <2> QED
    BY <1>5, <2>3 DEF seen
<1> QED
  BY <1>4, <1>5

\* A trade that candles closed, closed as the evaluator of historical outcomes
\* says, now and of all the candles of later states.
THEOREM BacktestsAgree ==
    ASSUME Window >= MaxBars
    PROVE  Spec => []BacktestAgrees
<1>1. TrueInv => BacktestAgrees
  BY EvaluatorAgrees DEF TrueInv, AllTrue, TradesInv, BacktestAgrees, Stored
<1> QED
  BY <1>1, TrueInvariant, PTL

-----------------------------------------------------------------------------
(* No look-ahead *)

LEMMA EvaluateSettles ==
    ASSUME NEW series \in Seq(Candles), NEW candle \in Candles, NEW a \in 1..Len(series),
           Settled(Evaluate(series, a))
    PROVE  Evaluate(Append(series, candle), a) = Evaluate(series, a)
<1> DEFINE more == Append(series, candle)
           window == {b \in 1..Len(series) : b > a /\ b <= a + MaxHolding}
           touching == {b \in window : series[b] \cap {"stop", "target"} # {}}
<1>1. /\ Len(series) \in Nat /\ Len(more) = Len(series) + 1 /\ more \in Seq(Candles)
      /\ \A b \in 1..Len(series) : more[b] = series[b]
  BY AppendProperties, LenProperties
<1>2. a \in Nat /\ MaxHolding \in Nat \ {0}
  BY <1>1, EngineAssumption
<1> HIDE DEF more
<1>3. CASE touching # {}
  <2> DEFINE x == Min(touching)
  <2>1. x \in touching /\ \A b \in touching : x <= b
    <3>1. touching \in SUBSET (1..Len(series))
      OBVIOUS
    <3> HIDE DEF touching
    <3> QED
      BY <1>3, <3>1, FirstWithin
  <2> HIDE DEF x
  <2>2. /\ x \in 1..Len(series) /\ x > a /\ x <= a + MaxHolding
        /\ series[x] \cap {"stop", "target"} # {}
    BY <2>1
  <2>3. \A b \in a + 1..x - 1 : series[b] \cap {"stop", "target"} = {}
    <3> SUFFICES ASSUME NEW b \in a + 1..x - 1, series[b] \cap {"stop", "target"} # {}
                 PROVE  FALSE
      OBVIOUS
    <3>1. b \in window
      BY <1>1, <1>2, <2>2
    <3>2. b \in touching
      BY <3>1
    <3> HIDE DEF touching
    <3>3. x <= b
      BY <2>1, <3>2
    <3> QED
      BY <1>1, <1>2, <2>2, <3>3
  <2>4. Evaluate(series, a) = Verdict(Touch(series[x]), x, x - a)
    BY <1>2, <2>2, <2>3, EvaluateHit
  <2>5. /\ x \in 1..Len(more) /\ more[x] = series[x]
        /\ \A b \in a + 1..x - 1 : more[b] \cap {"stop", "target"} = {}
    BY <1>1, <1>2, <2>2, <2>3
  <2>6. Evaluate(more, a) = Verdict(Touch(more[x]), x, x - a)
    <3>1. more[x] \cap {"stop", "target"} # {}
      BY <2>2, <2>5
    <3> QED
      BY <1>1, <1>2, <2>2, <2>5, <3>1, EvaluateHit
  <2> QED
    BY <2>4, <2>5, <2>6 DEF more
<1>4. CASE touching = {} /\ a + MaxHolding <= Len(series)
  <2> DEFINE x == a + MaxHolding
  <2>1. \A b \in a + 1..x : b \in window /\ more[b] = series[b]
    BY <1>1, <1>2, <1>4
  <2>2. \A b \in a + 1..x : /\ series[b] \cap {"stop", "target"} = {}
                            /\ more[b] \cap {"stop", "target"} = {}
    BY <1>4, <2>1
  <2>3. x \in 1..Len(series) /\ x \in 1..Len(more) /\ x > a
    BY <1>1, <1>2, <1>4
  <2>4. Evaluate(series, a) = Verdict("EXPIRED", 0, x - a)
    BY <1>2, <2>2, <2>3, EvaluateNothing
  <2>5. Evaluate(more, a) = Verdict("EXPIRED", 0, x - a)
    BY <1>1, <1>2, <2>2, <2>3, EvaluateNothing
  <2> QED
    BY <2>4, <2>5 DEF more
<1>5. CASE touching = {} /\ a < Len(series) /\ Len(series) < a + MaxHolding
  <2> DEFINE x == Len(series)
  <2>1. \A b \in a + 1..x : b \in window
    BY <1>1, <1>2, <1>5
  <2>2. \A b \in a + 1..x : series[b] \cap {"stop", "target"} = {}
    BY <1>5, <2>1
  <2>3. Evaluate(series, a) = Verdict("EXPIRED", 0, x - a)
    <3>1. x \in 1..Len(series) /\ x > a /\ x <= a + MaxHolding /\ x = Len(series)
      BY <1>1, <1>2, <1>5
    <3> HIDE DEF x
    <3> QED
      BY <1>2, <2>2, <3>1, EvaluateNothing
  <2>4. x - a < MaxHolding
    BY <1>1, <1>2, <1>5
  <2> QED
    BY <1>1, <1>2, <2>3, <2>4 DEF Settled, Verdict
<1>6. CASE a = Len(series)
  <2>1. Inspected(series, a) = {}
    BY <1>1, <1>2, <1>6, InspectedIs
  <2>2. Evaluate(series, a) = Verdict("INSUFFICIENT_DATA", 0, 0)
    BY <2>1 DEF Evaluate
  <2> QED
    BY <1>2, <2>2 DEF Settled, Verdict
<1> QED
  BY <1>1, <1>2, <1>3, <1>4, <1>5, <1>6

\* What is used of the candles that are complete at an instant, which is not after
\* the opening of the candle that follows the last.
LEMMA MeasureIs ==
    ASSUME NEW series \in Seq(Candles), NEW a \in 1..Len(series), NEW n \in 1..Len(series), a <= n
    PROVE  /\ Measure(series, a, n + 1).used = {b \in 1..n : b > a /\ b <= a + MaxHolding}
           /\ Measure(series, a, n + 1).complete = (n - a >= MaxHolding)
<1> DEFINE completed == {b \in Afterwards(series, a) : b + 1 <= n + 1}
<1>1. Len(series) \in Nat /\ MaxHolding \in Nat \ {0} /\ a \in Nat /\ n \in Nat
  BY LenProperties, EngineAssumption
<1>2. completed = After(1..n, a) /\ completed = a + 1..n
  BY <1>1, LenProperties DEF Afterwards, After
<1>3. Cardinality(completed) = n - a
  <2>1. Cardinality(a + 1..n) = IF a + 1 > n THEN 0 ELSE n - (a + 1) + 1
    BY <1>1, FS_Interval
  <2> HIDE DEF completed
  <2> QED
    BY <1>1, <1>2, <2>1
<1>4. Leading(completed, MaxHolding) = {b \in 1..n : b > a /\ b <= a + MaxHolding}
  <2> HIDE DEF completed
  <2> QED
    BY <1>1, <1>2, LeadingIs
<1>5. /\ Measure(series, a, n + 1).used = Leading(completed, MaxHolding)
      /\ Measure(series, a, n + 1).complete = (Cardinality(completed) >= MaxHolding)
  BY DEF Measure
<1> QED
  BY <1>3, <1>4, <1>5

LEMMA MeasuresAgree ==
    ASSUME NEW series \in Seq(Candles), NEW candle \in Candles, NEW a \in 1..Len(series)
    PROVE  LET more == Append(series, candle)
               at == Len(series) + 1
               before == Measure(series, a, at)
               after == Measure(more, a, at + 1)
           IN  /\ Measure(more, a, at) = before
               /\ before.complete => after = before
               /\ after.complete => /\ after.used = Inspected(more, a)
                                    /\ after.used = FixedHorizon(more, a, MaxHolding)
<1> DEFINE more == Append(series, candle)
           n == Len(series)
           before == Measure(series, a, n + 1)
           still == Measure(more, a, n + 1)
           after == Measure(more, a, n + 1 + 1)
           all == {b \in 1..n + 1 : b > a /\ b <= a + MaxHolding}
           known == {b \in 1..n : b > a /\ b <= a + MaxHolding}
<1>1. more \in Seq(Candles) /\ Len(more) = n + 1
  BY AppendProperties, LenProperties
<1>2. n \in Nat /\ a \in Nat /\ a <= n /\ MaxHolding \in Nat \ {0}
  BY LenProperties, EngineAssumption
<1>3. before.used = known /\ before.complete = (n - a >= MaxHolding)
  <2>1. n \in 1..Len(series)
    BY <1>2
  <2> QED
    BY <1>2, <2>1, MeasureIs
<1>4. still.used = known /\ still.complete = (n - a >= MaxHolding)
  <2>1. n \in 1..Len(more) /\ a \in 1..Len(more)
    BY <1>1, <1>2
  <2> HIDE DEF more
  <2> QED
    BY <1>1, <1>2, <2>1, MeasureIs
<1>5. after.used = all /\ after.complete = (n + 1 - a >= MaxHolding)
  <2>1. n + 1 \in 1..Len(more) /\ a \in 1..Len(more) /\ a <= n + 1
    BY <1>1, <1>2
  <2> HIDE DEF more
  <2> QED
    BY <1>1, <2>1, MeasureIs
<1>6. \A series2, at2 : Measure(series2, a, at2) =
         [used |-> Measure(series2, a, at2).used, complete |-> Measure(series2, a, at2).complete]
  BY DEF Measure
<1>7. still = before
  <2>1. still.used = before.used /\ still.complete = before.complete
    BY <1>3, <1>4
  <2> QED
    BY <1>6, <2>1
<1>8. before.complete => after = before
  <2> SUFFICES ASSUME before.complete PROVE after = before
    OBVIOUS
  <2>1. n - a >= MaxHolding
    BY <1>3
  <2>2. all = known
    BY <1>2, <2>1
  <2>3. before.complete = TRUE /\ after.complete = TRUE
    BY <1>2, <1>3, <1>5, <2>1
  <2>4. after.used = before.used /\ after.complete = before.complete
    BY <1>3, <1>5, <2>2, <2>3
  <2> QED
    BY <1>6, <2>4
<1>9. after.complete => after.used = Inspected(more, a) /\ after.used = FixedHorizon(more, a, MaxHolding)
  <2> SUFFICES ASSUME after.complete
               PROVE  Inspected(more, a) = all /\ FixedHorizon(more, a, MaxHolding) = all
    BY <1>5
  <2>1. n + 1 - a >= MaxHolding
    BY <1>5
  <2> DEFINE forward == Afterwards(more, a)
  <2>2. forward = a + 1..n + 1
    <3> HIDE DEF more
    <3> QED
      BY <1>1, <1>2, LenProperties DEF Afterwards
  <2>3. Cardinality(forward) = n + 1 - a
    <3>1. Cardinality(a + 1..n + 1) = IF a + 1 > n + 1 THEN 0 ELSE n + 1 - (a + 1) + 1
      BY <1>2, FS_Interval
    <3> HIDE DEF forward
    <3> QED
      BY <1>2, <2>2, <3>1
  <2>4. Inspected(more, a) = all
    <3> HIDE DEF more
    <3> QED
      BY <1>1, <1>2, InspectedIs
  <2>5. FixedHorizon(more, a, MaxHolding) = Inspected(more, a)
    <3>1. ~(Cardinality(forward) < MaxHolding)
      BY <1>2, <2>1, <2>3
    <3> QED
      BY <3>1 DEF FixedHorizon, Inspected
  <2> QED
    BY <2>4, <2>5
<1> QED
  BY <1>7, <1>8, <1>9

\* No look-ahead: what the evaluator and the measures say of a candle when its
\* horizon is full is what they say for ever, of the same candles.
THEOREM MeasuresDoNotLookAhead == Spec => MeasuresSettle
<1> DEFINE Settles ==
      Len(market') > Len(market) => \A anchor \in DOMAIN market :
          LET at == Len(market) + 1
              verdict == Evaluate(market, anchor)
          IN  /\ Settled(verdict) => Evaluate(market', anchor) = verdict
              /\ \A before \in {Measure(market, anchor, at)},
                   after \in {Measure(market', anchor, at + 1)} :
                     /\ Measure(market', anchor, at) = before
                     /\ before.complete => after = before
                     /\ after.complete =>
                           /\ after.used = Inspected(market', anchor)
                           /\ after.used = FixedHorizon(market', anchor, MaxHolding)
<1>1. TradesInv /\ [Next]_vars => [Settles]_market
  <2> SUFFICES ASSUME TradesInv, [Next]_vars, market' # market PROVE Settles
    OBVIOUS
  <2>1. CASE Tick
    <3>1. PICK candle \in Candles : market' = Append(market, candle)
      BY <2>1, TradesAssumption DEF Tick
    <3>2. market \in Seq(Candles) /\ DOMAIN market = 1..Len(market)
      BY LenProperties DEF TradesInv
    <3>3. ASSUME NEW anchor \in 1..Len(market), Settled(Evaluate(market, anchor))
          PROVE  Evaluate(market', anchor) = Evaluate(market, anchor)
      BY <3>1, <3>2, <3>3, EvaluateSettles
    <3>4. ASSUME NEW anchor \in 1..Len(market),
                 NEW before, before = Measure(market, anchor, Len(market) + 1),
                 NEW after, after = Measure(market', anchor, Len(market) + 1 + 1)
          PROVE  /\ Measure(market', anchor, Len(market) + 1) = before
                 /\ before.complete => after = before
                 /\ after.complete =>
                       /\ after.used = Inspected(market', anchor)
                       /\ after.used = FixedHorizon(market', anchor, MaxHolding)
      BY <3>1, <3>2, <3>4, MeasuresAgree
    <3> QED
      BY <3>2, <3>3, <3>4
  <2>2. ~Tick => UNCHANGED market
    <3>1. ASSUME NEW o \in Operators, Operate(o) PROVE market' = market
      BY <3>1 DEF Operate, RunCycle, Request, Load, Save, Skip, Analyse, Create, GiveUp, Write
    <3>2. RequestAgain \/ RequestNew => market' = market
      BY DEF RequestAgain, RequestNew, Write
    <3> QED
      BY <3>1, <3>2 DEF Next, vars
  <2> QED
    BY <2>1, <2>2
<1> QED
  BY <1>1, TradesInvariant, PTL DEF Spec, MeasuresSettle
=============================================================================
