------------------------ MODULE SignalPipeline_proofs ------------------------
(***************************************************************************)
(* Proofs about SignalPipeline, for any evidence weights, history and      *)
(* validation window: one signal at a time, and a backtest that stays as   *)
(* the history grows.  They depend on verdicts and the walk only; what is  *)
(* offered at a point may be anything.                                     *)
(***************************************************************************)
EXTENDS SignalPipeline, MarketStructure_proofs

(* Verdicts *)

EntriesOf(signal, t, series) ==
    {i \in Future(t, series) : Covers(series[i], signal.entry)}
ExitsOf(signal, t, series) ==
    {i \in Future(t, series) : /\ i >= Min(EntriesOf(signal, t, series))
                               /\ Won(signal, series[i]) \/ Lost(signal, series[i])}
Closing(signal, bar) ==
    IF ~Lost(signal, bar) THEN "WIN" ELSE IF ~Won(signal, bar) THEN "LOSS" ELSE "AMBIGUOUS"

Verdicts == [status : {"OPEN", "NOT_TRIGGERED", "EXPIRED", "WIN", "LOSS", "AMBIGUOUS"},
             evaluated : Nat]
Closed == {"WIN", "LOSS", "AMBIGUOUS"}

LEMMA FutureIs ==
    ASSUME NEW series, Len(series) \in Nat, NEW t \in 1..Len(series)
    PROVE  LET last == IF t + MaxValidation <= Len(series) THEN t + MaxValidation
                       ELSE Len(series)
           IN  Future(t, series) = t + 1..last /\ Cardinality(Future(t, series)) = last - t
<1> DEFINE n == Len(series)
           last == IF t + MaxValidation <= n THEN t + MaxValidation ELSE n
<1>1. t \in Nat /\ n \in Nat /\ MaxValidation \in Nat /\ t <= last
  BY SignalAssumption
<1>2. Min({t + MaxValidation, n}) = last
  BY <1>1, LeastOfTwo
<1>3. Future(t, series) = t + 1..last
  BY <1>2 DEF Future
<1>4. Cardinality(t + 1..last) = last - t
  <2>1. t + 1 \in Int /\ last \in Int
    BY <1>1
  <2>2. Cardinality(t + 1..last) = IF t + 1 > last THEN 0 ELSE last - (t + 1) + 1
    <3> HIDE DEF last
    <3> QED
      BY <2>1, FS_Interval
  <2> QED
    BY <1>1, <2>1, <2>2
<1> QED
  BY <1>3, <1>4

\* The cases of a verdict.
LEMMA VerdictIs ==
    ASSUME NEW signal, NEW series, Len(series) \in Nat, NEW t \in 1..Len(series)
    PROVE  /\ Future(t, series) = {} =>
                 Validate(signal, t, series) = [status |-> "OPEN", evaluated |-> 0]
           /\ Future(t, series) # {} /\ EntriesOf(signal, t, series) = {} =>
                 Validate(signal, t, series) =
                    [status |-> "NOT_TRIGGERED", evaluated |-> Cardinality(Future(t, series))]
           /\ Future(t, series) # {} /\ EntriesOf(signal, t, series) # {}
                  /\ ExitsOf(signal, t, series) = {} =>
                 Validate(signal, t, series) =
                    [status |-> "EXPIRED", evaluated |-> Cardinality(Future(t, series))]
           /\ Future(t, series) # {} /\ EntriesOf(signal, t, series) # {}
                  /\ ExitsOf(signal, t, series) # {} =>
                 LET exit == Min(ExitsOf(signal, t, series)) IN
                    Validate(signal, t, series) =
                       [status |-> Closing(signal, series[exit]), evaluated |-> exit - t]
<1> DEFINE F == Future(t, series)
           N == EntriesOf(signal, t, series)
           X == ExitsOf(signal, t, series)
<1>1. Validate(signal, t, series) =
         IF F = {} THEN [status |-> "OPEN", evaluated |-> 0]
         ELSE IF N = {} THEN [status |-> "NOT_TRIGGERED", evaluated |-> Cardinality(F)]
         ELSE IF X = {} THEN [status |-> "EXPIRED", evaluated |-> Cardinality(F)]
         ELSE [status |-> Closing(signal, series[Min(X)]), evaluated |-> Min(X) - t]
  BY Zenon DEF Validate, EntriesOf, ExitsOf, Closing
<1> HIDE DEF F, N, X
<1> QED
  BY <1>1 DEF F, N, X

LEMMA FutureLater ==
    ASSUME NEW series, Len(series) \in Nat, NEW t \in 1..Len(series)
    PROVE  \A i \in Future(t, series) : i \in Nat /\ i > t /\ i <= Len(series)
<1>1. t \in Nat /\ Len(series) \in Nat /\ MaxValidation \in Nat
  BY SignalAssumption
<1> QED
  BY <1>1, FutureIs

\* The first of the exits is one of the candles looked at.
LEMMA ExitFound ==
    ASSUME NEW signal, NEW series, Len(series) \in Nat, NEW t \in 1..Len(series),
           ExitsOf(signal, t, series) # {}
    PROVE  /\ Min(ExitsOf(signal, t, series)) \in ExitsOf(signal, t, series)
           /\ Min(ExitsOf(signal, t, series)) \in Future(t, series)
           /\ \A i \in ExitsOf(signal, t, series) : Min(ExitsOf(signal, t, series)) <= i
<1> DEFINE X == ExitsOf(signal, t, series)
<1>1. X \subseteq Future(t, series) /\ \A i \in X : i \in Nat
  BY FutureLater DEF ExitsOf
<1> HIDE DEF X
<1>2. Min(X) \in X /\ \A i \in X : Min(X) <= i
  <2>1. X \in SUBSET Nat /\ X # {}
    BY <1>1 DEF X
  <2> QED
    BY <2>1, LeastExists
<1> QED
  BY <1>1, <1>2 DEF X

LEMMA EntryFound ==
    ASSUME NEW signal, NEW series, Len(series) \in Nat, NEW t \in 1..Len(series),
           EntriesOf(signal, t, series) # {}
    PROVE  /\ Min(EntriesOf(signal, t, series)) \in EntriesOf(signal, t, series)
           /\ \A i \in EntriesOf(signal, t, series) : Min(EntriesOf(signal, t, series)) <= i
<1> DEFINE N == EntriesOf(signal, t, series)
<1>1. N \in SUBSET Nat
  BY FutureLater DEF EntriesOf
<1> HIDE DEF N
<1>2. N # {}
  BY DEF N
<1>3. Min(N) \in N /\ \A i \in N : Min(N) <= i
  BY <1>1, <1>2, LeastExists
<1> QED
  BY <1>3 DEF N

\* A verdict that is not OPEN has looked at a candle.
LEMMA VerdictTyped ==
    ASSUME NEW signal, NEW series, Len(series) \in Nat, NEW t \in 1..Len(series)
    PROVE  /\ Validate(signal, t, series) \in Verdicts
           /\ Validate(signal, t, series).status = "OPEN" =>
                 Validate(signal, t, series).evaluated = 0
           /\ Validate(signal, t, series).status # "OPEN" =>
                 Validate(signal, t, series).evaluated >= 1
<1> DEFINE F == Future(t, series)
           v == Validate(signal, t, series)
<1>1. t \in Nat /\ Len(series) \in Nat /\ MaxValidation \in Nat
  BY SignalAssumption
<1>2. \A i \in F : i \in Nat /\ i > t
  BY <1>1, FutureIs
<1>3. Cardinality(F) \in Nat /\ (F # {} => Cardinality(F) >= 1)
  BY <1>1, FutureIs
<1> HIDE DEF F, v
<1>4. CASE F = {}
  <2>1. v = [status |-> "OPEN", evaluated |-> 0]
    BY <1>4, VerdictIs DEF F, v
  <2> QED
    BY <2>1 DEF v, Verdicts
<1>5. CASE F # {} /\ EntriesOf(signal, t, series) = {}
  <2>1. v = [status |-> "NOT_TRIGGERED", evaluated |-> Cardinality(F)]
    BY <1>5, VerdictIs DEF F, v
  <2> QED
    BY <1>3, <1>5, <2>1 DEF v, Verdicts
<1>6. CASE F # {} /\ EntriesOf(signal, t, series) # {} /\ ExitsOf(signal, t, series) = {}
  <2>1. v = [status |-> "EXPIRED", evaluated |-> Cardinality(F)]
    BY <1>6, VerdictIs DEF F, v
  <2> QED
    BY <1>3, <1>6, <2>1 DEF v, Verdicts
<1>7. CASE F # {} /\ EntriesOf(signal, t, series) # {} /\ ExitsOf(signal, t, series) # {}
  <2> DEFINE exit == Min(ExitsOf(signal, t, series))
  <2>1. v = [status |-> Closing(signal, series[exit]), evaluated |-> exit - t]
    BY <1>7, VerdictIs DEF F, v
  <2>2. exit \in F
    BY <1>7, ExitFound DEF F
  <2>3. exit - t \in Nat /\ exit - t >= 1
    BY <1>1, <1>2, <2>2
  <2>4. Closing(signal, series[exit]) \in Closed
    BY DEF Closing, Closed
  <2> HIDE DEF exit
  <2> QED
    BY <2>1, <2>3, <2>4 DEF v, Verdicts, Closed
<1> QED
  BY <1>4, <1>5, <1>6, <1>7


-----------------------------------------------------------------------------
(* The walk *)

Trades(X) == [at : Nat, signal : X, verdict : Verdicts]
WalkRecords(X) == [next : Nat, taken : Seq(Trades(X))]
Start == [next |-> 1, taken |-> <<>>]

\* The candle after the last one that the verdict looked at, whatever the verdict.
LEMMA NextIs ==
    ASSUME NEW signal, NEW series, Len(series) \in Nat, NEW t \in 1..Len(series)
    PROVE  NextSignal(t, Validate(signal, t, series))
              = t + 1 + Validate(signal, t, series).evaluated
<1> DEFINE v == Validate(signal, t, series)
<1>1. t \in Nat /\ v.evaluated \in Nat
  BY VerdictTyped DEF Verdicts
<1>2. v.status = "OPEN" => v.evaluated = 0
  BY VerdictTyped
<1>3. v.status # "OPEN" => v.evaluated >= 1
  BY VerdictTyped
<1> HIDE DEF v
<1>4. CASE v.status = "OPEN"
  BY <1>1, <1>2, <1>4 DEF NextSignal, v
<1>5. CASE v.status # "OPEN"
  <2> DEFINE two == {v.evaluated, 1}
  <2>1. Max(two) \in two /\ \A x \in two : x <= Max(two)
    <3>1. v.evaluated \in two /\ \A x \in two : x <= v.evaluated
      BY <1>1, <1>3, <1>5
    <3> HIDE DEF two
    <3> QED
      BY <3>1 DEF Max
  <2>2. Max(two) = v.evaluated
    BY <1>1, <1>3, <1>5, <2>1
  <2>3. NextSignal(t, v) = t + 1 + Max(two)
    BY <1>5 DEF NextSignal
  <2> HIDE DEF two
  <2> QED
    BY <2>2, <2>3 DEF v
<1> QED
  BY <1>4, <1>5

\* What a point adds: nothing, or the signal with its verdict.
LEMMA GateIs ==
    ASSUME NEW X, NEW walk \in WalkRecords(X), NEW signals, NEW series,
           Len(series) \in Nat, NEW t \in 1..Len(series), signals[t] \in X
    PROVE  LET verdict == Validate(signals[t], t, series)
               trade == [at |-> t, signal |-> signals[t], verdict |-> verdict]
               after == Gate(walk, t, signals, series)
           IN  /\ after \in WalkRecords(X)
               /\ t <= MinHistory \/ signals[t] = NoSignal \/ t < walk.next => after = walk
               /\ ~(t <= MinHistory \/ signals[t] = NoSignal \/ t < walk.next) =>
                     /\ after.next = t + 1 + verdict.evaluated
                     /\ after.taken = Append(walk.taken, trade)
                     /\ trade \in Trades(X)
<1> DEFINE verdict == Validate(signals[t], t, series)
           trade == [at |-> t, signal |-> signals[t], verdict |-> verdict]
           after == Gate(walk, t, signals, series)
<1>1. verdict \in Verdicts /\ verdict.evaluated \in Nat
  BY VerdictTyped DEF Verdicts
<1>2. NextSignal(t, verdict) = t + 1 + verdict.evaluated
  BY NextIs
<1>3. after = IF t <= MinHistory \/ signals[t] = NoSignal \/ t < walk.next THEN walk
              ELSE [next |-> NextSignal(t, verdict), taken |-> Append(walk.taken, trade)]
  BY DEF Gate
<1> HIDE DEF verdict, after
<1>4. t \in Nat
  OBVIOUS
<1>5. trade \in Trades(X)
  BY <1>1, <1>4 DEF Trades
<1>6. walk.next \in Nat /\ walk.taken \in Seq(Trades(X))
  BY DEF WalkRecords
<1> HIDE DEF trade
<1>7. t + 1 + verdict.evaluated \in Nat /\ Append(walk.taken, trade) \in Seq(Trades(X))
  BY <1>1, <1>4, <1>5, <1>6, AppendProperties
<1>8. CASE t <= MinHistory \/ signals[t] = NoSignal \/ t < walk.next
  <2>1. after = walk
    BY <1>3, <1>8
  <2> QED
    BY <1>8, <2>1 DEF verdict, after, trade
<1>9. CASE ~(t <= MinHistory \/ signals[t] = NoSignal \/ t < walk.next)
  <2>1. after = [next |-> t + 1 + verdict.evaluated, taken |-> Append(walk.taken, trade)]
    BY <1>2, <1>3, <1>9
  <2>2. after \in WalkRecords(X)
    BY <1>7, <2>1 DEF WalkRecords
  <2>3. after.next = t + 1 + verdict.evaluated /\ after.taken = Append(walk.taken, trade)
    BY <2>1
  <2> QED
    BY <1>5, <1>9, <2>2, <2>3 DEF verdict, after, trade
<1> QED
  BY <1>8, <1>9

\* The walk, one point after the other.
Walks(n, X, signals, series) ==
    \E f \in [0..n -> WalkRecords(X)] :
        /\ f[0] = Start
        /\ \A t \in 1..n : f[t] = Gate(f[t - 1], t, signals, series)
        /\ Walk(signals, series) = f[n].taken

LEMMA WalkIs ==
    ASSUME NEW X, NEW signals \in Seq(X), NEW series, Len(series) = Len(signals)
    PROVE  Walks(Len(signals), X, signals, series)
<1> DEFINE n == Len(signals)
           R == WalkRecords(X)
           body(h) == [t \in 0..Len(signals) |->
                          IF t = 0 THEN [next |-> 1, taken |-> <<>>]
                          ELSE Gate(h[t - 1], t, signals, series)]
           step == [t \in 1..n |-> [x \in R |-> Gate(x, t, signals, series)]]
           h == CHOOSE h : h = body(h)
<1>1. n \in Nat /\ Len(series) \in Nat
  BY LenProperties
<1>2. ASSUME NEW t \in 1..n PROVE signals[t] \in X /\ t \in 1..Len(series)
  OBVIOUS
<1>3. ASSUME NEW t \in 1..n, NEW x \in R PROVE Gate(x, t, signals, series) \in R
  BY <1>1, <1>2, GateIs
<1>4. step \in [1..n -> [R -> R]]
  BY <1>3
<1>5. Start \in R
  BY DEF Start, WalkRecords
<1>6. HasRuns(n, R, Start, step)
  <2> HIDE DEF step, n, R
  <2> QED
    BY <1>1, <1>4, <1>5, Recursion
<1>7. PICK f \in [0..n -> R] :
         f[0] = Start /\ \A t \in 1..n : f[t] = step[t][f[t - 1]]
  BY <1>6 DEF HasRuns
<1>8. ASSUME NEW t \in 1..n PROVE f[t] = Gate(f[t - 1], t, signals, series)
  <2>1. f[t] = step[t][f[t - 1]] /\ f[t - 1] \in R
    <3>1. t - 1 \in 0..n
      BY <1>1
    <3> HIDE DEF step, R
    <3> QED
      BY <1>7, <3>1
  <2> QED
    BY <2>1
<1>9. f = body(f)
  <2>1. ASSUME NEW t \in 0..n PROVE f[t] = body(f)[t]
    BY <1>7, <1>8 DEF Start
  <2> QED
    BY <2>1
<1>10. h = body(h)
  BY <1>9, Zenon
<1>11. Walk(signals, series) = h[n].taken
  BY DEF Walk
<1> HIDE DEF h
<1>12. /\ h[0] = Start
       /\ \A t \in 1..n : h[t] = Gate(h[t - 1], t, signals, series)
  <2>1. \A t \in 0..n : h[t] = IF t = 0 THEN [next |-> 1, taken |-> <<>>]
                               ELSE Gate(h[t - 1], t, signals, series)
    BY <1>10
  <2> QED
    BY <1>1, <2>1 DEF Start
<1> DEFINE S == {m \in Nat : m <= n => h[m] \in R}
<1>13. 0 \in S
  BY <1>5, <1>12
<1>14. ASSUME NEW m \in Nat, m \in S PROVE m + 1 \in S
  <2> SUFFICES ASSUME m + 1 <= n PROVE h[m + 1] \in R
    OBVIOUS
  <2>1. m + 1 \in 1..n /\ (m + 1) - 1 = m /\ h[m] \in R
    BY <1>1, <1>14
  <2>2. h[m + 1] = Gate(h[m], m + 1, signals, series)
    BY <1>12, <2>1
  <2> QED
    BY <1>3, <2>1, <2>2
<1>15. Nat \subseteq S
  <2> HIDE DEF S
  <2> QED
    BY <1>13, <1>14, SetInduction
<1>16. h \in [0..n -> R]
  <2>1. h = [t \in 0..n |-> h[t]]
    BY <1>10
  <2>2. \A t \in 0..n : h[t] \in R
    BY <1>1, <1>15
  <2> HIDE DEF n, R
  <2> QED
    BY <2>1, <2>2
<1> QED
  BY <1>11, <1>12, <1>16 DEF Walks

-----------------------------------------------------------------------------
(* One signal at a time *)

Covered(walk, s) ==
    \E trade \in Range(walk.taken) : trade.at < s /\ s <= trade.at + trade.verdict.evaluated

\* After point t: no trade reaches the first free point, a trade is at an eligible
\* point unless one before it covers it, and what is not free yet is covered.
Gated(walk, t, signals) ==
    /\ \A trade \in Range(walk.taken) :
          trade.at <= t /\ trade.at + trade.verdict.evaluated < walk.next
    /\ \A s \in 1..t :
          signals[s] # NoSignal /\ s > MinHistory =>
             ((\E trade \in Range(walk.taken) : trade.at = s) <=> ~Covered(walk, s))
    /\ \A s \in Nat : s > t /\ s < walk.next => Covered(walk, s)

LEMMA RangeAppend ==
    ASSUME NEW X, NEW s \in Seq(X), NEW e \in X
    PROVE  Range(Append(s, e)) = Range(s) \cup {e}
<1>1. Len(s) \in Nat /\ DOMAIN s = 1..Len(s)
  OBVIOUS
<1>2. /\ Append(s, e) \in Seq(X)
      /\ Len(Append(s, e)) = Len(s) + 1
      /\ \A i \in 1..Len(s) : Append(s, e)[i] = s[i]
      /\ Append(s, e)[Len(s) + 1] = e
  BY AppendProperties
<1> DEFINE t == Append(s, e)
<1>3. DOMAIN t = 1..Len(s) + 1
  BY <1>2
<1> HIDE DEF t
<1>4. \A y : y \in Range(t) <=> \E i \in 1..Len(s) + 1 : y = t[i]
  BY <1>3 DEF Range
<1>5. \A y : y \in Range(s) <=> \E i \in 1..Len(s) : y = s[i]
  BY <1>1 DEF Range
<1>6. \A i \in 1..Len(s) + 1 : i \in 1..Len(s) \/ i = Len(s) + 1
  BY <1>1
<1>7. \A i \in 1..Len(s) : i \in 1..Len(s) + 1
  BY <1>1
<1>8. Len(s) + 1 \in 1..Len(s) + 1
  BY <1>1
<1>9. (\A i \in 1..Len(s) : t[i] = s[i]) /\ t[Len(s) + 1] = e
  BY <1>2 DEF t
<1>10. \A y : y \in Range(t) <=> y \in Range(s) \cup {e}
  BY <1>4, <1>5, <1>6, <1>7, <1>8, <1>9
<1> QED
  BY <1>10 DEF t

LEMMA GatedStep ==
    ASSUME NEW X, NEW walk \in WalkRecords(X), NEW signals, NEW series,
           Len(series) \in Nat, NEW t \in 1..Len(series), signals[t] \in X,
           Gated(walk, t - 1, signals)
    PROVE  Gated(Gate(walk, t, signals, series), t, signals)
<1> DEFINE verdict == Validate(signals[t], t, series)
           trade == [at |-> t, signal |-> signals[t], verdict |-> verdict]
           after == Gate(walk, t, signals, series)
<1>1. t \in Nat /\ t >= 1 /\ walk.next \in Nat
  BY DEF WalkRecords
<1>2. walk.taken \in Seq(Trades(X))
  BY DEF WalkRecords
<1>3. \A x \in Range(walk.taken) : x.at \in Nat /\ x.verdict.evaluated \in Nat
  <2>1. \A x \in Range(walk.taken) : x \in Trades(X)
    BY <1>2 DEF Range
  <2>2. \A x \in Trades(X) : x.at \in Nat /\ x.verdict.evaluated \in Nat
    BY DEF Trades, Verdicts
  <2> QED
    BY <2>1, <2>2
<1>4. /\ \A x \in Range(walk.taken) : x.at <= t - 1 /\ x.at + x.verdict.evaluated < walk.next
      /\ \A s \in 1..t - 1 :
            signals[s] # NoSignal /\ s > MinHistory =>
               ((\E x \in Range(walk.taken) : x.at = s) <=> ~Covered(walk, s))
      /\ \A s \in Nat : s > t - 1 /\ s < walk.next => Covered(walk, s)
  BY DEF Gated
<1>5. \A s \in 1..t : s \in Nat /\ (s \in 1..t - 1 \/ s = t)
  BY <1>1
<1>6. CASE t <= MinHistory \/ signals[t] = NoSignal \/ t < walk.next
  <2>1. after = walk
    BY <1>6 DEF Gate
  <2>2. \A x \in Range(walk.taken) : x.at <= t /\ x.at # t
    BY <1>1, <1>3, <1>4
  <2>3. \A s \in Nat : s > t /\ s < walk.next => Covered(walk, s)
    BY <1>1, <1>4
  <2>4. ASSUME signals[t] # NoSignal, t > MinHistory
        PROVE  (\E x \in Range(walk.taken) : x.at = t) <=> ~Covered(walk, t)
    <3>1. MinHistory \in Nat
      BY SignalAssumption
    <3>2. t < walk.next
      BY <1>1, <1>6, <2>4, <3>1
    <3>3. Covered(walk, t)
      BY <1>1, <1>4, <3>2
    <3> QED
      BY <2>2, <3>3
  <2>5. \A s \in 1..t :
           signals[s] # NoSignal /\ s > MinHistory =>
              ((\E x \in Range(walk.taken) : x.at = s) <=> ~Covered(walk, s))
    BY <1>4, <1>5, <2>4
  <2> HIDE DEF after
  <2>6. Gated(walk, t, signals)
    BY <1>4, <2>2, <2>3, <2>5 DEF Gated
  <2> QED
    BY <2>1, <2>6 DEF after
<1>7. CASE ~(t <= MinHistory \/ signals[t] = NoSignal \/ t < walk.next)
  <2> DEFINE k == verdict.evaluated
  <2>1. /\ after.next = t + 1 + k /\ after.taken = Append(walk.taken, trade)
        /\ trade \in Trades(X)
    BY <1>7, GateIs
  <2>2. k \in Nat
    BY VerdictTyped DEF Verdicts
  <2>3. trade.at = t /\ trade.verdict.evaluated = k
    OBVIOUS
  <2> HIDE DEF verdict, trade, after, k
  <2>4. Range(after.taken) = Range(walk.taken) \cup {trade}
    BY <1>2, <2>1, RangeAppend
  <2>5. walk.next <= t
    BY <1>1, <1>7
  <2>6. \A x \in Range(after.taken) :
           x.at <= t /\ x.at + x.verdict.evaluated < after.next
    <3>1. t + k < t + 1 + k
      BY <1>1, <2>2
    <3>2. \A x \in Range(walk.taken) : x.at <= t /\ x.at + x.verdict.evaluated < t + 1 + k
      BY <1>1, <1>3, <1>4, <2>2, <2>5
    <3> QED
      BY <1>1, <2>1, <2>3, <2>4, <3>1, <3>2
  <2>7. \A s \in 1..t : Covered(after, s) <=> Covered(walk, s)
    <3>1. \A s \in 1..t : ~(trade.at < s)
      BY <1>1, <2>3
    <3> QED
      BY <2>4, <3>1 DEF Covered
  <2>8. ~Covered(walk, t)
    <3> SUFFICES ASSUME NEW x \in Range(walk.taken), x.at < t,
                        t <= x.at + x.verdict.evaluated
                 PROVE  FALSE
      BY DEF Covered
    <3> QED
      BY <1>1, <1>3, <1>4, <2>5
  <2>9. \A s \in 1..t :
           signals[s] # NoSignal /\ s > MinHistory =>
              ((\E x \in Range(after.taken) : x.at = s) <=> ~Covered(after, s))
    <3> SUFFICES ASSUME NEW s \in 1..t, signals[s] # NoSignal /\ s > MinHistory
                 PROVE  (\E x \in Range(after.taken) : x.at = s) <=> ~Covered(walk, s)
      BY <2>7
    <3>1. CASE s = t
      BY <2>3, <2>4, <2>8, <3>1
    <3>2. CASE s # t
      <4>1. s \in 1..t - 1
        BY <1>5, <3>2
      <4>2. (\E x \in Range(walk.taken) : x.at = s) <=> ~Covered(walk, s)
        BY <1>4, <4>1
      <4>3. trade.at # s
        BY <2>3, <3>2
      <4> QED
        BY <2>4, <4>2, <4>3
    <3> QED
      BY <3>1, <3>2
  <2>10. \A s \in Nat : s > t /\ s < after.next => Covered(after, s)
    <3> SUFFICES ASSUME NEW s \in Nat, s > t, s < after.next PROVE Covered(after, s)
      OBVIOUS
    <3>1. trade.at < s /\ s <= trade.at + trade.verdict.evaluated
      BY <1>1, <2>1, <2>2, <2>3
    <3>2. trade \in Range(after.taken)
      BY <2>4
    <3> QED
      BY <3>1, <3>2 DEF Covered
  <2> QED
    BY <2>6, <2>9, <2>10 DEF Gated, after
<1> QED
  BY <1>6, <1>7

\* Of any signals, the walk takes those that no verdict before them looks past.
LEMMA WalkGated ==
    ASSUME NEW X, NEW signals \in Seq(X), NEW series, Len(series) = Len(signals)
    PROVE  \A s \in 1..Len(signals) :
              signals[s] # NoSignal /\ s > MinHistory =>
                 ((\E x \in Range(Walk(signals, series)) : x.at = s)
                    <=> ~\E x \in Range(Walk(signals, series)) :
                            x.at < s /\ s <= x.at + x.verdict.evaluated)
<1> DEFINE n == Len(signals)
<1>1. n \in Nat /\ Len(series) \in Nat
  BY LenProperties
<1>2. PICK f \in [0..n -> WalkRecords(X)] :
         /\ f[0] = Start
         /\ \A t \in 1..n : f[t] = Gate(f[t - 1], t, signals, series)
         /\ Walk(signals, series) = f[n].taken
  BY WalkIs DEF Walks
<1> DEFINE S == {m \in Nat : m <= n => Gated(f[m], m, signals)}
<1>3. 0 \in S
  <2>1. Range(Start.taken) = {} /\ Start.next = 1
    BY DEF Start, Range
  <2>2. Gated(Start, 0, signals)
    BY <2>1 DEF Gated
  <2> QED
    BY <1>2, <2>2
<1>4. ASSUME NEW m \in Nat, m \in S PROVE m + 1 \in S
  <2> SUFFICES ASSUME m + 1 <= n PROVE Gated(f[m + 1], m + 1, signals)
    OBVIOUS
  <2>1. m + 1 \in 1..n /\ m \in 0..n /\ (m + 1) - 1 = m /\ Gated(f[m], m, signals)
    BY <1>1, <1>4
  <2>2. f[m] \in WalkRecords(X) /\ signals[m + 1] \in X /\ m + 1 \in 1..Len(series)
    BY <2>1
  <2>3. f[m + 1] = Gate(f[m], m + 1, signals, series)
    BY <1>2, <2>1
  <2>4. Gated(Gate(f[m], m + 1, signals, series), m + 1, signals)
    <3> DEFINE t == m + 1
               w == f[m]
    <3>1. t \in 1..Len(series) /\ signals[t] \in X /\ w \in WalkRecords(X)
          /\ Gated(w, t - 1, signals)
      BY <2>1, <2>2
    <3> HIDE DEF t, w
    <3>2. Gated(Gate(w, t, signals, series), t, signals)
      BY <1>1, <3>1, GatedStep
    <3> QED
      BY <3>2 DEF t, w
  <2> QED
    BY <2>3, <2>4
<1>5. Gated(f[n], n, signals)
  <2>1. Nat \subseteq S
    <3> HIDE DEF S
    <3> QED
      BY <1>3, <1>4, SetInduction
  <2> QED
    BY <1>1, <2>1
<1> QED
  BY <1>2, <1>5 DEF Gated, Covered

-----------------------------------------------------------------------------
(* Verdicts as the series grows *)

\* The candles looked at with one candle more: the same once the window is full,
\* else that candle as well.
LEMMA FutureGrows ==
    ASSUME NEW X, NEW series \in Seq(X), NEW bar \in X, NEW t \in 1..Len(series)
    PROVE  /\ t + MaxValidation <= Len(series) =>
                 Future(t, Append(series, bar)) = Future(t, series)
           /\ t + MaxValidation > Len(series) =>
                 /\ Future(t, Append(series, bar)) = Future(t, series) \cup {Len(series) + 1}
                 /\ Cardinality(Future(t, series)) = Len(series) - t
                 /\ Cardinality(Future(t, Append(series, bar))) = Len(series) + 1 - t
<1> DEFINE n == Len(series)
           longer == Append(series, bar)
<1>1. n \in Nat /\ t \in Nat /\ t <= n /\ MaxValidation \in Nat
  BY LenProperties, SignalAssumption
<1>2. Len(longer) = n + 1
  BY AppendProperties
<1> HIDE DEF longer
<1>3. CASE t + MaxValidation <= n
  <2>1. Future(t, series) = t + 1..t + MaxValidation
    BY <1>1, <1>3, FutureIs
  <2>2. t \in 1..Len(longer) /\ Len(longer) \in Nat /\ t + MaxValidation <= Len(longer)
    BY <1>1, <1>2, <1>3
  <2>3. Future(t, longer) = t + 1..t + MaxValidation
    BY <2>2, FutureIs
  <2> QED
    BY <1>1, <1>3, <2>1, <2>3 DEF longer
<1>4. CASE t + MaxValidation > n
  <2>1. Future(t, series) = t + 1..n /\ Cardinality(Future(t, series)) = n - t
    <3>1. IF t + MaxValidation <= n THEN FALSE ELSE TRUE
      BY <1>1, <1>4
    <3>2. (IF t + MaxValidation <= n THEN t + MaxValidation ELSE n) = n
      BY <3>1
    <3> QED
      BY <1>1, <3>2, FutureIs
  <2>2. t \in 1..Len(longer) /\ Len(longer) \in Nat
    BY <1>1, <1>2
  <2>3. (IF t + MaxValidation <= Len(longer) THEN t + MaxValidation ELSE Len(longer)) = n + 1
    BY <1>1, <1>2, <1>4
  <2>4. Future(t, longer) = t + 1..n + 1 /\ Cardinality(Future(t, longer)) = n + 1 - t
    BY <2>2, <2>3, FutureIs
  <2>5. t + 1..n + 1 = (t + 1..n) \cup {n + 1}
    BY <1>1
  <2> QED
    BY <1>1, <1>4, <2>1, <2>4, <2>5 DEF longer
<1> QED
  BY <1>1, <1>3, <1>4

SettledFor(verdict) == verdict.status \in Closed \/ verdict.evaluated = MaxValidation

\* A settled verdict stays; one that is not had looked at all the candles there were,
\* and looks at all of them with the next one as well.
VerdictStays(before, after, t, n) ==
    /\ SettledFor(before) => after = before
    /\ \/ after = before
       \/ t + before.evaluated >= n /\ t + after.evaluated >= n

LEMMA VerdictSettles ==
    ASSUME NEW X, NEW series \in Seq(X), NEW bar \in X, NEW t \in 1..Len(series), NEW signal
    PROVE  VerdictStays(Validate(signal, t, series),
                        Validate(signal, t, Append(series, bar)), t, Len(series))
<1> DEFINE n == Len(series)
           longer == Append(series, bar)
           F == Future(t, series)
           G == Future(t, longer)
           v == Validate(signal, t, series)
           w == Validate(signal, t, longer)
<1>1. n \in Nat /\ t \in Nat /\ t <= n /\ MaxValidation \in Nat
  BY LenProperties, SignalAssumption
<1>2. Len(longer) = n + 1 /\ \A i \in 1..n : longer[i] = series[i]
  BY AppendProperties
<1>3. t \in 1..Len(longer) /\ Len(longer) \in Nat
  BY <1>1, <1>2
<1>4. \A i \in F : i \in Nat /\ i > t /\ i <= n /\ longer[i] = series[i]
  <2>1. \A i \in F : i \in Nat /\ i > t /\ i <= n
    BY <1>1, FutureLater
  <2>2. \A i \in F : i \in 1..n
    BY <1>1, <2>1
  <2> QED
    BY <1>2, <2>1, <2>2
<1> DEFINE N == EntriesOf(signal, t, series)
           M == EntriesOf(signal, t, longer)
           A == ExitsOf(signal, t, series)
           B == ExitsOf(signal, t, longer)
<1>5. /\ N = {i \in F : Covers(series[i], signal.entry)}
      /\ M = {i \in G : Covers(longer[i], signal.entry)}
      /\ A = {i \in F : i >= Min(N) /\ (Won(signal, series[i]) \/ Lost(signal, series[i]))}
      /\ B = {i \in G : i >= Min(M) /\ (Won(signal, longer[i]) \/ Lost(signal, longer[i]))}
  BY DEF EntriesOf, ExitsOf
<1>6. /\ F = {} => v = [status |-> "OPEN", evaluated |-> 0]
      /\ F # {} /\ N = {} => v = [status |-> "NOT_TRIGGERED", evaluated |-> Cardinality(F)]
      /\ F # {} /\ N # {} /\ A = {} => v = [status |-> "EXPIRED", evaluated |-> Cardinality(F)]
      /\ F # {} /\ N # {} /\ A # {} =>
            v = [status |-> Closing(signal, series[Min(A)]), evaluated |-> Min(A) - t]
  BY <1>1, VerdictIs
<1>7. /\ G = {} => w = [status |-> "OPEN", evaluated |-> 0]
      /\ G # {} /\ M = {} => w = [status |-> "NOT_TRIGGERED", evaluated |-> Cardinality(G)]
      /\ G # {} /\ M # {} /\ B = {} => w = [status |-> "EXPIRED", evaluated |-> Cardinality(G)]
      /\ G # {} /\ M # {} /\ B # {} =>
            w = [status |-> Closing(signal, longer[Min(B)]), evaluated |-> Min(B) - t]
  BY <1>3, VerdictIs
<1>8. N # {} => Min(N) \in N /\ \A i \in N : Min(N) <= i
  BY <1>1, EntryFound
<1>9. M # {} => Min(M) \in M /\ \A i \in M : Min(M) <= i
  BY <1>3, EntryFound
<1>10. A # {} => Min(A) \in A /\ Min(A) \in F /\ \A i \in A : Min(A) <= i
  BY <1>1, ExitFound
<1>11. B # {} => Min(B) \in B /\ Min(B) \in G /\ \A i \in B : Min(B) <= i
  BY <1>3, ExitFound
<1>12. /\ t + MaxValidation <= n => G = F
       /\ t + MaxValidation > n => /\ G = F \cup {n + 1}
                                   /\ Cardinality(F) = n - t
                                   /\ Cardinality(G) = n + 1 - t
  BY FutureGrows
<1> HIDE DEF n, longer, F, G, v, w, N, M, A, B
<1>13. CASE t + MaxValidation <= n
  <2>1. G = F
    BY <1>12, <1>13
  <2>2. N = M
    BY <1>4, <1>5, <2>1
  <2>3. A = B
    BY <1>4, <1>5, <2>1, <2>2
  <2>4. A # {} => longer[Min(A)] = series[Min(A)]
    BY <1>4, <1>10
  <2>5. v = w
    BY <1>6, <1>7, <2>1, <2>2, <2>3, <2>4
  <2> QED
    BY <2>5 DEF VerdictStays, v, w, n, longer
<1>14. CASE t + MaxValidation > n
  <2>1. G = F \cup {n + 1} /\ Cardinality(F) = n - t /\ Cardinality(G) = n + 1 - t
    BY <1>12, <1>14
  <2>2. N \subseteq M /\ \A i \in M : i \in N \/ i = n + 1
    BY <1>4, <1>5, <2>1
  <2>3. ASSUME N # {} PROVE Min(M) = Min(N)
    <3>1. Min(N) \in N /\ Min(N) \in F /\ \A i \in N : Min(N) <= i
      BY <1>5, <1>8, <2>3
    <3>2. Min(N) \in M /\ Min(N) \in Nat /\ Min(N) <= n
      BY <1>4, <2>2, <3>1
    <3>3. \A i \in M : Min(N) <= i
      BY <1>1, <2>2, <3>1, <3>2
    <3>4. M \in SUBSET Nat
      BY <1>1, <1>4, <1>5, <2>1
    <3> QED
      BY <3>2, <3>3, <3>4, LeastIs
  <2>4. CASE A # {} /\ N # {}
    <3>1. Min(A) \in A /\ Min(A) \in F /\ \A i \in A : Min(A) <= i
      BY <1>10, <2>4
    <3>2. Min(M) = Min(N)
      BY <2>3, <2>4
    <3>3. A \subseteq B /\ \A i \in B : i \in A \/ i = n + 1
      BY <1>4, <1>5, <2>1, <3>2
    <3>4. Min(A) \in Nat /\ Min(A) <= n /\ longer[Min(A)] = series[Min(A)]
      BY <1>4, <3>1
    <3>5. Min(A) \in B /\ \A i \in B : Min(A) <= i
      BY <1>1, <3>1, <3>3, <3>4
    <3>6. B \in SUBSET Nat
      BY <1>1, <1>4, <1>5, <2>1
    <3>7. Min(B) = Min(A)
      BY <3>5, <3>6, LeastIs
    <3>8. F # {} /\ G # {} /\ M # {} /\ B # {}
      BY <2>1, <2>2, <2>4, <3>1, <3>5
    <3>9. v = w
      BY <1>6, <1>7, <2>4, <3>4, <3>7, <3>8
    <3> QED
      BY <3>9 DEF VerdictStays, v, w, n, longer
  <2>5. CASE ~(A # {} /\ N # {})
    <3>1. /\ v.status \notin Closed
          /\ t + v.evaluated = n
      <4>1. CASE F = {}
        <5>1. Cardinality(F) = 0
          BY <4>1, FS_EmptySet
        <5>2. n = t
          BY <1>1, <2>1, <5>1
        <5> QED
          BY <1>1, <1>6, <4>1, <5>2 DEF Closed
      <4>2. CASE F # {}
        <5>1. v.evaluated = n - t /\ v.status \in {"NOT_TRIGGERED", "EXPIRED"}
          BY <1>6, <2>1, <2>5, <4>2
        <5> QED
          BY <1>1, <5>1 DEF Closed
      <4> QED
        BY <4>1, <4>2
    <3>2. v.evaluated # MaxValidation
      <4> SUFFICES ASSUME v.evaluated = MaxValidation PROVE FALSE
        OBVIOUS
      <4> QED
        BY <1>1, <1>14, <3>1
    <3>3. G # {} /\ n + 1 \in G
      BY <2>1
    <3>4. CASE M # {} /\ B # {}
      <4>1. Min(B) \in B /\ Min(B) \in G
        BY <1>11, <3>4
      <4>2. Min(B) \notin F
        <5> SUFFICES ASSUME Min(B) \in F PROVE FALSE
          OBVIOUS
        <5>1. Min(B) \in Nat /\ Min(B) <= n /\ longer[Min(B)] = series[Min(B)]
          BY <1>4
        <5>2. Min(B) >= Min(M) /\ (Won(signal, series[Min(B)]) \/ Lost(signal, series[Min(B)]))
          BY <1>5, <4>1, <5>1
        <5>3. Min(M) \in M /\ Min(M) \in Nat /\ Min(M) <= n
          <6>1. Min(M) \in M /\ Min(M) \in G
            BY <1>5, <1>9, <3>4
          <6>2. Min(M) \in Nat
            BY <1>1, <1>4, <2>1, <6>1
          <6> QED
            BY <1>1, <5>1, <5>2, <6>1, <6>2
        <5>4. N # {}
          BY <1>1, <2>2, <5>3
        <5>5. Min(B) \in A
          BY <1>5, <2>3, <5>2, <5>4
        <5> QED
          BY <2>5, <5>4, <5>5
      <4>3. Min(B) = n + 1
        BY <2>1, <4>1, <4>2
      <4>4. w.evaluated = n + 1 - t
        <5>1. w = [status |-> Closing(signal, longer[Min(B)]), evaluated |-> Min(B) - t]
          BY <1>7, <3>3, <3>4, Zenon
        <5>2. w.evaluated = Min(B) - t
          BY <5>1
        <5> QED
          BY <1>1, <4>3, <5>2
      <4>5. t + w.evaluated >= n /\ t + v.evaluated >= n
        BY <1>1, <3>1, <4>4
      <4> QED
        BY <3>1, <3>2, <4>5 DEF VerdictStays, SettledFor, v, w, n, longer
    <3>5. CASE ~(M # {} /\ B # {})
      <4>1. w.evaluated = n + 1 - t
        BY <1>7, <2>1, <3>3, <3>5
      <4>2. t + w.evaluated >= n /\ t + v.evaluated >= n
        BY <1>1, <3>1, <4>1
      <4> QED
        BY <3>1, <3>2, <4>2 DEF VerdictStays, SettledFor, v, w, n, longer
    <3> QED
      BY <3>4, <3>5
  <2> QED
    BY <2>4, <2>5
<1> QED
  BY <1>1, <1>13, <1>14

-----------------------------------------------------------------------------
(* The walk as the series grows *)

Stays(before, after) ==
    /\ after.at = before.at /\ after.signal = before.signal
    /\ SettledFor(before.verdict) => after = before

\* Two walks, up to the same point, of a series of n candles and of a longer one: the
\* next free point is the same, unless it is past the shorter series in both.
Same(walk, longer, n) ==
    /\ Len(longer.taken) = Len(walk.taken)
    /\ \A k \in 1..Len(walk.taken) : Stays(walk.taken[k], longer.taken[k])
    /\ longer.next = walk.next \/ (longer.next > n /\ walk.next > n)

LEMMA SameStep ==
    ASSUME NEW X, NEW walk \in WalkRecords(X), NEW other \in WalkRecords(X),
           NEW Y, NEW series \in Seq(Y), NEW bar \in Y, NEW t \in 1..Len(series),
           NEW signals, NEW more, signals[t] \in X, more[t] = signals[t],
           Same(walk, other, Len(series))
    PROVE  Same(Gate(walk, t, signals, series),
                Gate(other, t, more, Append(series, bar)), Len(series))
<1> DEFINE n == Len(series)
           longer == Append(series, bar)
           here == Validate(signals[t], t, series)
           there == Validate(signals[t], t, longer)
           trade == [at |-> t, signal |-> signals[t], verdict |-> here]
           second == [at |-> t, signal |-> signals[t], verdict |-> there]
           after == Gate(walk, t, signals, series)
           later == Gate(other, t, more, longer)
<1>1. n \in Nat /\ t \in Nat /\ t <= n
  BY LenProperties
<1>2. Len(longer) = n + 1
  BY AppendProperties
<1>3. t \in 1..Len(longer) /\ Len(longer) \in Nat
  BY <1>1, <1>2
<1>4. walk.next \in Nat /\ other.next \in Nat
      /\ walk.taken \in Seq(Trades(X)) /\ other.taken \in Seq(Trades(X))
  BY DEF WalkRecords
<1>5. here \in Verdicts /\ there \in Verdicts
  BY <1>1, <1>3, VerdictTyped
<1>6. here.evaluated \in Nat /\ there.evaluated \in Nat
  BY <1>5 DEF Verdicts
<1>7. VerdictStays(here, there, t, n)
  BY VerdictSettles
<1>8. NextSignal(t, here) = t + 1 + here.evaluated
  BY <1>1, NextIs
<1>9. NextSignal(t, there) = t + 1 + there.evaluated
  BY <1>3, NextIs
<1>10. after = IF t <= MinHistory \/ signals[t] = NoSignal \/ t < walk.next THEN walk
               ELSE [next |-> NextSignal(t, here), taken |-> Append(walk.taken, trade)]
  BY DEF Gate
<1>11. later = IF t <= MinHistory \/ signals[t] = NoSignal \/ t < other.next THEN other
               ELSE [next |-> NextSignal(t, there), taken |-> Append(other.taken, second)]
  BY DEF Gate
<1>12. Same(walk, other, n)
  OBVIOUS
<1>13. trade \in Trades(X) /\ second \in Trades(X)
  BY <1>1, <1>5 DEF Trades
<1>14. Stays(trade, second)
  BY <1>7 DEF VerdictStays, Stays
<1> HIDE DEF n, longer, here, there, trade, second, after, later
<1>15. t < walk.next <=> t < other.next
  BY <1>1, <1>4, <1>12 DEF Same
<1>16. CASE t <= MinHistory \/ signals[t] = NoSignal \/ t < walk.next
  <2>1. after = walk /\ later = other
    BY <1>10, <1>11, <1>15, <1>16
  <2> QED
    BY <1>12, <2>1 DEF after, later, n, longer
<1>17. CASE ~(t <= MinHistory \/ signals[t] = NoSignal \/ t < walk.next)
  <2>1. after = [next |-> t + 1 + here.evaluated, taken |-> Append(walk.taken, trade)]
    BY <1>8, <1>10, <1>17
  <2>2. later = [next |-> t + 1 + there.evaluated, taken |-> Append(other.taken, second)]
    BY <1>9, <1>11, <1>15, <1>17
  <2>3. after.next = t + 1 + here.evaluated /\ after.taken = Append(walk.taken, trade)
    BY <2>1
  <2>4. later.next = t + 1 + there.evaluated /\ later.taken = Append(other.taken, second)
    BY <2>2
  <2>5. later.next = after.next \/ (later.next > n /\ after.next > n)
    <3>1. CASE there = here
      BY <2>3, <2>4, <3>1
    <3>2. CASE t + here.evaluated >= n /\ t + there.evaluated >= n
      BY <1>1, <1>6, <2>3, <2>4, <3>2
    <3> QED
      BY <1>7, <3>1, <3>2 DEF VerdictStays
  <2> DEFINE l == Len(walk.taken)
  <2>6. l \in Nat /\ Len(other.taken) = l
    BY <1>4, <1>12, LenProperties DEF Same
  <2>7. /\ Len(after.taken) = l + 1
        /\ \A k \in 1..l : after.taken[k] = walk.taken[k]
        /\ after.taken[l + 1] = trade
    BY <1>4, <1>13, <2>3, AppendProperties
  <2>8. /\ Len(later.taken) = l + 1
        /\ \A k \in 1..l : later.taken[k] = other.taken[k]
        /\ later.taken[l + 1] = second
    BY <1>4, <1>13, <2>4, <2>6, AppendProperties
  <2>9. \A k \in 1..l : Stays(walk.taken[k], other.taken[k])
    BY <1>12 DEF Same
  <2> HIDE DEF l
  <2>10. ASSUME NEW k \in 1..l + 1 PROVE Stays(after.taken[k], later.taken[k])
    <3>1. CASE k \in 1..l
      BY <2>7, <2>8, <2>9, <3>1
    <3>2. CASE k = l + 1
      BY <1>14, <2>7, <2>8, <3>2
    <3>3. k \in 1..l \/ k = l + 1
      BY <2>6
    <3> QED
      BY <3>1, <3>2, <3>3
  <2>11. Same(after, later, n)
    BY <2>5, <2>7, <2>8, <2>10 DEF Same
  <2> QED
    BY <2>11 DEF after, later, n, longer
<1> QED
  BY <1>16, <1>17

\* With one point more the trades stay, but for the verdicts that are not settled, and
\* at most one more comes after them.
LEMMA WalkStays ==
    ASSUME NEW X, NEW signals \in Seq(X), NEW signal \in X,
           NEW Y, NEW series \in Seq(Y), NEW bar \in Y, Len(series) = Len(signals)
    PROVE  LET before == Walk(signals, series)
               after == Walk(Append(signals, signal), Append(series, bar))
           IN  /\ Len(before) <= Len(after)
               /\ \A k \in 1..Len(before) : Stays(before[k], after[k])
<1> DEFINE n == Len(signals)
           more == Append(signals, signal)
           longer == Append(series, bar)
<1>1. n \in Nat /\ Len(series) = n
  BY LenProperties
<1>2. /\ more \in Seq(X) /\ Len(more) = n + 1
      /\ \A i \in 1..n : more[i] = signals[i]
  BY AppendProperties
<1>3. Len(longer) = n + 1
  BY AppendProperties
<1> HIDE DEF more, longer
<1>4. PICK f \in [0..n -> WalkRecords(X)] :
         /\ f[0] = Start
         /\ \A t \in 1..n : f[t] = Gate(f[t - 1], t, signals, series)
         /\ Walk(signals, series) = f[n].taken
  BY WalkIs DEF Walks
<1>5. Walks(n + 1, X, more, longer)
  <2>1. Walks(Len(more), X, more, longer)
    BY <1>2, <1>3, WalkIs
  <2> QED
    BY <1>2, <2>1
<1>6. PICK g \in [0..n + 1 -> WalkRecords(X)] :
         /\ g[0] = Start
         /\ \A t \in 1..n + 1 : g[t] = Gate(g[t - 1], t, more, longer)
         /\ Walk(more, longer) = g[n + 1].taken
  BY <1>5 DEF Walks
<1> DEFINE S == {m \in Nat : m <= n => Same(f[m], g[m], n)}
<1>7. 0 \in S
  <2>1. Same(Start, Start, n)
    BY DEF Same, Start
  <2> QED
    BY <1>4, <1>6, <2>1
<1>8. ASSUME NEW m \in Nat, m \in S PROVE m + 1 \in S
  <2> SUFFICES ASSUME m + 1 <= n PROVE Same(f[m + 1], g[m + 1], n)
    OBVIOUS
  <2>1. /\ m + 1 \in 1..n /\ m + 1 \in 1..n + 1 /\ m \in 0..n /\ m \in 0..n + 1
        /\ (m + 1) - 1 = m /\ Same(f[m], g[m], n)
    BY <1>1, <1>8
  <2>2. f[m] \in WalkRecords(X) /\ g[m] \in WalkRecords(X)
        /\ signals[m + 1] \in X /\ more[m + 1] = signals[m + 1] /\ m + 1 \in 1..Len(series)
    BY <1>1, <1>2, <2>1
  <2>3. f[m + 1] = Gate(f[m], m + 1, signals, series)
    BY <1>4, <2>1
  <2>4. g[m + 1] = Gate(g[m], m + 1, more, longer)
    BY <1>6, <2>1
  <2>5. Same(Gate(f[m], m + 1, signals, series), Gate(g[m], m + 1, more, longer), n)
    <3> DEFINE t == m + 1
               w == f[m]
               v == g[m]
    <3>1. /\ t \in 1..Len(series) /\ signals[t] \in X /\ more[t] = signals[t]
          /\ w \in WalkRecords(X) /\ v \in WalkRecords(X) /\ Same(w, v, Len(series))
      BY <1>1, <2>1, <2>2
    <3> HIDE DEF t, w, v
    <3>2. Same(Gate(w, t, signals, series), Gate(v, t, more, Append(series, bar)), Len(series))
      BY <3>1, SameStep
    <3> QED
      BY <1>1, <3>2 DEF t, w, v, longer
  <2> QED
    BY <2>3, <2>4, <2>5
<1>9. Same(f[n], g[n], n)
  <2>1. Nat \subseteq S
    <3> HIDE DEF S
    <3> QED
      BY <1>7, <1>8, SetInduction
  <2> QED
    BY <1>1, <2>1
<1> DEFINE before == f[n].taken
           middle == g[n].taken
           after == g[n + 1].taken
<1>10. /\ Len(middle) = Len(before) /\ \A k \in 1..Len(before) : Stays(before[k], middle[k])
       /\ Len(before) \in Nat
  <2>1. f[n] \in WalkRecords(X) /\ n \in 0..n
    BY <1>1
  <2>2. before \in Seq(Trades(X))
    BY <2>1 DEF WalkRecords
  <2> QED
    BY <1>9, <2>2, LenProperties DEF Same
<1>11. Len(middle) <= Len(after) /\ \A k \in 1..Len(middle) : after[k] = middle[k]
  <2>1. n + 1 \in 1..Len(longer) /\ Len(longer) \in Nat /\ more[n + 1] \in X
        /\ n \in 0..n + 1 /\ n + 1 \in 1..n + 1 /\ (n + 1) - 1 = n
    BY <1>1, <1>2, <1>3
  <2>2. g[n] \in WalkRecords(X) /\ g[n + 1] = Gate(g[n], n + 1, more, longer)
    BY <1>6, <2>1
  <2>3. middle \in Seq(Trades(X)) /\ Len(middle) \in Nat
    <3>1. middle \in Seq(Trades(X))
      BY <2>2 DEF WalkRecords
    <3> QED
      BY <3>1, LenProperties
  <2> DEFINE trade == [at |-> n + 1, signal |-> more[n + 1],
                       verdict |-> Validate(more[n + 1], n + 1, longer)]
  <2>4. \/ after = middle
        \/ after = Append(middle, trade) /\ trade \in Trades(X)
    <3> DEFINE t == n + 1
               w == g[n]
    <3>1. t \in 1..Len(longer) /\ Len(longer) \in Nat /\ more[t] \in X /\ w \in WalkRecords(X)
      BY <2>1, <2>2
    <3> HIDE DEF t, w
    <3>2. LET verdict == Validate(more[t], t, longer)
              e == [at |-> t, signal |-> more[t], verdict |-> verdict]
              next == Gate(w, t, more, longer)
          IN  next = w \/ (next.taken = Append(w.taken, e) /\ e \in Trades(X))
      BY <3>1, GateIs
    <3> QED
      BY <2>2, <3>2 DEF t, w
  <2> HIDE DEF trade, before, middle, after
  <2>5. CASE after = middle
    BY <2>3, <2>5
  <2>6. CASE after = Append(middle, trade) /\ trade \in Trades(X)
    BY <2>3, <2>6, AppendProperties
  <2> QED
    BY <2>4, <2>5, <2>6
<1>12. Len(before) <= Len(after) /\ \A k \in 1..Len(before) : Stays(before[k], after[k])
  <2> HIDE DEF before, middle, after
  <2> QED
    BY <1>10, <1>11
<1> QED
  BY <1>4, <1>6, <1>12 DEF more, longer

-----------------------------------------------------------------------------
(* The specification *)

\* The signals are offered on a series that obeys the specification of the structure,
\* so what is proved of that holds here.
THEOREM SignalsFollowStructure == SignalSpec => Spec
<1>1. SignalInit => Init
  BY DEF SignalInit
<1>2. [SignalNext]_signalVars => [Next]_structureVars
  BY DEF SignalNext, signalVars, structureVars
<1> QED
  BY <1>1, <1>2, PTL DEF SignalSpec, Spec

\* A point has one offer, whatever the evidence came to.
OffersInv ==
    /\ candles \in Seq(Bars)
    /\ offers \in Seq(Range(offers))
    /\ Len(offers) = Len(candles)

LEMMA MoreOf ==
    ASSUME NEW s, s \in Seq(Range(s)), NEW e
    PROVE  /\ s \in Seq(Range(s) \cup {e})
           /\ Append(s, e) \in Seq(Range(Append(s, e)))
           /\ Range(Append(s, e)) = Range(s) \cup {e}
<1> DEFINE X == Range(s) \cup {e}
<1>1. s \in Seq(X)
  <2>1. Len(s) \in Nat /\ DOMAIN s = 1..Len(s) /\ s = [i \in 1..Len(s) |-> s[i]]
    BY LenProperties
  <2>2. \A i \in 1..Len(s) : s[i] \in X
    BY <2>1 DEF Range
  <2> HIDE DEF X
  <2>3. s \in [1..Len(s) -> X]
    BY <2>1, <2>2
  <2> QED
    BY <2>1, <2>3
<1>2. e \in X
  OBVIOUS
<1>3. Range(Append(s, e)) = X
  BY <1>1, <1>2, RangeAppend
<1> HIDE DEF X
<1>4. Append(s, e) \in Seq(X)
  BY <1>1, <1>2, AppendProperties
<1> QED
  BY <1>1, <1>3, <1>4 DEF X

LEMMA OffersStep ==
    ASSUME OffersInv, SignalNext
    PROVE  /\ OffersInv'
           /\ \E bar \in Bars : candles' = Append(candles, bar)
           /\ \E offer : offers' = Append(offers, offer)
<1>1. PICK bar \in Bars : candles' = Append(candles, bar)
  BY DEF SignalNext, Next
<1>2. offers' = Append(offers, Offer(report', candles'))
  BY DEF SignalNext
<1>3. candles' \in Seq(Bars) /\ Len(candles') = Len(candles) + 1
  BY <1>1, AppendProperties DEF OffersInv
<1>4. offers' \in Seq(Range(offers'))
  BY <1>2, MoreOf DEF OffersInv
<1>5. Len(offers') = Len(offers) + 1
  BY <1>2, AppendProperties DEF OffersInv
<1>6. OffersInv'
  <2>1. Range(offers)' = Range(offers')
    BY DEF Range
  <2> QED
    BY <1>3, <1>4, <1>5, <2>1 DEF OffersInv
<1> QED
  BY <1>1, <1>2, <1>6

LEMMA OffersInvariant == SignalSpec => []OffersInv
<1>1. SignalInit => OffersInv
  BY DEF SignalInit, Init, OffersInv
<1>2. OffersInv /\ [SignalNext]_signalVars => OffersInv'
  <2>1. OffersInv /\ SignalNext => OffersInv'
    BY OffersStep
  <2>2. OffersInv /\ UNCHANGED signalVars => OffersInv'
    BY DEF OffersInv, signalVars, Range
  <2> QED
    BY <2>1, <2>2
<1> QED
  BY <1>1, <1>2, PTL DEF SignalSpec

\* No two of the windows that the historical pipeline validates overlap, and it
\* suppresses a signal for no other reason: for any evidence and any windows.
THEOREM OneSignalAlways == SignalSpec => []OneSignalAtATime
<1>1. OffersInv => OneSignalAtATime
  <2> SUFFICES ASSUME OffersInv, NEW t \in DOMAIN offers,
                      offers[t] # NoSignal, t > MinHistory
               PROVE  (\E trade \in Taken : trade.at = t)
                         <=> ~\E trade \in Taken :
                                 trade.at < t /\ t <= trade.at + trade.verdict.evaluated
    BY DEF OneSignalAtATime
  <2>1. offers \in Seq(Range(offers)) /\ Len(candles) = Len(offers)
    BY DEF OffersInv
  <2>2. t \in 1..Len(offers)
    BY <2>1
  <2>3. (\E x \in Range(Walk(offers, candles)) : x.at = t)
           <=> ~\E x \in Range(Walk(offers, candles)) :
                   x.at < t /\ t <= x.at + x.verdict.evaluated
    BY <2>1, <2>2, WalkGated
  <2> QED
    BY <2>3 DEF Taken
<1> QED
  BY <1>1, OffersInvariant, PTL

\* The backtest has no look-ahead, for any evidence, history and window: a longer
\* series takes the same signals again and changes only verdicts that are not settled.
THEOREM SignalsAlwaysSettle == SignalSpec => SignalsSettle
<1> DEFINE before == Walk(offers, candles)
           after == Walk(offers', candles')
           Holds == /\ Len(before) <= Len(after)
                    /\ \A k \in 1..Len(before) :
                          /\ after[k].at = before[k].at /\ after[k].signal = before[k].signal
                          /\ IsSettled(before[k]) => after[k] = before[k]
<1>1. \A trade : IsSettled(trade) <=> SettledFor(trade.verdict)
  BY DEF IsSettled, SettledFor, Closed
<1>2. ASSUME OffersInv, SignalNext PROVE Holds
  <2>1. PICK bar \in Bars : candles' = Append(candles, bar)
    BY <1>2, OffersStep
  <2>2. PICK offer : offers' = Append(offers, offer)
    BY <1>2, OffersStep
  <2> DEFINE X == Range(offers) \cup {offer}
  <2>3. offers \in Seq(X) /\ offer \in X
    BY <1>2, MoreOf DEF OffersInv
  <2> HIDE DEF X
  <2>4. candles \in Seq(Bars) /\ Len(candles) = Len(offers)
    BY <1>2 DEF OffersInv
  <2>5. /\ Len(before) <= Len(after)
        /\ \A k \in 1..Len(before) : Stays(before[k], after[k])
    BY <2>1, <2>2, <2>3, <2>4, WalkStays
  <2> HIDE DEF before, after
  <2> QED
    BY <1>1, <2>5 DEF Stays
<1>3. OffersInv /\ [SignalNext]_signalVars =>
         [LET earlier == Walk(offers, candles)
              later == Walk(offers, candles)'
          IN  /\ Len(earlier) <= Len(later)
              /\ \A k \in 1..Len(earlier) :
                    /\ later[k].at = earlier[k].at /\ later[k].signal = earlier[k].signal
                    /\ IsSettled(earlier[k]) => later[k] = earlier[k]]_signalVars
  BY <1>2
<1> QED
  BY <1>3, OffersInvariant, PTL DEF SignalSpec, SignalsSettle
=============================================================================
