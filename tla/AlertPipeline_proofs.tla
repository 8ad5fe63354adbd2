-------------------------- MODULE AlertPipeline_proofs --------------------------
(***************************************************************************)
(* Proofs about AlertPipeline, for any setups, policy, cap, channels and   *)
(* attempts: types, alerts that are true of the lifecycles and told once,  *)
(* and sent once unless a channel sent and raised.                         *)
(***************************************************************************)
EXTENDS AlertPipeline, SetupLifecycle_proofs

(* What was recorded is counted *)

LEMMA PlacesFinite ==
    ASSUME NEW x, NEW seq, Len(seq) \in Nat, DOMAIN seq = 1..Len(seq)
    PROVE  IsFiniteSet({x} \X DOMAIN seq)
<1>1. IsFiniteSet({x}) /\ IsFiniteSet(DOMAIN seq)
  <2>1. IsFiniteSet(1..Len(seq))
    BY FS_Interval
  <2> QED
    BY <2>1, FS_Singleton
<1> QED
  BY <1>1, FS_Product, Zenon

LEMMA InstancesFinite ==
    ASSUME NEW all, AllOrderly(all)
    PROVE  IsFiniteSet(InstancesOf(all))
<1> DEFINE places == [s \in Setups |-> {s} \X DOMAIN all[s]]
           parts == {{s} \X DOMAIN all[s] : s \in Setups}
<1>1. places \in Surjection(Setups, parts)
  BY DEF Surjection
<1>2. IsFiniteSet(parts)
  BY <1>1, FS_Surjection, LifecycleAssumption
<1>3. ASSUME NEW s \in Setups PROVE IsFiniteSet({s} \X DOMAIN all[s])
  <2>1. Len(all[s]) \in Nat /\ DOMAIN all[s] = 1..Len(all[s])
    BY LenProperties DEF AllOrderly, Orderly
  <2> QED
    BY <2>1, PlacesFinite
<1>4. \A part \in parts : IsFiniteSet(part)
  BY <1>3
<1> HIDE DEF parts
<1>5. IsFiniteSet(UNION parts)
  BY <1>2, <1>4, FS_UNION
<1> QED
  BY <1>5 DEF InstancesOf, parts

\* The entries of all histories, each with its place.
Entries(all) == UNION {{i} \X DOMAIN all[i[1]][i[2]].observations : i \in InstancesOf(all)}

LEMMA EntriesFinite ==
    ASSUME NEW all, AllOrderly(all)
    PROVE  Cardinality(Entries(all)) \in Nat
<1> DEFINE history(i) == all[i[1]][i[2]].observations
           places == [i \in InstancesOf(all) |-> {i} \X DOMAIN history(i)]
           parts == {{i} \X DOMAIN history(i) : i \in InstancesOf(all)}
<1>1. places \in Surjection(InstancesOf(all), parts)
  BY DEF Surjection
<1>2. IsFiniteSet(parts)
  BY <1>1, FS_Surjection, InstancesFinite
<1>3. ASSUME NEW i \in InstancesOf(all) PROVE IsFiniteSet({i} \X DOMAIN history(i))
  <2>1. Sound(all[i[1]][i[2]])
    BY DEF InstancesOf, AllOrderly, Orderly
  <2>2. Len(history(i)) \in Nat /\ DOMAIN history(i) = 1..Len(history(i))
    BY <2>1, SoundParts
  <2> QED
    BY <2>2, PlacesFinite
<1>4. \A part \in parts : IsFiniteSet(part)
  BY <1>3
<1> HIDE DEF parts
<1>5. IsFiniteSet(UNION parts)
  BY <1>2, <1>4, FS_UNION
<1>6. Entries(all) = UNION parts
  BY DEF Entries, parts
<1> QED
  BY <1>5, <1>6, FS_CardinalityType

LEMMA NothingRecorded ==
    ASSUME NEW all, all = [s \in Setups |-> <<>>]
    PROVE  AllOrderly(all) /\ Cardinality(Entries(all)) = 0
<1>1. \A s \in Setups : all[s] = <<>> /\ DOMAIN all[s] = {}
  OBVIOUS
<1>2. AllOrderly(all)
  BY <1>1, EmptySeq DEF AllOrderly, Orderly
<1>3. InstancesOf(all) = {}
  BY <1>1 DEF InstancesOf
<1>4. Entries(all) = {}
  BY <1>3 DEF Entries
<1> QED
  BY <1>2, <1>4, FS_EmptySet

-----------------------------------------------------------------------------
(* What an alert says of an instance *)

Alert == [kind : Active \cup Terminal, setup : Setups, instance : 1..MaxRecorded,
          observation : Observations]

Confirming(seen) == seen.status = "OBSERVED" /\ seen.verdict.says = "qualified"

\* The observation of an alert is the one that brought the instance there: the
\* first of all, the first that confirms, or the last.
Tale(kind, observation, lifecycle) ==
    LET seen == lifecycle.observations IN
        /\ kind = "DETECTED" => observation = seen[1]
        /\ kind = "CONFIRMED" =>
              \E n \in DOMAIN seen :
                 /\ seen[n] = observation /\ Confirming(observation)
                 /\ \A m \in DOMAIN seen : m < n => ~Confirming(seen[m])
        /\ kind \in Terminal =>
              lifecycle.state = kind /\ seen[Len(seen)] = observation

\* Alerts of one instance that are true are as many as their kinds, and not of
\* both ends.
LEMMA TalesAgree ==
    ASSUME NEW l, Sound(l), NEW kind \in Active \cup Terminal,
           NEW x, NEW y, Tale(kind, x, l), Tale(kind, y, l)
    PROVE  x = y
<1>1. DOMAIN l.observations = 1..Len(l.observations)
  BY SoundParts
<1>2. CASE kind = "CONFIRMED"
  <2>1. PICK n \in DOMAIN l.observations :
           /\ l.observations[n] = x /\ Confirming(x)
           /\ \A m \in DOMAIN l.observations : m < n => ~Confirming(l.observations[m])
    BY <1>2 DEF Tale
  <2>2. PICK k \in DOMAIN l.observations :
           /\ l.observations[k] = y /\ Confirming(y)
           /\ \A m \in DOMAIN l.observations : m < k => ~Confirming(l.observations[m])
    BY <1>2 DEF Tale
  <2>3. n = k
    BY <1>1, <2>1, <2>2
  <2> QED
    BY <2>1, <2>2, <2>3
<1>3. CASE kind # "CONFIRMED"
  BY <1>3 DEF Tale, Active, Terminal
<1> QED
  BY <1>2, <1>3

\* What was said of an instance stays so when it goes on.
LEMMA TaleKept ==
    ASSUME NEW l, Sound(l), NEW seen \in Observations,
           NEW kind \in Active \cup Terminal, NEW x, Tale(kind, x, l)
    PROVE  Tale(kind, x, Advance(l, seen))
<1>1. CASE Advance(l, seen) = l
  BY <1>1
<1>2. CASE Advance(l, seen) # l
  <2> DEFINE next == Advance(l, seen)
             n == Len(l.observations)
  <2>1. /\ l.state \notin Terminal /\ next.observations = Append(l.observations, seen)
        /\ n \in Nat \ {0} /\ DOMAIN l.observations = 1..n
        /\ l.observations \in Seq(Observations)
    BY <1>2, AdvanceKeeps, SoundParts
  <2>2. DOMAIN next.observations = 1..n + 1 /\ \A i \in 1..n : next.observations[i] = l.observations[i]
    BY <2>1, Longer
  <2> HIDE DEF next, n
  <2>3. kind \in Active
    BY <2>1 DEF Tale
  <2>4. CASE kind = "DETECTED"
    <3>1. next.observations[1] = l.observations[1]
      BY <2>1, <2>2
    <3> QED
      BY <2>4, <3>1 DEF Tale, Terminal, next
  <2>5. CASE kind = "CONFIRMED"
    <3>1. PICK k \in DOMAIN l.observations :
             /\ l.observations[k] = x /\ Confirming(x)
             /\ \A m \in DOMAIN l.observations : m < k => ~Confirming(l.observations[m])
      BY <2>5 DEF Tale
    <3>2. k \in 1..n /\ k \in DOMAIN next.observations /\ next.observations[k] = x
      BY <2>1, <2>2, <3>1
    <3>3. ASSUME NEW m \in DOMAIN next.observations, m < k
          PROVE  ~Confirming(next.observations[m])
      <4>1. m \in 1..n
        BY <2>1, <2>2, <3>2, <3>3
      <4> QED
        BY <2>1, <2>2, <3>1, <3>3, <4>1
    <3> QED
      BY <2>5, <3>1, <3>2, <3>3 DEF Tale, Terminal, next
  <2> QED
    BY <2>3, <2>4, <2>5 DEF Active
<1> QED
  BY <1>1, <1>2

LEMMA TaleOfNew ==
    ASSUME NEW seen \in Observations, seen.status = "OBSERVED"
    PROVE  LET l == NewLifecycle(seen) IN
              Tale(l.state, l.observations[Len(l.observations)], l)
<1>1. /\ NewLifecycle(seen).observations = <<seen>>
      /\ DOMAIN <<seen>> = {1} /\ <<seen>>[1] = seen /\ Len(<<seen>>) = 1
      /\ NewLifecycle(seen).state =
            IF seen.verdict.says = "qualified" THEN "CONFIRMED" ELSE "DETECTED"
  BY DEF NewLifecycle
<1> QED
  BY <1>1 DEF Tale, Confirming, Terminal

\* An instance that comes to another state says so truly.
LEMMA TaleOfArrival ==
    ASSUME NEW l, Sound(l), NEW seen \in Observations, Advance(l, seen).state # l.state
    PROVE  LET next == Advance(l, seen) IN
              Tale(next.state, next.observations[Len(next.observations)], next)
<1> DEFINE next == Advance(l, seen)
           n == Len(l.observations)
<1>1. /\ l.state \in Active /\ next.state = Arrival(l, seen)
      /\ next.observations = Append(l.observations, seen)
      /\ n \in Nat \ {0} /\ DOMAIN l.observations = 1..n
      /\ l.observations \in Seq(Observations)
  BY AdvanceKeeps, SoundParts
<1>2. /\ DOMAIN next.observations = 1..n + 1 /\ Len(next.observations) = n + 1
      /\ \A i \in 1..n : next.observations[i] = l.observations[i]
      /\ next.observations[n + 1] = seen
  BY <1>1, Longer
<1>3. /\ next.state # l.state
      /\ next.state = "CONFIRMED" => Confirming(seen) /\ l.state = "DETECTED"
      /\ next.state # "DETECTED"
  BY <1>1 DEF Arrival, Active, Confirming
<1>4. l.state = "DETECTED" => ~Qualified(l.observations)
  BY DEF Sound, Tells, Active
<1>5. l.state = "DETECTED" => \A m \in 1..n : ~Confirming(l.observations[m])
  BY <1>1, <1>4 DEF Qualified, Confirming
<1> HIDE DEF next, n
<1>6. ASSUME next.state = "CONFIRMED"
      PROVE  \E k \in DOMAIN next.observations :
                /\ next.observations[k] = seen /\ Confirming(seen)
                /\ \A m \in DOMAIN next.observations : m < k => ~Confirming(next.observations[m])
  <2>1. n + 1 \in DOMAIN next.observations
    BY <1>1, <1>2
  <2>2. ASSUME NEW m \in DOMAIN next.observations, m < n + 1
        PROVE  ~Confirming(next.observations[m])
    <3>1. m \in 1..n
      BY <1>1, <1>2, <2>2
    <3> QED
      BY <1>2, <1>3, <1>5, <1>6, <3>1
  <2> QED
    BY <1>2, <1>3, <1>6, <2>1, <2>2
<1>7. next.observations[Len(next.observations)] = seen
  BY <1>2
<1> QED
  BY <1>3, <1>6, <1>7 DEF Tale, next
\* The alert of a true state of an instance there is.
Told(alert, all) ==
    /\ alert \in Alert /\ alert.instance \in DOMAIN all[alert.setup]
    /\ Tale(alert.kind, alert.observation, all[alert.setup][alert.instance])

\* An assessment leaves true what was told, and what it brings is told truly.
LEMMA ToldAfter ==
    ASSUME NEW all, AllOrderly(all), NEW assessment \in Assessments,
           NEW alert, Told(alert, all)
    PROVE  Told(alert, After(all, assessment))
<1> DEFINE s == alert.setup
           k == alert.instance
           l == all[s][k]
<1>1. /\ s \in Setups /\ k \in DOMAIN all[s] /\ alert.kind \in Active \cup Terminal
      /\ Sound(l) /\ Observation(s, assessment) \in Observations
  BY ObservationTyped DEF Told, Alert, AllOrderly, Orderly
<1>2. /\ k \in DOMAIN After(all, assessment)[s]
      /\ \/ After(all, assessment)[s][k] = l
         \/ After(all, assessment)[s][k] = Advance(l, Observation(s, assessment))
  BY <1>1, AfterStays
<1>3. Tale(alert.kind, alert.observation, l)
  BY DEF Told
<1>4. Tale(alert.kind, alert.observation, After(all, assessment)[s][k])
  BY <1>1, <1>2, <1>3, TaleKept
<1> QED
  BY <1>2, <1>4 DEF Told

LEMMA EventTold ==
    ASSUME NEW all, AllOrderly(all), NEW assessment \in Assessments,
           NEW s \in Setups, NEW k \in 1..MaxRecorded,
           k \in DOMAIN After(all, assessment)[s],
           k \in DOMAIN all[s] => all[s][k].state # After(all, assessment)[s][k].state
    PROVE  Told(EventAt(<<s, k>>, After(all, assessment)), After(all, assessment))
<1> DEFINE seen == Observation(s, assessment)
           after == After(all, assessment)[s]
           event == EventAt(<<s, k>>, After(all, assessment))
<1>1. /\ all[s] \in Seq(Lifecycles) /\ seen \in Observations
      /\ Len(all[s]) \in Nat /\ DOMAIN all[s] = 1..Len(all[s])
      /\ \A j \in DOMAIN all[s] : Sound(all[s][j])
  BY ObservationTyped, LenProperties DEF AllOrderly, Orderly
<1>2. Sound(after[k])
  BY AfterOrderly DEF Orderly
<1>3. Tale(after[k].state, after[k].observations[Len(after[k].observations)], after[k])
  <2>1. CASE k \in DOMAIN all[s]
    <3>1. after[k] = Advance(all[s][k], seen)
      BY <2>1, AfterStays
    <3> QED
      BY <1>1, <2>1, <3>1, TaleOfArrival
  <2>2. CASE k \notin DOMAIN all[s]
    <3>1. seen.status = "OBSERVED" /\ ~HasActive(all[s])
      <4> SUFFICES ASSUME ~(seen.status = "OBSERVED" /\ ~HasActive(all[s])) PROVE FALSE
        OBVIOUS
      <4>1. after = [m \in DOMAIN all[s] |-> after[m]]
        BY AfterOf
      <4>2. k \in DOMAIN after
        OBVIOUS
      <4> HIDE DEF after
      <4> QED
        BY <2>2, <4>1, <4>2
    <3>2. after = Append(all[s], NewLifecycle(seen))
      BY <3>1, AfterNew
    <3>3. NewLifecycle(seen) \in Lifecycles
      BY <1>1, <3>1, NewSound DEF Sound
    <3>4. /\ DOMAIN after = 1..Len(all[s]) + 1
          /\ after[Len(all[s]) + 1] = NewLifecycle(seen)
      BY <1>1, <3>2, <3>3, Longer
    <3>5. after[k] = NewLifecycle(seen)
      BY <1>1, <2>2, <3>4
    <3> QED
      BY <1>1, <3>1, <3>5, TaleOfNew
  <2> QED
    BY <2>1, <2>2
<1>4. /\ event.kind = after[k].state /\ event.setup = s /\ event.instance = k
      /\ event.observation = after[k].observations[Len(after[k].observations)]
  BY DEF EventAt
<1>5. event \in Alert
  <2>1. /\ after[k].state \in Active \cup Terminal
        /\ after[k].observations[Len(after[k].observations)] \in Observations
    <3> HIDE DEF after
    <3> QED
      BY <1>2, SoundParts
  <2> QED
    BY <2>1 DEF EventAt, Alert
<1> QED
  BY <1>3, <1>4, <1>5 DEF Told

LEMMA ArrivalsTold ==
    ASSUME NEW all, AllOrderly(all), NEW assessment \in Assessments,
           NEW alert \in Arrivals(all, After(all, assessment))
    PROVE  Told(alert, After(all, assessment))
<1> DEFINE after == After(all, assessment)
<1>1. PICK p \in Setups \X (1..MaxRecorded) :
         /\ p[2] \in DOMAIN after[p[1]]
         /\ p[2] \in DOMAIN all[p[1]] => all[p[1]][p[2]].state # after[p[1]][p[2]].state
         /\ alert = EventAt(p, after)
  BY DEF Arrivals
<1>2. p = <<p[1], p[2]>> /\ p[1] \in Setups /\ p[2] \in 1..MaxRecorded
  OBVIOUS
<1> QED
  BY <1>1, <1>2, EventTold

-----------------------------------------------------------------------------
(* The steps of the pipeline *)

LEMMA LifecycleSteps ==
    ASSUME LifecycleInv, [PipelineNext]_pipelineVars
    PROVE  /\ LifecycleInv'
           /\ \/ UNCHANGED lifecycles
              \/ \E assessment \in Assessments :
                    Scan(assessment) /\ lifecycles' = After(lifecycles, assessment)
              \/ Shutdown \/ Crash
<1>1. CASE UNCHANGED lifecycles
  BY <1>1 DEF LifecycleInv
<1>2. ASSUME NEW assessment \in Assessments, Scan(assessment)
      PROVE  LifecycleInv' /\ lifecycles' = After(lifecycles, assessment)
  BY <1>2, OrderlyStep DEF Scan, Next, ProcessSymbol
<1>3. CASE Shutdown \/ Crash
  BY <1>3, NothingRecorded DEF Shutdown, Crash, End, LifecycleInv
<1>4. CASE \/ EmitAlerts \/ (\E alert \in Emitted : Enqueue(alert))
           \/ (\E alert \in Pending : DeliverEntry(alert)) \/ Start
  BY <1>1, <1>4 DEF EmitAlerts, Enqueue, DeliverEntry, Start
<1> QED
  BY <1>1, <1>2, <1>3, <1>4 DEF PipelineNext, pipelineVars

\* What all runs record together is within the bound.
RunInv ==
    /\ run \in [number : 1..MaxRuns, state : {"UP", "SHUT_DOWN", "CRASHED"},
                recorded : 0..MaxRecorded]
    /\ run.recorded + RecordedCount <= MaxRecorded

LEMMA Counted ==
    /\ RecordedCount = Cardinality(Entries(lifecycles))
    /\ RecordedCount' = Cardinality(Entries(lifecycles'))
    /\ LifecycleInv => RecordedCount \in Nat
BY EntriesFinite DEF RecordedCount, Entries, Instances, At, LifecycleInv

LEMMA RunStep ==
    ASSUME LifecycleInv, RunInv, [PipelineNext]_pipelineVars
    PROVE  RunInv'
<1>0. /\ RecordedCount = Cardinality(Entries(lifecycles)) /\ RecordedCount \in Nat
      /\ RecordedCount' = Cardinality(Entries(lifecycles'))
  BY Counted
<1>1. CASE UNCHANGED <<run, lifecycles>>
  BY <1>0, <1>1 DEF RunInv
<1>2. ASSUME NEW assessment \in Assessments, Scan(assessment)
      PROVE  RunInv'
  BY <1>2 DEF Scan, RunInv
<1>3. CASE Shutdown \/ Crash
  <2>1. Cardinality(Entries(lifecycles')) = 0
    BY <1>3, NothingRecorded DEF Shutdown, Crash, End
  <2>2. PICK state \in {"SHUT_DOWN", "CRASHED"} :
           run' = [run EXCEPT !.state = state, !.recorded = @ + RecordedCount]
    BY <1>3 DEF Shutdown, Crash, End
  <2>3. /\ run' = [number |-> run.number, state |-> state, recorded |-> run.recorded + RecordedCount]
        /\ run.number \in 1..MaxRuns /\ run.recorded \in 0..MaxRecorded
        /\ run.recorded + RecordedCount <= MaxRecorded
    BY <2>2 DEF RunInv
  <2>4. run'.recorded \in 0..MaxRecorded
    BY <1>0, <2>3, LifecycleAssumption
  <2>5. run' \in [number : 1..MaxRuns, state : {"UP", "SHUT_DOWN", "CRASHED"},
                  recorded : 0..MaxRecorded]
    BY <2>3, <2>4
  <2>6. run'.recorded + RecordedCount' <= MaxRecorded
    BY <1>0, <2>1, <2>4, LifecycleAssumption
  <2> QED
    BY <2>5, <2>6 DEF RunInv
<1>4. CASE Start
  <2>1. /\ run' = [number |-> run.number + 1, state |-> "UP", recorded |-> run.recorded]
        /\ run.number \in 1..MaxRuns /\ run.number < MaxRuns /\ lifecycles' = lifecycles
    BY <1>4 DEF Start, RunInv
  <2>2. run' \in [number : 1..MaxRuns, state : {"UP", "SHUT_DOWN", "CRASHED"},
                  recorded : 0..MaxRecorded]
    BY <2>1, PipelineAssumption DEF RunInv
  <2>3. run'.recorded + RecordedCount' <= MaxRecorded
    BY <1>0, <2>1 DEF RunInv
  <2> QED
    BY <2>2, <2>3 DEF RunInv
<1>5. CASE \/ EmitAlerts \/ (\E alert \in Emitted : Enqueue(alert))
           \/ (\E alert \in Pending : DeliverEntry(alert))
  BY <1>1, <1>5 DEF EmitAlerts, Enqueue, DeliverEntry
<1> QED
  BY <1>1, <1>2, <1>3, <1>4, <1>5 DEF PipelineNext, pipelineVars
-----------------------------------------------------------------------------
(* Deliveries *)

LEMMA OutcomeParts ==
    ASSUME NEW outcome \in Outcomes
    PROVE  /\ outcome.status \in {"DELIVERED", "FAILED", "SKIPPED"}
           /\ outcome.sends \in Nat
           /\ outcome.status = "DELIVERED" => outcome.sends >= 1
           /\ outcome.status = "SKIPPED" => outcome.sends = 0
BY PipelineAssumption DEF Outcomes

\* What goes out is an alert's once, or a channel sent it and raised.
LEMMA Delivered ==
    ASSUME NEW some, NEW outcome \in [some -> Outcomes], Deliver(outcome),
           \A a \in DOMAIN sent : sent[a] \in 1..2
    PROVE  /\ DOMAIN sent' \subseteq DOMAIN sent \cup some
           /\ resent \subseteq resent' /\ resent' \subseteq resent \cup some
           /\ \A a \in DOMAIN sent' :
                 /\ sent'[a] \in 1..2
                 /\ a \notin some => a \in DOMAIN sent /\ sent'[a] = sent[a]
                 /\ a \in some /\ a \notin DOMAIN sent /\ a \notin resent' =>
                       sent'[a] = 1 /\ outcome[a].status = "DELIVERED"
<1>1. \A a \in some : /\ outcome[a].status \in {"DELIVERED", "FAILED", "SKIPPED"}
                      /\ outcome[a].sends \in Nat
                      /\ outcome[a].status = "DELIVERED" => outcome[a].sends >= 1
                      /\ outcome[a].status = "SKIPPED" => outcome[a].sends = 0
  BY OutcomeParts
<1>2. DOMAIN outcome = some
  OBVIOUS
<1>3. DOMAIN sent' = DOMAIN sent \cup {a \in some : outcome[a].sends > 0}
  BY <1>2 DEF Deliver
<1>4. resent' = resent \cup {a \in some :
                     outcome[a].sends > IF outcome[a].status = "DELIVERED" THEN 1 ELSE 0}
  BY <1>2 DEF Deliver
<1>5. \A a \in DOMAIN sent' :
         sent'[a] = LET more == IF a \in some THEN outcome[a].sends ELSE 0
                    IN  IF Sent(a) + more > 2 THEN 2 ELSE Sent(a) + more
  BY <1>2, <1>3 DEF Deliver
<1>6. ASSUME NEW a \in DOMAIN sent'
      PROVE  /\ sent'[a] \in 1..2
             /\ a \notin some => a \in DOMAIN sent /\ sent'[a] = sent[a]
             /\ a \in some /\ a \notin DOMAIN sent /\ a \notin resent' =>
                   sent'[a] = 1 /\ outcome[a].status = "DELIVERED"
  <2>1. CASE a \in DOMAIN sent
    <3>1. Sent(a) = sent[a] /\ sent[a] \in 1..2
      BY <2>1 DEF Sent
    <3> QED
      BY <1>1, <1>5, <2>1, <3>1
  <2>2. CASE a \notin DOMAIN sent
    <3>1. Sent(a) = 0 /\ a \in some /\ outcome[a].sends > 0
      BY <1>3, <2>2 DEF Sent
    <3> QED
      BY <1>1, <1>4, <1>5, <2>2, <3>1
  <2> QED
    BY <2>1, <2>2
<1> QED
  BY <1>3, <1>4, <1>6

-----------------------------------------------------------------------------
(* Types *)

OutboxShape ==
    /\ outbox = [pending |-> outbox.pending, delivered |-> outbox.delivered,
                 failed |-> outbox.failed]
    /\ outbox.pending = [a \in Pending |-> outbox.pending[a]]
    /\ \A a \in Pending : outbox.pending[a] \in 0..MaxAttempts - 1

\* What the engine may be given, of all the cycles of the run.
News == UNION cycles

AlertsInv ==
    /\ News \subseteq Alert /\ Emitted \subseteq Alert /\ observed \subseteq Alert
    /\ Pending \subseteq Alert /\ outbox.delivered \subseteq Alert /\ outbox.failed \subseteq Alert
    /\ file.ids \subseteq Alert /\ DOMAIN sent \subseteq Alert /\ resent \subseteq Alert
    /\ \A a \in Emitted : emitted[a] \in {"DELIVERED", "FAILED", "SKIPPED"}
    /\ \A a \in DOMAIN sent : sent[a] \in 1..2
    /\ OutboxShape

\* What an attempt leaves of the outbox.
LEMMA AttemptMade ==
    ASSUME OutboxShape, NEW alert \in Pending, NEW outcome \in Outcomes,
           outbox' = AfterAttempt(alert, outcome.status)
    PROVE  /\ OutboxShape' /\ Pending' \subseteq Pending
           /\ outbox.delivered \subseteq outbox'.delivered
           /\ outbox'.delivered \subseteq outbox.delivered \cup {alert}
           /\ outbox'.failed \subseteq outbox.failed \cup {alert}
           /\ outcome.status = "DELIVERED" => alert \in outbox'.delivered /\ alert \notin Pending'
<1> DEFINE attempts == outbox.pending[alert] + 1
<1>1. outcome.status \in {"DELIVERED", "FAILED", "SKIPPED"}
  BY OutcomeParts
<1>2. attempts \in Nat /\ MaxAttempts \in Nat \ {0}
  BY PipelineAssumption DEF OutboxShape
<1>3. CASE outcome.status = "FAILED" /\ attempts < MaxAttempts
  <2>1. outbox' = [pending |-> [outbox.pending EXCEPT ![alert] = attempts],
                   delivered |-> outbox.delivered, failed |-> outbox.failed]
    <3>1. ~(attempts >= MaxAttempts) /\ attempts < MaxAttempts
      BY <1>2, <1>3
    <3>2. outbox' = [outbox EXCEPT !.pending[alert] = attempts]
      BY <1>3, <3>1 DEF AfterAttempt
    <3> HIDE DEF attempts
    <3> QED
      BY <3>2 DEF OutboxShape
  <2>2. /\ outbox'.pending = [a \in Pending |-> IF a = alert THEN attempts ELSE outbox.pending[a]]
        /\ outbox'.delivered = outbox.delivered /\ outbox'.failed = outbox.failed
    <3>1. outbox'.pending = [outbox.pending EXCEPT ![alert] = attempts]
      BY <2>1
    <3>2. /\ DOMAIN outbox.pending = Pending
          /\ outbox'.delivered = outbox.delivered /\ outbox'.failed = outbox.failed
      BY <2>1 DEF Pending
    <3> QED
      BY <3>1, <3>2
  <2>3. DOMAIN outbox'.pending = Pending
    BY <2>2
  <2>4. \A a \in Pending : outbox'.pending[a] \in 0..MaxAttempts - 1
    BY <1>2, <1>3, <2>2 DEF OutboxShape
  <2>5. OutboxShape'
    BY <2>1, <2>2, <2>3, <2>4 DEF OutboxShape, Pending
  <2> QED
    BY <1>3, <2>2, <2>3, <2>5 DEF Pending
<1>4. CASE outcome.status # "FAILED" \/ attempts >= MaxAttempts
  <2>1. /\ outbox' = [pending |-> Remove(alert), delivered |-> outbox'.delivered,
                      failed |-> outbox'.failed]
        /\ outbox'.delivered = IF outcome.status = "DELIVERED"
                               THEN outbox.delivered \cup {alert} ELSE outbox.delivered
        /\ outbox'.failed = IF outcome.status = "FAILED"
                            THEN outbox.failed \cup {alert} ELSE outbox.failed
    <3>1. CASE outcome.status = "DELIVERED"
      BY <3>1 DEF AfterAttempt, OutboxShape
    <3>2. CASE outcome.status = "SKIPPED"
      BY <3>2 DEF AfterAttempt, OutboxShape
    <3>3. CASE outcome.status = "FAILED"
      <4>1. attempts >= MaxAttempts /\ ~(attempts < MaxAttempts)
        BY <1>2, <1>4, <3>3
      <4> QED
        BY <3>3, <4>1 DEF AfterAttempt, OutboxShape
    <3> QED
      BY <1>1, <3>1, <3>2, <3>3
  <2>2. outbox'.pending = [a \in Pending \ {alert} |-> outbox.pending[a]]
    BY <2>1 DEF Remove
  <2>3. /\ DOMAIN outbox'.pending = Pending \ {alert}
        /\ \A a \in Pending \ {alert} : outbox'.pending[a] \in 0..MaxAttempts - 1
    BY <2>2 DEF OutboxShape
  <2>4. OutboxShape'
    BY <2>1, <2>2, <2>3 DEF OutboxShape, Pending
  <2> QED
    BY <2>1, <2>3, <2>4 DEF Pending
<1> QED
  BY <1>1, <1>2, <1>3, <1>4

LEMMA ScanNews ==
    ASSUME NEW assessment, Scan(assessment)
    PROVE  \A a \in News' : a \in News \/ a \in Arrivals(lifecycles, lifecycles')
BY DEF Scan, News

LEMMA Emission ==
    ASSUME EmitAlerts
    PROVE  \E some \in SUBSET News : \E outcome \in [some -> Outcomes] :
              /\ some \cap Emitted = {} /\ Deliver(outcome)
              /\ Emitted' = Emitted \cup some
              /\ \A a \in some : emitted'[a] = outcome[a].status
              /\ \A a \in Emitted : emitted'[a] = emitted[a]
              /\ observed' = observed \cup some
              /\ UNCHANGED <<lifecycles, cycles, outbox, file, run>>
<1>0. PICK events \in cycles : \E some \in SUBSET Fresh(events) :
         /\ \E outcome \in [some -> Outcomes] :
               /\ Deliver(outcome)
               /\ emitted' = [alert \in Emitted \cup some |->
                     IF alert \in some THEN outcome[alert].status ELSE emitted[alert]]
         /\ observed' = observed \cup some
  BY DEF EmitAlerts
<1>1. PICK some \in SUBSET Fresh(events) :
         /\ \E outcome \in [some -> Outcomes] :
               /\ Deliver(outcome)
               /\ emitted' = [alert \in Emitted \cup some |->
                     IF alert \in some THEN outcome[alert].status ELSE emitted[alert]]
         /\ observed' = observed \cup some
  BY <1>0
<1>2. PICK outcome \in [some -> Outcomes] :
         /\ Deliver(outcome)
         /\ emitted' = [alert \in Emitted \cup some |->
               IF alert \in some THEN outcome[alert].status ELSE emitted[alert]]
  BY <1>1
<1>3. some \subseteq News /\ some \cap Emitted = {}
  BY <1>1 DEF Fresh, News
<1>4. Emitted' = Emitted \cup some
  BY <1>2 DEF Emitted
<1>5. /\ \A a \in some : emitted'[a] = outcome[a].status
      /\ \A a \in Emitted : emitted'[a] = emitted[a]
  BY <1>2, <1>3
<1>6. UNCHANGED <<lifecycles, cycles, outbox, file, run>>
  BY DEF EmitAlerts
<1> QED
  BY <1>1, <1>2, <1>3, <1>4, <1>5, <1>6

LEMMA Retry ==
    ASSUME OutboxShape, NEW alert \in Pending, DeliverEntry(alert)
    PROVE  \E outcome \in [{alert} -> Outcomes] :
              /\ Deliver(outcome)
              /\ OutboxShape' /\ Pending' \subseteq Pending
              /\ outbox.delivered \subseteq outbox'.delivered
              /\ outbox'.delivered \subseteq outbox.delivered \cup {alert}
              /\ outbox'.failed \subseteq outbox.failed \cup {alert}
              /\ outcome[alert].status = "DELIVERED" =>
                    alert \in outbox'.delivered /\ alert \notin Pending'
              /\ UNCHANGED <<lifecycles, cycles, emitted, observed, file, run>>
<1>1. PICK outcome \in [{alert} -> Outcomes] :
         Deliver(outcome) /\ outbox' = AfterAttempt(alert, outcome[alert].status)
  BY DEF DeliverEntry
<1>2. outcome[alert] \in Outcomes
  OBVIOUS
<1> QED
  BY <1>1, <1>2, AttemptMade DEF DeliverEntry

LEMMA Queued ==
    ASSUME OutboxShape, NEW alert \in Emitted, Enqueue(alert)
    PROVE  /\ OutboxShape' /\ Pending' = Pending \cup {alert}
           /\ outbox'.delivered = outbox.delivered /\ outbox'.failed = outbox.failed
<1>1. outbox' = [pending |-> [a \in Pending \cup {alert} |-> IF a = alert THEN 0 ELSE outbox.pending[a]],
                 delivered |-> outbox.delivered, failed |-> outbox.failed]
  BY DEF Enqueue, OutboxShape
<1>2. /\ DOMAIN outbox'.pending = Pending \cup {alert}
      /\ \A a \in Pending \cup {alert} :
            outbox'.pending[a] = IF a = alert THEN 0 ELSE outbox.pending[a]
      /\ outbox'.pending = [a \in Pending \cup {alert} |-> outbox'.pending[a]]
      /\ outbox'.delivered = outbox.delivered /\ outbox'.failed = outbox.failed
  BY <1>1
<1>3. \A a \in Pending \cup {alert} : outbox'.pending[a] \in 0..MaxAttempts - 1
  BY <1>2, PipelineAssumption DEF OutboxShape
<1>4. OutboxShape'
  BY <1>1, <1>2, <1>3 DEF OutboxShape, Pending
<1> QED
  BY <1>2, <1>4 DEF Pending

LEMMA Ended ==
    ASSUME Shutdown \/ Crash
    PROVE  /\ News' = {} /\ Emitted' = {} /\ Pending' = {} /\ outbox' = EmptyOutbox
           /\ observed' = {} /\ DOMAIN sent' = {} /\ resent' = {}
           /\ file'.ids = file.ids \/ file'.ids = observed
           /\ OutboxShape'
<1>1. /\ cycles' = {} /\ emitted' = <<>> /\ outbox' = EmptyOutbox
      /\ observed' = {} /\ sent' = <<>> /\ resent' = {}
      /\ file'.ids = file.ids \/ file'.ids = observed
  BY DEF Shutdown, Crash, End, Save
<1>2. News' = {} /\ Emitted' = {} /\ Pending' = {} /\ DOMAIN sent' = {}
  BY <1>1 DEF News, Emitted, Pending, EmptyOutbox
<1>3. OutboxShape'
  BY <1>1, <1>2 DEF OutboxShape, EmptyOutbox
<1> QED
  BY <1>1, <1>2, <1>3

LEMMA AlertsStep ==
    ASSUME LifecycleInv, AlertsInv, [PipelineNext]_pipelineVars
    PROVE  AlertsInv'
<1>1. ASSUME NEW assessment \in Assessments, Scan(assessment)
      PROVE  AlertsInv'
  <2>1. \A a \in News' : a \in News \/ a \in Alert
    BY <1>1, ScanNews, ArrivalsTold DEF Scan, ProcessSymbol, LifecycleInv, Told
  <2> QED
    BY <1>1, <2>1 DEF Scan, AlertsInv, Emitted, Pending, OutboxShape
<1>2. CASE EmitAlerts
  <2>1. PICK some \in SUBSET News : \E outcome \in [some -> Outcomes] :
           /\ Deliver(outcome)
           /\ Emitted' = Emitted \cup some
           /\ \A a \in some : emitted'[a] = outcome[a].status
           /\ \A a \in Emitted : emitted'[a] = emitted[a]
           /\ observed' = observed \cup some
           /\ UNCHANGED <<lifecycles, cycles, outbox, file, run>>
    BY <1>2, Emission
  <2>2. PICK outcome \in [some -> Outcomes] :
           Deliver(outcome) /\ \A a \in some : emitted'[a] = outcome[a].status
    BY <2>1
  <2>3. \A a \in some : emitted'[a] \in {"DELIVERED", "FAILED", "SKIPPED"}
    BY <2>2, OutcomeParts
  <2>4. /\ DOMAIN sent' \subseteq DOMAIN sent \cup some /\ resent' \subseteq resent \cup some
        /\ \A a \in DOMAIN sent' : sent'[a] \in 1..2
    BY <2>2, Delivered DEF AlertsInv
  <2>5. OutboxShape'
    BY <2>1 DEF AlertsInv, OutboxShape, Pending
  <2> QED
    BY <2>1, <2>3, <2>4, <2>5 DEF AlertsInv, Pending, News
<1>3. ASSUME NEW alert \in Emitted, Enqueue(alert)
      PROVE  AlertsInv'
  <2>1. /\ OutboxShape' /\ Pending' = Pending \cup {alert}
        /\ outbox'.delivered = outbox.delivered /\ outbox'.failed = outbox.failed
    BY <1>3, Queued DEF AlertsInv
  <2> QED
    BY <1>3, <2>1 DEF AlertsInv, Enqueue, Emitted, News
<1>4. ASSUME NEW alert \in Pending, DeliverEntry(alert)
      PROVE  AlertsInv'
  <2>1. PICK outcome \in [{alert} -> Outcomes] :
              /\ Deliver(outcome)
              /\ OutboxShape' /\ Pending' \subseteq Pending
              /\ outbox'.delivered \subseteq outbox.delivered \cup {alert}
              /\ outbox'.failed \subseteq outbox.failed \cup {alert}
              /\ UNCHANGED <<lifecycles, cycles, emitted, observed, file, run>>
    BY <1>4, Retry DEF AlertsInv
  <2>2. /\ DOMAIN sent' \subseteq DOMAIN sent \cup {alert} /\ resent' \subseteq resent \cup {alert}
        /\ \A a \in DOMAIN sent' : sent'[a] \in 1..2
    BY <2>1, Delivered DEF AlertsInv
  <2> QED
    BY <1>4, <2>1, <2>2 DEF AlertsInv, Emitted, News
<1>5. CASE Shutdown \/ Crash
  <2>1. outbox'.delivered = {} /\ outbox'.failed = {}
    BY <1>5, Ended DEF EmptyOutbox
  <2> QED
    BY <1>5, <2>1, Ended DEF AlertsInv
<1>6. CASE Start
  BY <1>6 DEF Start, AlertsInv, Emitted, Pending, OutboxShape, News
<1>7. CASE UNCHANGED pipelineVars
  BY <1>7 DEF pipelineVars, AlertsInv, Emitted, Pending, OutboxShape, News
<1> QED
  BY <1>1, <1>2, <1>3, <1>4, <1>5, <1>6, <1>7 DEF PipelineNext

-----------------------------------------------------------------------------
(* Sent once *)

\* What was sent and is not known to be in doubt was emitted and is over: the
\* engine delivered it or the outbox did, and nothing will try it again.
SentInv ==
    /\ Pending \subseteq Emitted
    /\ \A a \in DOMAIN sent : a \notin resent =>
          /\ sent[a] = 1 /\ a \in Emitted /\ a \notin Pending
          /\ emitted[a] = "DELIVERED" \/ a \in outbox.delivered

LEMMA SentStep ==
    ASSUME AlertsInv, SentInv, [PipelineNext]_pipelineVars
    PROVE  SentInv'
<1>1. CASE UNCHANGED <<emitted, outbox, sent, resent>>
  BY <1>1 DEF SentInv, Emitted, Pending
<1>2. CASE EmitAlerts
  <2>1. PICK some \in SUBSET News : \E outcome \in [some -> Outcomes] :
           /\ some \cap Emitted = {} /\ Deliver(outcome)
           /\ Emitted' = Emitted \cup some
           /\ \A a \in some : emitted'[a] = outcome[a].status
           /\ \A a \in Emitted : emitted'[a] = emitted[a]
           /\ UNCHANGED outbox
    BY <1>2, Emission
  <2>2. PICK outcome \in [some -> Outcomes] :
           Deliver(outcome) /\ \A a \in some : emitted'[a] = outcome[a].status
    BY <2>1
  <2>3. Pending' = Pending /\ Pending' \subseteq Emitted'
    BY <2>1 DEF SentInv, Pending
  <2>4. ASSUME NEW a \in DOMAIN sent', a \notin resent'
        PROVE  /\ sent'[a] = 1 /\ a \in Emitted' /\ a \notin Pending'
               /\ emitted'[a] = "DELIVERED" \/ a \in outbox'.delivered
    <3>1. /\ resent \subseteq resent'
          /\ a \notin some => a \in DOMAIN sent /\ sent'[a] = sent[a]
          /\ a \in some /\ a \notin DOMAIN sent =>
                sent'[a] = 1 /\ outcome[a].status = "DELIVERED"
      BY <2>2, <2>4, Delivered DEF AlertsInv
    <3>2. a \in DOMAIN sent => a \in Emitted
      BY <2>4, <3>1 DEF SentInv
    <3>3. CASE a \in some
      BY <2>1, <2>2, <2>3, <3>1, <3>2, <3>3 DEF SentInv
    <3>4. CASE a \notin some
      <4>1. /\ sent[a] = 1 /\ a \in Emitted /\ a \notin Pending
            /\ emitted[a] = "DELIVERED" \/ a \in outbox.delivered
        BY <2>4, <3>1, <3>4 DEF SentInv
      <4> QED
        BY <2>1, <2>3, <3>1, <3>4, <4>1
    <3> QED
      BY <3>3, <3>4
  <2> QED
    BY <2>3, <2>4 DEF SentInv
<1>3. ASSUME NEW alert \in Emitted, Enqueue(alert)
      PROVE  SentInv'
  <2>1. Pending' = Pending \cup {alert} /\ outbox'.delivered = outbox.delivered
    BY <1>3, Queued DEF AlertsInv
  <2>2. /\ emitted[alert] # "DELIVERED" /\ alert \notin outbox.delivered
        /\ UNCHANGED <<emitted, sent, resent>>
    BY <1>3 DEF Enqueue
  <2> QED
    BY <1>3, <2>1, <2>2 DEF SentInv, Emitted
<1>4. ASSUME NEW alert \in Pending, DeliverEntry(alert)
      PROVE  SentInv'
  <2>1. PICK outcome \in [{alert} -> Outcomes] :
              /\ Deliver(outcome)
              /\ Pending' \subseteq Pending
              /\ outbox.delivered \subseteq outbox'.delivered
              /\ outcome[alert].status = "DELIVERED" =>
                    alert \in outbox'.delivered /\ alert \notin Pending'
              /\ UNCHANGED emitted
    BY <1>4, Retry DEF AlertsInv
  <2>2. Emitted' = Emitted /\ alert \in Emitted
    BY <2>1 DEF SentInv, Emitted
  <2>3. ASSUME NEW a \in DOMAIN sent', a \notin resent'
        PROVE  /\ sent'[a] = 1 /\ a \in Emitted' /\ a \notin Pending'
               /\ emitted'[a] = "DELIVERED" \/ a \in outbox'.delivered
    <3>1. /\ resent \subseteq resent'
          /\ a # alert => a \in DOMAIN sent /\ sent'[a] = sent[a]
          /\ a = alert /\ a \notin DOMAIN sent =>
                sent'[a] = 1 /\ outcome[a].status = "DELIVERED"
      BY <2>1, <2>3, Delivered DEF AlertsInv
    <3>2. CASE a = alert
      <4>1. a \notin DOMAIN sent
        BY <2>3, <3>1, <3>2 DEF SentInv
      <4> QED
        BY <2>1, <2>2, <3>1, <3>2, <4>1
    <3>3. CASE a # alert
      <4>1. /\ sent[a] = 1 /\ a \in Emitted /\ a \notin Pending
            /\ emitted[a] = "DELIVERED" \/ a \in outbox.delivered
        BY <2>3, <3>1, <3>3 DEF SentInv
      <4> QED
        BY <2>1, <2>2, <3>1, <3>3, <4>1
    <3> QED
      BY <3>2, <3>3
  <2>4. Pending' \subseteq Emitted'
    BY <2>1, <2>2 DEF SentInv
  <2> QED
    BY <2>3, <2>4 DEF SentInv
<1>5. CASE Shutdown \/ Crash
  BY <1>5, Ended DEF SentInv
<1>6. CASE (\E assessment \in Assessments : Scan(assessment)) \/ Start \/ UNCHANGED pipelineVars
  BY <1>1, <1>6 DEF Scan, Start, pipelineVars
<1> QED
  BY <1>2, <1>3, <1>4, <1>5, <1>6 DEF PipelineNext
-----------------------------------------------------------------------------
(* Told truly *)

\* Not only what was emitted is true: what any cycle brought, and may yet be emitted,
\* still is when it is emitted.
TaleInv == \A a \in News \cup Emitted : Told(a, lifecycles)

LEMMA TaleStep ==
    ASSUME LifecycleInv, TaleInv, [PipelineNext]_pipelineVars
    PROVE  TaleInv'
<1>1. CASE UNCHANGED <<lifecycles, cycles, emitted>>
  BY <1>1 DEF TaleInv, Emitted, News
<1>2. ASSUME NEW assessment \in Assessments, Scan(assessment)
      PROVE  TaleInv'
  <2>1. /\ lifecycles' = After(lifecycles, assessment) /\ emitted' = emitted
        /\ \A a \in News' : a \in News \/ a \in Arrivals(lifecycles, lifecycles')
        /\ AllOrderly(lifecycles)
    BY <1>2, ScanNews DEF Scan, ProcessSymbol, LifecycleInv
  <2>2. \A a \in Arrivals(lifecycles, After(lifecycles, assessment)) :
           Told(a, After(lifecycles, assessment))
    BY <2>1, ArrivalsTold
  <2>3. \A a \in News \cup Emitted : Told(a, After(lifecycles, assessment))
    BY <2>1, ToldAfter DEF TaleInv
  <2>4. \A a \in News' \cup Emitted' : Told(a, lifecycles')
    BY <2>1, <2>2, <2>3 DEF Emitted
  <2> QED
    BY <2>4 DEF TaleInv
<1>3. CASE EmitAlerts
  <2>1. /\ Emitted' \subseteq Emitted \cup News /\ News' = News
        /\ lifecycles' = lifecycles
    BY <1>3, Emission DEF News
  <2>2. \A a \in News' \cup Emitted' : Told(a, lifecycles')
    BY <2>1 DEF TaleInv
  <2> QED
    BY <2>2 DEF TaleInv
<1>4. CASE Shutdown \/ Crash
  BY <1>4, Ended DEF TaleInv
<1>5. CASE \/ (\E alert \in Emitted : Enqueue(alert))
           \/ (\E alert \in Pending : DeliverEntry(alert))
           \/ Start \/ UNCHANGED pipelineVars
  BY <1>1, <1>5 DEF Enqueue, DeliverEntry, Start, pipelineVars
<1> QED
  BY <1>2, <1>3, <1>4, <1>5 DEF PipelineNext

LEMMA TalesAreAlertsAreTrue ==
    ASSUME LifecycleInv, TaleInv
    PROVE  AlertsAreTrue
<1>1. ASSUME NEW a \in Emitted
      PROVE  /\ a \in Alert /\ a.instance \in DOMAIN lifecycles[a.setup]
             /\ Sound(lifecycles[a.setup][a.instance])
             /\ Tale(a.kind, a.observation, lifecycles[a.setup][a.instance])
  BY DEF TaleInv, Told, Alert, LifecycleInv, AllOrderly, Orderly
<1>2. ASSUME NEW a \in Emitted, NEW b \in Emitted,
             a.setup = b.setup, a.instance = b.instance, a # b
      PROVE  a.kind # b.kind /\ {a.kind, b.kind} # Terminal
  <2> DEFINE l == lifecycles[a.setup][a.instance]
  <2>1. /\ a \in Alert /\ b \in Alert /\ Sound(l)
        /\ Tale(a.kind, a.observation, l) /\ Tale(b.kind, b.observation, l)
    BY <1>1, <1>2
  <2>2. a.kind # b.kind
    <3> SUFFICES ASSUME a.kind = b.kind PROVE FALSE
      OBVIOUS
    <3>1. a.observation = b.observation
      BY <2>1, TalesAgree DEF Alert
    <3> QED
      BY <1>2, <2>1, <3>1 DEF Alert
  <2>3. a.kind \in Terminal /\ b.kind \in Terminal => a.kind = b.kind
    BY <2>1 DEF Tale
  <2>4. {a.kind, b.kind} # Terminal
    BY <2>2, <2>3 DEF Terminal
  <2> QED
    BY <2>2, <2>4
<1>3. ASSUME NEW a \in Emitted
      PROVE  LET l == lifecycles[a.setup][a.instance] IN
                /\ a.instance \in DOMAIN lifecycles[a.setup]
                /\ a.kind \in Terminal =>
                      l.state = a.kind /\ l.observations[Len(l.observations)] = a.observation
                /\ a.kind = "CONFIRMED" => Qualified(l.observations)
  BY <1>1 DEF Tale, Qualified, Confirming
<1> QED
  BY <1>2, <1>3 DEF AlertsAreTrue

-----------------------------------------------------------------------------
(* The pipeline *)

PipelineInv == LifecycleInv /\ RunInv /\ AlertsInv /\ SentInv /\ TaleInv

LEMMA PipelineStart == PipelineInit => PipelineInv
<1> SUFFICES ASSUME PipelineInit PROVE PipelineInv
  OBVIOUS
<1>1. /\ AllOrderly(lifecycles) /\ RecordedCount = 0
  BY NothingRecorded, Counted DEF PipelineInit, Init
<1>2. /\ News = {} /\ Emitted = {} /\ Pending = {} /\ outbox = EmptyOutbox
      /\ observed = {} /\ file = NoFile /\ DOMAIN sent = {} /\ resent = {}
      /\ run = [number |-> 1, state |-> "UP", recorded |-> 0]
  BY DEF PipelineInit, Emitted, Pending, EmptyOutbox, News
<1>3. RunInv
  BY <1>1, <1>2, LifecycleAssumption, PipelineAssumption DEF RunInv
<1>4. OutboxShape
  BY <1>2 DEF OutboxShape, EmptyOutbox
<1>5. AlertsInv
  BY <1>2, <1>4 DEF AlertsInv, EmptyOutbox, NoFile
<1> QED
  BY <1>1, <1>2, <1>3, <1>5 DEF PipelineInv, LifecycleInv, SentInv, TaleInv

LEMMA PipelineInvariant == PipelineSpec => []PipelineInv
<1>1. PipelineInv /\ [PipelineNext]_pipelineVars => PipelineInv'
  BY LifecycleSteps, RunStep, AlertsStep, SentStep, TaleStep DEF PipelineInv
<1> QED
  BY <1>1, PipelineStart, PTL DEF PipelineSpec

\* Alerts, outbox, file and run keep their types, and the runs of the process
\* record no more together than the bound says.
THEOREM PipelineTypeCorrect == PipelineSpec => []PipelineTypeOK
<1>1. PipelineInv => PipelineTypeOK
  <2> SUFFICES ASSUME PipelineInv PROVE PipelineTypeOK
    OBVIOUS
  <2>1. TypeOK
    BY DEF PipelineInv, LifecycleInv, AllOrderly, Orderly, Sound, TypeOK
  <2>2. \A alert \in (UNION cycles) \cup Emitted \cup Pending \cup outbox.delivered \cup outbox.failed
                        \cup observed \cup file.ids \cup DOMAIN sent \cup resent : alert \in Alert
    BY DEF PipelineInv, AlertsInv, News
  <2> QED
    BY <2>1, <2>2 DEF PipelineInv, AlertsInv, OutboxShape, RunInv, PipelineTypeOK, Alert
<1> QED
  BY <1>1, PipelineInvariant, PTL

\* A run of the process sends an alert a second time only when a channel had sent
\* it and raised.
THEOREM AlertsSentOnce == PipelineSpec => []AlertOnce
<1>1. PipelineInv => AlertOnce
  BY DEF PipelineInv, SentInv, AlertsInv, AlertOnce
<1> QED
  BY <1>1, PipelineInvariant, PTL

\* What the user was told of an instance is so, and is told once for each state.
THEOREM AlertsTold == PipelineSpec => []AlertsAreTrue
<1>1. PipelineInv => AlertsAreTrue
  BY TalesAreAlertsAreTrue DEF PipelineInv
<1> QED
  BY <1>1, PipelineInvariant, PTL
=============================================================================
