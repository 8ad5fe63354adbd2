-------------------------- MODULE SetupLifecycle_proofs --------------------------
(***************************************************************************)
(* Proofs about SetupLifecycle, for any setups, any order of the ids and   *)
(* any number of absences: types, one active instance a setup, histories   *)
(* that say their states and are never rewritten, harmless replays.        *)
(***************************************************************************)
EXTENDS SetupLifecycle, SequenceTheorems, FiniteSetTheorems, TLAPS

(* One observation more *)

LEMMA ObservationTyped ==
    ASSUME NEW s \in Setups, NEW assessment \in Assessments
    PROVE  Observation(s, assessment) \in Observations
BY DEF Observation, Observations, Assessments, Bearing, Bearings

LEMMA ObservedSetup ==
    ASSUME NEW s \in Setups, NEW assessment \in Assessments,
           Observation(s, assessment).status = "OBSERVED"
    PROVE  assessment.verdict.setup = s /\ assessment.verdict.says \in {"qualified", "candidate"}
<1>1. s # NoSetup
  BY LifecycleAssumption DEF NoSetup, Directions
<1> QED
  BY <1>1 DEF Observation, Bearing, Assessments, Verdicts

\* What a history is made of, one observation longer.
LEMMA Longer ==
    ASSUME NEW S, NEW seen \in Seq(S), NEW x \in S
    PROVE  LET more == Append(seen, x)  n == Len(seen) IN
              /\ n \in Nat /\ DOMAIN seen = 1..n /\ DOMAIN more = 1..n + 1
              /\ Len(more) = n + 1 /\ more \in Seq(S) /\ more # <<>>
              /\ \A i \in 1..n : more[i] = seen[i]
              /\ more[n + 1] = x
BY AppendProperties, LenProperties

LEMMA LooksFinite ==
    ASSUME NEW seen \in Seq(Observations)
    PROVE  IsFiniteSet(Misses(seen)) /\ Misses(seen) \subseteq 1..Len(seen)
<1>1. Len(seen) \in Nat /\ Misses(seen) \subseteq 1..Len(seen)
  BY LenProperties DEF Misses, Looks
<1>2. IsFiniteSet(1..Len(seen))
  BY <1>1, FS_Interval
<1> QED
  BY <1>1, <1>2, FS_Subset

\* A sighting ends the misses, an absence is one more, a gap is none.
LEMMA MissesCounted ==
    ASSUME NEW seen \in Seq(Observations), NEW x \in Observations
    PROVE  LET more == Append(seen, x) IN
              /\ x.status = "OBSERVED" => Cardinality(Misses(more)) = 0
              /\ x.status = "ABSENT" => Cardinality(Misses(more)) = Cardinality(Misses(seen)) + 1
              /\ x.status = "DATA_UNAVAILABLE" => Cardinality(Misses(more)) = Cardinality(Misses(seen))
<1> DEFINE more == Append(seen, x)
           n == Len(seen)
<1>1. /\ n \in Nat /\ DOMAIN seen = 1..n /\ DOMAIN more = 1..n + 1
      /\ \A i \in 1..n : more[i] = seen[i]
      /\ more[n + 1] = x
  BY Longer
<1> HIDE DEF more, n
<1>2. CASE x.status = "OBSERVED"
  <2>1. Misses(more) = {}
    BY <1>1, <1>2 DEF Misses, Looks
  <2> QED
    BY <1>2, <2>1, FS_EmptySet DEF more
<1>3. CASE x.status = "ABSENT"
  <2>1. Misses(more) = Misses(seen) \cup {n + 1}
    BY <1>1, <1>3 DEF Misses, Looks
  <2>2. n + 1 \notin Misses(seen)
    BY <1>1 DEF Misses, Looks
  <2> QED
    BY <1>3, <2>1, <2>2, LooksFinite, FS_AddElement DEF more
<1>4. CASE x.status = "DATA_UNAVAILABLE"
  <2>1. Misses(more) = Misses(seen)
    BY <1>1, <1>4 DEF Misses, Looks
  <2> QED
    BY <1>4, <2>1 DEF more
<1> QED
  BY <1>2, <1>3, <1>4 DEF more

LEMMA QualifiedLonger ==
    ASSUME NEW seen \in Seq(Observations), NEW x \in Observations
    PROVE  Qualified(Append(seen, x)) <=>
              Qualified(seen) \/ (x.status = "OBSERVED" /\ x.verdict.says = "qualified")
<1> DEFINE more == Append(seen, x)
           n == Len(seen)
<1>1. /\ n \in Nat /\ DOMAIN seen = 1..n /\ DOMAIN more = 1..n + 1
      /\ \A i \in 1..n : more[i] = seen[i]
      /\ more[n + 1] = x
  BY Longer
<1> HIDE DEF more, n
<1>2. Qualified(more) <=> Qualified(seen) \/ (x.status = "OBSERVED" /\ x.verdict.says = "qualified")
  <2>1. 1..n + 1 = 1..n \cup {n + 1}
    BY <1>1
  <2> QED
    BY <1>1, <2>1 DEF Qualified
<1> QED
  BY <1>2 DEF more

-----------------------------------------------------------------------------
(* One lifecycle *)

\* A lifecycle that is well formed and says of itself what its history says.
Sound(l) == l \in Lifecycles /\ l.observations # <<>> /\ Tells(l)

LEMMA SoundParts ==
    ASSUME NEW l, Sound(l)
    PROVE  /\ l.state \in Active \cup Terminal /\ l.missing \in 0..MaxMissing
           /\ l.observations \in Seq(Observations) /\ Len(l.observations) \in Nat \ {0}
           /\ DOMAIN l.observations = 1..Len(l.observations)
           /\ LastSeen(l) \in 1..MaxTime
           /\ \A i \in 1..Len(l.observations) :
                 l.observations[i] \in Observations /\ l.observations[i].at <= LastSeen(l)
<1>1. /\ l.state \in Active \cup Terminal /\ l.missing \in 0..MaxMissing
      /\ l.observations \in Seq(Observations) /\ l.observations # <<>>
  BY DEF Sound, Lifecycles
<1>2. /\ Len(l.observations) \in Nat \ {0} /\ DOMAIN l.observations = 1..Len(l.observations)
      /\ \A i \in 1..Len(l.observations) : l.observations[i] \in Observations
  BY <1>1, EmptySeq, LenProperties, ElementOfSeq
<1>3. \A i \in 1..Len(l.observations) : l.observations[i].at \in 1..MaxTime
  BY <1>2 DEF Observations
<1>4. \A i \in 1..Len(l.observations) : i < Len(l.observations) => l.observations[i].at < LastSeen(l)
  BY <1>2 DEF Sound, Tells, LastSeen
<1>5. Len(l.observations) \in 1..Len(l.observations) /\ LastSeen(l) \in 1..MaxTime
  BY <1>2, <1>3 DEF LastSeen
<1>6. \A i \in 1..Len(l.observations) : l.observations[i].at <= LastSeen(l)
  <2> SUFFICES ASSUME NEW i \in 1..Len(l.observations) PROVE l.observations[i].at <= LastSeen(l)
    OBVIOUS
  <2>1. CASE i = Len(l.observations)
    BY <1>5, <2>1 DEF LastSeen
  <2>2. CASE i < Len(l.observations)
    BY <1>3, <1>4, <1>5, <2>2, LifecycleAssumption
  <2> QED
    BY <1>2, <2>1, <2>2
<1> QED
  BY <1>1, <1>2, <1>5, <1>6

LEMMA TellsIntro ==
    ASSUME NEW l, NEW n, DOMAIN l.observations = 1..n, Len(l.observations) = n,
           \A i, j \in 1..n : i < j => l.observations[i].at < l.observations[j].at,
           \A i \in 1..n : (l.observations[i].status = "SUPERSEDED") <=>
                             (i = n /\ l.state = "INVALIDATED"),
           l.state # "INVALIDATED" => Cardinality(Misses(l.observations)) = l.missing,
           l.state # "INVALIDATED" => ((l.state = "EXPIRED") <=> (l.missing = MaxMissing)),
           l.state \in Active => ((l.state = "CONFIRMED") <=> Qualified(l.observations))
    PROVE  Tells(l)
<1>1. \A i \in 1..n : (l.observations[i].status = "SUPERSEDED") =
                         (i = n /\ l.state = "INVALIDATED")
  OBVIOUS
<1>2. l.state # "INVALIDATED" => ((l.state = "EXPIRED") = (l.missing = MaxMissing))
  OBVIOUS
<1>3. l.state \in Active => ((l.state = "CONFIRMED") = Qualified(l.observations))
  BY DEF Qualified
<1> QED
  BY <1>1, <1>2, <1>3, Zenon DEF Tells

\* The first observation of an instance.
LEMMA NewSound ==
    ASSUME NEW seen \in Observations, seen.status = "OBSERVED"
    PROVE  Sound(NewLifecycle(seen)) /\ NewLifecycle(seen).state \in Active
<1> DEFINE l == NewLifecycle(seen)
<1>1. /\ l.observations = <<seen>> /\ l.missing = 0 /\ l.observations \in Seq(Observations)
      /\ l.state = IF seen.verdict.says = "qualified" THEN "CONFIRMED" ELSE "DETECTED"
  BY DEF NewLifecycle
<1>2. l \in Lifecycles
  BY <1>1, LifecycleAssumption DEF Lifecycles, NewLifecycle, Active
<1>3. DOMAIN l.observations = {1} /\ Len(l.observations) = 1 /\ l.observations[1] = seen
  BY <1>1
<1> HIDE DEF l
<1>4. Misses(l.observations) = {}
  BY <1>3 DEF Misses, Looks
<1>5. Qualified(l.observations) <=> seen.verdict.says = "qualified"
  BY <1>3 DEF Qualified
<1>6. Tells(l)
  <2>1. Cardinality(Misses(l.observations)) = 0 /\ 0 # MaxMissing
    BY <1>4, FS_EmptySet, LifecycleAssumption
  <2>2. l.state \in {"CONFIRMED", "DETECTED"}
    BY <1>1
  <2>3. DOMAIN l.observations = 1..1 /\ \A i \in 1..1 : l.observations[i].status = "OBSERVED"
    BY <1>3
  <2>4. /\ \A i, j \in 1..1 : i < j => l.observations[i].at < l.observations[j].at
        /\ \A i \in 1..1 : (l.observations[i].status = "SUPERSEDED") <=>
                             (i = 1 /\ l.state = "INVALIDATED")
    BY <2>2, <2>3
  <2>5. (l.state = "CONFIRMED") <=> Qualified(l.observations)
    BY <1>1, <1>5
  <2> QED
    BY <1>1, <1>3, <2>1, <2>2, <2>3, <2>4, <2>5, TellsIntro
<1> QED
  BY <1>1, <1>2, <1>6, <1>3 DEF Sound, l, Active

\* An active lifecycle that takes a newer observation.
LEMMA TakingSound ==
    ASSUME NEW l, Sound(l), l.state \in Active,
           NEW seen \in Observations, seen.at > LastSeen(l)
    PROVE  Sound([state |-> Arrival(l, seen), missing |-> Missing(l, seen),
                  observations |-> Append(l.observations, seen)])
<1> DEFINE more == Append(l.observations, seen)
           n == Len(l.observations)
           next == [state |-> Arrival(l, seen), missing |-> Missing(l, seen), observations |-> more]
<1>1. /\ n \in Nat \ {0} /\ DOMAIN more = 1..n + 1 /\ Len(more) = n + 1
      /\ more \in Seq(Observations) /\ more # <<>>
      /\ \A i \in 1..n : more[i] = l.observations[i]
      /\ more[n + 1] = seen
  BY SoundParts, Longer
<1>2. /\ l.state \in {"DETECTED", "CONFIRMED"} /\ l.missing \in 0..MaxMissing
      /\ MaxMissing \in Nat \ {0} /\ seen.at \in Nat
      /\ seen.status \in {"OBSERVED", "ABSENT", "SUPERSEDED", "DATA_UNAVAILABLE"}
  BY SoundParts, LifecycleAssumption DEF Active, Observations, Bearings
<1>3. /\ \A i, j \in 1..n : i < j => l.observations[i].at < l.observations[j].at
      /\ \A i \in 1..n : l.observations[i].at < seen.at
      /\ \A i \in 1..n : l.observations[i].status # "SUPERSEDED"
      /\ Cardinality(Misses(l.observations)) = l.missing
      /\ l.missing < MaxMissing
      /\ (l.state = "CONFIRMED") <=> Qualified(l.observations)
  <2>1. DOMAIN l.observations = 1..n
    BY SoundParts
  <2>2. l.observations \in Seq(Observations)
    BY SoundParts
  <2>3. \A i \in 1..n : l.observations[i].at <= LastSeen(l) /\ l.observations[i].at \in Nat
    BY SoundParts DEF Observations
  <2>4. LastSeen(l) \in Nat
    BY SoundParts
  <2>5. \A i \in 1..n : l.observations[i].at < seen.at
    BY <1>2, <2>3, <2>4
  <2>6. l.state # "INVALIDATED" /\ l.state # "EXPIRED" /\ l.state \in Active /\ Tells(l)
    BY <1>2 DEF Sound
  <2>7. /\ \A i, j \in 1..n : i < j => l.observations[i].at < l.observations[j].at
        /\ \A i \in 1..n : l.observations[i].status # "SUPERSEDED"
    BY <2>1, <2>6 DEF Tells
  <2>8. Cardinality(Misses(l.observations)) = l.missing /\ l.missing # MaxMissing
    BY <2>6 DEF Tells
  <2>9. (l.state = "CONFIRMED") <=> Qualified(l.observations)
    BY <2>6 DEF Tells
  <2> QED
    BY <1>2, <2>5, <2>7, <2>8, <2>9
<1>4. /\ seen.status = "OBSERVED" => Cardinality(Misses(more)) = 0
      /\ seen.status = "ABSENT" => Cardinality(Misses(more)) = l.missing + 1
      /\ seen.status = "DATA_UNAVAILABLE" => Cardinality(Misses(more)) = l.missing
  BY <1>3, MissesCounted, SoundParts
<1>5. Qualified(more) <=> Qualified(l.observations)
                             \/ (seen.status = "OBSERVED" /\ seen.verdict.says = "qualified")
  BY QualifiedLonger, SoundParts
<1> HIDE DEF more, n
<1>6. /\ next.state \in Active \cup Terminal
      /\ next.missing \in 0..MaxMissing
      /\ (next.state = "INVALIDATED") <=> (seen.status = "SUPERSEDED")
      /\ next.state # "INVALIDATED" =>
            /\ Cardinality(Misses(more)) = next.missing
            /\ (next.state = "EXPIRED") <=> (next.missing = MaxMissing)
      /\ next.state \in Active => ((next.state = "CONFIRMED") <=> Qualified(more))
  BY <1>2, <1>3, <1>4, <1>5 DEF Arrival, Missing, Active, Terminal
<1>7. /\ next.observations = more /\ next \in Lifecycles
  BY <1>1, <1>6 DEF Lifecycles
<1> HIDE DEF next
<1>8. \A i, j \in 1..n + 1 : i < j => more[i].at < more[j].at
  <2> SUFFICES ASSUME NEW i \in 1..n + 1, NEW j \in 1..n + 1, i < j
               PROVE  more[i].at < more[j].at
    OBVIOUS
  <2>1. i \in 1..n /\ (j \in 1..n \/ j = n + 1)
    BY <1>1
  <2> QED
    BY <1>1, <1>3, <2>1
<1>9. \A i \in 1..n + 1 :
         (more[i].status = "SUPERSEDED") <=> (i = n + 1 /\ next.state = "INVALIDATED")
  BY <1>1, <1>3, <1>6
<1>10. Tells(next)
  BY <1>1, <1>6, <1>7, <1>8, <1>9, TellsIntro
<1> QED
  BY <1>1, <1>7, <1>10 DEF Sound, next, more

\* _advance: a lifecycle that does not refuse an observation takes it soundly, or
\* stays as it is.
LEMMA AdvanceSound ==
    ASSUME NEW l, Sound(l), NEW seen \in Observations, ~Refuses(l, seen)
    PROVE  Sound(Advance(l, seen))
<1>1. CASE l.state \in Terminal \/ seen.at < LastSeen(l) \/ Recorded(l, seen)
  BY <1>1 DEF Advance
<1>2. CASE ~(l.state \in Terminal \/ seen.at < LastSeen(l) \/ Recorded(l, seen))
  <2>1. l.state \in Active /\ LastSeen(l) \in Nat /\ seen.at \in Nat
    BY <1>2, SoundParts DEF Observations
  <2>2. seen.at > LastSeen(l)
    BY <1>2, <2>1 DEF Refuses
  <2> QED
    BY <1>2, <2>1, <2>2, TakingSound DEF Advance
<1> QED
  BY <1>1, <1>2

\* Once is as good as twice.
LEMMA AdvanceAgain ==
    ASSUME NEW l, Sound(l), NEW seen \in Observations
    PROVE  Advance(Advance(l, seen), seen) = Advance(l, seen)
<1>1. CASE l.state \in Terminal \/ seen.at < LastSeen(l) \/ Recorded(l, seen)
  BY <1>1 DEF Advance
<1>2. CASE ~(l.state \in Terminal \/ seen.at < LastSeen(l) \/ Recorded(l, seen))
  <2> DEFINE next == [state |-> Arrival(l, seen), missing |-> Missing(l, seen),
                      observations |-> Append(l.observations, seen)]
             n == Len(l.observations)
  <2>1. Advance(l, seen) = next
    BY <1>2 DEF Advance
  <2>2. n \in Nat /\ DOMAIN next.observations = 1..n + 1 /\ next.observations[n + 1] = seen
    BY SoundParts, Longer
  <2>3. Recorded(next, seen)
    BY <2>2 DEF Recorded
  <2> HIDE DEF next
  <2>4. Advance(next, seen) = next
    BY <2>3 DEF Advance
  <2> QED
    BY <2>1, <2>4
<1> QED
  BY <1>1, <1>2

\* What is over stays, and a history is only continued.
LEMMA AdvanceKeeps ==
    ASSUME NEW l, Sound(l), NEW seen \in Observations
    PROVE  /\ l.state \in Terminal => Advance(l, seen) = l
           /\ \A n \in DOMAIN l.observations :
                 /\ n \in DOMAIN Advance(l, seen).observations
                 /\ Advance(l, seen).observations[n] = l.observations[n]
           /\ \/ Advance(l, seen) = l
              \/ /\ Advance(l, seen).state = Arrival(l, seen)
                 /\ Advance(l, seen).observations = Append(l.observations, seen)
<1>1. CASE l.state \in Terminal \/ seen.at < LastSeen(l) \/ Recorded(l, seen)
  BY <1>1 DEF Advance
<1>2. CASE ~(l.state \in Terminal \/ seen.at < LastSeen(l) \/ Recorded(l, seen))
  <2>1. Advance(l, seen) = [state |-> Arrival(l, seen), missing |-> Missing(l, seen),
                            observations |-> Append(l.observations, seen)]
    BY <1>2 DEF Advance
  <2>2. /\ Len(l.observations) \in Nat /\ DOMAIN l.observations = 1..Len(l.observations)
        /\ DOMAIN Append(l.observations, seen) = 1..Len(l.observations) + 1
        /\ \A i \in 1..Len(l.observations) : Append(l.observations, seen)[i] = l.observations[i]
    BY SoundParts, Longer
  <2> QED
    BY <1>2, <2>1, <2>2
<1> QED
  BY <1>1, <1>2

-----------------------------------------------------------------------------
(* The instances of a setup *)

\* One after another, all over but the last.
Orderly(instances) ==
    /\ instances \in Seq(Lifecycles)
    /\ \A k \in DOMAIN instances : Sound(instances[k])
    /\ \A k \in DOMAIN instances : k < Len(instances) => instances[k].state \in Terminal

AllOrderly(all) == all = [s \in Setups |-> all[s]] /\ \A s \in Setups : Orderly(all[s])

LifecycleInv == AllOrderly(lifecycles)

\* What an assessment leaves of a setup's instances.
LEMMA AfterOf ==
    ASSUME NEW all, NEW assessment, NEW s \in Setups
    PROVE  LET seen == Observation(s, assessment) IN
              /\ seen.status = "OBSERVED" /\ ~HasActive(all[s]) =>
                    After(all, assessment)[s] = Append(all[s], NewLifecycle(seen))
              /\ ~(seen.status = "OBSERVED" /\ ~HasActive(all[s])) =>
                    /\ After(all, assessment)[s] =
                          [k \in DOMAIN all[s] |-> After(all, assessment)[s][k]]
                    /\ \A k \in DOMAIN all[s] :
                          \/ After(all, assessment)[s][k] = all[s][k]
                          \/ /\ ~Refuses(all[s][k], seen)
                             /\ After(all, assessment)[s][k] = Advance(all[s][k], seen)
<1>1. \A k \in DOMAIN all[s] : <<s, k>> \notin Refusing(all, assessment) =>
         ~Refuses(all[s][k], Observation(s, assessment))
  BY DEF Refusing, InstancesOf
<1> QED
  BY <1>1 DEF After

\* A sequence that is worked out place by place.
LEMMA PlaceByPlace ==
    ASSUME NEW S, NEW seq \in Seq(S), NEW next, next = [k \in DOMAIN seq |-> next[k]],
           \A k \in DOMAIN seq : next[k] \in S
    PROVE  next \in Seq(S) /\ Len(next) = Len(seq) /\ DOMAIN next = DOMAIN seq
<1>1. Len(seq) \in Nat /\ DOMAIN seq = 1..Len(seq)
  BY LenProperties
<1>2. next \in [1..Len(seq) -> S]
  BY <1>1
<1>3. next \in Seq(S)
  BY <1>1, <1>2, SeqDef
<1>4. DOMAIN next = 1..Len(seq) /\ DOMAIN next = 1..Len(next) /\ Len(next) \in Nat
  BY <1>2, <1>3, LenProperties
<1> QED
  BY <1>1, <1>3, <1>4

LEMMA AfterOrderly ==
    ASSUME NEW all, AllOrderly(all), NEW assessment \in Assessments, NEW s \in Setups
    PROVE  Orderly(After(all, assessment)[s])
<1> DEFINE seen == Observation(s, assessment)
           before == all[s]
           after == After(all, assessment)[s]
<1>1. /\ before \in Seq(Lifecycles) /\ seen \in Observations
      /\ Len(before) \in Nat /\ DOMAIN before = 1..Len(before)
      /\ \A k \in DOMAIN before : Sound(before[k])
      /\ \A k \in DOMAIN before : k < Len(before) => before[k].state \in Terminal
  BY ObservationTyped, LenProperties DEF AllOrderly, Orderly
<1>2. CASE seen.status = "OBSERVED" /\ ~HasActive(before)
  <2>1. after = Append(before, NewLifecycle(seen))
    BY <1>2, AfterOf
  <2>2. Sound(NewLifecycle(seen)) /\ NewLifecycle(seen) \in Lifecycles
    BY <1>1, <1>2, NewSound DEF Sound
  <2>3. \A k \in DOMAIN before : before[k].state \in Terminal
    BY <1>1, <1>2, SoundParts DEF HasActive
  <2>4. /\ after \in Seq(Lifecycles) /\ DOMAIN after = 1..Len(before) + 1
        /\ Len(after) = Len(before) + 1
        /\ \A k \in 1..Len(before) : after[k] = before[k]
        /\ after[Len(before) + 1] = NewLifecycle(seen)
    BY <1>1, <2>1, <2>2, Longer
  <2> HIDE DEF after, before
  <2>5. \A k \in DOMAIN after : Sound(after[k])
    BY <1>1, <2>2, <2>4
  <2>6. \A k \in DOMAIN after : k < Len(after) => after[k].state \in Terminal
    BY <1>1, <2>3, <2>4
  <2>7. Orderly(after)
    BY <2>4, <2>5, <2>6 DEF Orderly
  <2> QED
    BY <2>7 DEF after
<1>3. CASE ~(seen.status = "OBSERVED" /\ ~HasActive(before))
  <2>1. /\ after = [k \in DOMAIN before |-> after[k]]
        /\ \A k \in DOMAIN before :
              \/ after[k] = before[k]
              \/ ~Refuses(before[k], seen) /\ after[k] = Advance(before[k], seen)
    BY <1>3, AfterOf
  <2>2. \A k \in DOMAIN before :
           Sound(after[k]) /\ (before[k].state \in Terminal => after[k].state \in Terminal)
    <3> HIDE DEF after, before, seen
    <3> QED
      BY <1>1, <2>1, AdvanceSound, AdvanceKeeps
  <2>3. after \in Seq(Lifecycles) /\ Len(after) = Len(before) /\ DOMAIN after = DOMAIN before
    <3> HIDE DEF after, before
    <3>1. \A k \in DOMAIN before : after[k] \in Lifecycles
      BY <2>2 DEF Sound
    <3> QED
      BY <1>1, <2>1, <3>1, PlaceByPlace
  <2> QED
    BY <1>1, <2>2, <2>3 DEF Orderly
<1> QED
  BY <1>2, <1>3

ReachedBy(all, assessment, i) ==
    /\ i \notin Refusing(all, assessment)
    /\ \A j \in Refusing(all, assessment) : Before(i, j, assessment.verdict)

LEMMA AfterPlace ==
    ASSUME NEW all, NEW assessment, NEW s \in Setups, NEW k \in DOMAIN all[s],
           ~(Observation(s, assessment).status = "OBSERVED" /\ ~HasActive(all[s]))
    PROVE  After(all, assessment)[s][k] =
              IF ReachedBy(all, assessment, <<s, k>>)
              THEN Advance(all[s][k], Observation(s, assessment)) ELSE all[s][k]
BY DEF After, ReachedBy

\* No instance goes, and what becomes of one is what the observation makes of it.
LEMMA AfterStays ==
    ASSUME NEW all, AllOrderly(all), NEW assessment \in Assessments,
           NEW s \in Setups, NEW k \in DOMAIN all[s]
    PROVE  /\ k \in DOMAIN After(all, assessment)[s]
           /\ \/ After(all, assessment)[s][k] = all[s][k]
              \/ After(all, assessment)[s][k] = Advance(all[s][k], Observation(s, assessment))
<1> DEFINE seen == Observation(s, assessment)
           after == After(all, assessment)[s]
<1>1. all[s] \in Seq(Lifecycles) /\ seen \in Observations
  BY ObservationTyped DEF AllOrderly, Orderly
<1>2. CASE seen.status = "OBSERVED" /\ ~HasActive(all[s])
  <2>1. after = Append(all[s], NewLifecycle(seen))
    BY <1>2, AfterOf
  <2>2. NewLifecycle(seen) \in Lifecycles
    BY <1>1, <1>2, NewSound DEF Sound
  <2>3. /\ DOMAIN all[s] = 1..Len(all[s]) /\ Len(all[s]) \in Nat
        /\ DOMAIN after = 1..Len(all[s]) + 1
        /\ \A i \in 1..Len(all[s]) : after[i] = all[s][i]
    BY <1>1, <2>1, <2>2, Longer
  <2> HIDE DEF after
  <2>4. k \in DOMAIN after /\ after[k] = all[s][k]
    BY <2>3
  <2> QED
    BY <2>4 DEF after
<1>3. CASE ~(seen.status = "OBSERVED" /\ ~HasActive(all[s]))
  <2>1. after = [m \in DOMAIN all[s] |-> after[m]]
    BY <1>3, AfterOf
  <2>2. after[k] = all[s][k] \/ after[k] = Advance(all[s][k], seen)
    BY <1>3, AfterPlace
  <2> HIDE DEF after
  <2>3. k \in DOMAIN after
    BY <2>1
  <2> QED
    BY <2>2, <2>3 DEF after
<1> QED
  BY <1>2, <1>3

LEMMA OrderlyStep ==
    ASSUME LifecycleInv, [Next]_lifecycles
    PROVE  LifecycleInv'
<1> SUFFICES AllOrderly(lifecycles')
  BY DEF LifecycleInv
<1>0. AllOrderly(lifecycles)
  BY DEF LifecycleInv
<1>1. CASE UNCHANGED lifecycles
  BY <1>0, <1>1
<1>2. ASSUME NEW assessment \in Assessments, ProcessSymbol(assessment)
      PROVE  AllOrderly(lifecycles')
  <2>1. lifecycles' = After(lifecycles, assessment)
    BY <1>2 DEF ProcessSymbol
  <2>2. lifecycles' = [s \in Setups |-> lifecycles'[s]]
    BY <2>1 DEF After
  <2> QED
    BY <1>0, <2>1, <2>2, AfterOrderly DEF AllOrderly
<1> QED
  BY <1>1, <1>2 DEF Next

LEMMA LifecycleInvariant == Spec => []LifecycleInv
<1>1. Init => LifecycleInv
  <2> SUFFICES ASSUME Init, NEW s \in Setups PROVE Orderly(lifecycles[s])
    BY DEF AllOrderly, Init, LifecycleInv
  <2>1. lifecycles[s] = <<>> /\ DOMAIN lifecycles[s] = {}
    BY DEF Init
  <2> QED
    BY <2>1, EmptySeq DEF Orderly
<1> QED
  BY <1>1, OrderlyStep, PTL DEF Spec

-----------------------------------------------------------------------------
(* What follows *)

\* The instances of each setup are sequences of lifecycles with a history.
THEOREM LifecycleTypeCorrect == Spec => []TypeOK
<1>1. LifecycleInv => TypeOK
  BY DEF LifecycleInv, AllOrderly, Orderly, Sound, TypeOK
<1> QED
  BY <1>1, LifecycleInvariant, PTL

\* All the instances of a setup but the last are over.
THEOREM OneActiveInstance == Spec => []OneActive
<1>1. LifecycleInv => OneActive
  BY DEF LifecycleInv, AllOrderly, Orderly, OneActive
<1> QED
  BY <1>1, LifecycleInvariant, PTL

\* A lifecycle is what its recorded observations say, whatever came late, twice or
\* against the others.
THEOREM HistoriesSayStates == Spec => []HistorySaysState
<1>1. LifecycleInv => HistorySaysState
  BY DEF LifecycleInv, AllOrderly, Orderly, Sound, HistorySaysState, Instances, InstancesOf, At
<1> QED
  BY <1>1, LifecycleInvariant, PTL

\* No step rewrites a history, drops an instance or touches one that is over.
THEOREM HistoriesFrozen == Spec => HistoryFrozen
<1> DEFINE Frozen ==
      \A s \in Setups : \A k \in DOMAIN lifecycles[s] :
          LET before == lifecycles[s][k]  after == lifecycles'[s][k]
          IN  /\ k \in DOMAIN lifecycles'[s]
              /\ before.state \in Terminal => after = before
              /\ \A n \in DOMAIN before.observations :
                    /\ n \in DOMAIN after.observations
                    /\ after.observations[n] = before.observations[n]
<1>1. LifecycleInv /\ [Next]_lifecycles => [Frozen]_lifecycles
  <2> SUFFICES ASSUME LifecycleInv, Next PROVE Frozen
    OBVIOUS
  <2>1. PICK assessment \in Assessments : lifecycles' = After(lifecycles, assessment)
    BY DEF Next, ProcessSymbol
  <2>2. ASSUME NEW s \in Setups, NEW k \in DOMAIN lifecycles[s]
        PROVE  /\ k \in DOMAIN lifecycles'[s]
               /\ \/ lifecycles'[s][k] = lifecycles[s][k]
                  \/ lifecycles'[s][k] = Advance(lifecycles[s][k], Observation(s, assessment))
    BY <2>1, AfterStays DEF LifecycleInv
  <2>3. \A s \in Setups : \A k \in DOMAIN lifecycles[s] : Sound(lifecycles[s][k])
    BY DEF LifecycleInv, AllOrderly, Orderly
  <2> QED
    BY <2>2, <2>3, AdvanceKeeps, ObservationTyped
<1> QED
  BY <1>1, LifecycleInvariant, PTL DEF Spec, HistoryFrozen

-----------------------------------------------------------------------------
(* Replays *)

LEMMA SightingKeepsActive ==
    ASSUME NEW l, Sound(l), l.state \in Active,
           NEW seen \in Observations, seen.status = "OBSERVED"
    PROVE  Advance(l, seen).state \in Active
<1>1. Arrival(l, seen) \in Active
  BY DEF Arrival, Active
<1> QED
  BY <1>1, AdvanceKeeps

\* What refused an assessment still does.
LEMMA RefusedAgain ==
    ASSUME NEW all, AllOrderly(all), NEW assessment \in Assessments
    PROVE  Refusing(all, assessment) \subseteq Refusing(After(all, assessment), assessment)
<1> DEFINE once == After(all, assessment)
<1> SUFFICES ASSUME NEW i \in Refusing(all, assessment) PROVE i \in Refusing(once, assessment)
  OBVIOUS
<1>0. PICK s \in Setups : \E k \in DOMAIN all[s] : i = <<s, k>>
  BY DEF Refusing, InstancesOf
<1>1. PICK k \in DOMAIN all[s] : i = <<s, k>>
  BY <1>0
<1>2. Refuses(all[s][k], Observation(s, assessment))
  BY <1>1 DEF Refusing
<1>3. HasActive(all[s])
  BY <1>2 DEF HasActive, Refuses
<1>4. once[s] = [m \in DOMAIN all[s] |-> once[s][m]] /\ once[s][k] = all[s][k]
  BY <1>1, <1>3, AfterOf, AfterPlace DEF ReachedBy
<1>5. k \in DOMAIN once[s] /\ <<s, k>> \in InstancesOf(once)
  <2>1. k \in DOMAIN once[s]
    BY <1>4
  <2> QED
    BY <2>1 DEF InstancesOf
<1> QED
  BY <1>1, <1>2, <1>4, <1>5 DEF Refusing

LEMMA AfterAgain ==
    ASSUME NEW all, AllOrderly(all), NEW assessment \in Assessments
    PROVE  After(After(all, assessment), assessment) = After(all, assessment)
<1> DEFINE once == After(all, assessment)
           twice == After(once, assessment)
<1>1. once = [s \in Setups |-> once[s]] /\ twice = [s \in Setups |-> twice[s]]
  BY DEF After
<1>2. ASSUME NEW s \in Setups PROVE twice[s] = once[s]
  <2> DEFINE seen == Observation(s, assessment)
  <2>1. /\ all[s] \in Seq(Lifecycles) /\ \A k \in DOMAIN all[s] : Sound(all[s][k])
        /\ once[s] \in Seq(Lifecycles) /\ \A k \in DOMAIN once[s] : Sound(once[s][k])
        /\ seen \in Observations
    BY AfterOrderly, ObservationTyped DEF AllOrderly, Orderly
  <2>2. once[s] = [k \in DOMAIN once[s] |-> once[s][k]]
    BY <2>1, LenProperties
  <2>3. CASE seen.status = "OBSERVED" /\ ~HasActive(all[s])
    <3>1. once[s] = Append(all[s], NewLifecycle(seen))
      BY <2>3, AfterOf
    <3>2. NewLifecycle(seen) \in Lifecycles /\ NewLifecycle(seen).state \in Active
      BY <2>1, <2>3, NewSound DEF Sound
    <3>3. /\ Len(all[s]) \in Nat /\ DOMAIN all[s] = 1..Len(all[s])
          /\ DOMAIN once[s] = 1..Len(all[s]) + 1
          /\ \A k \in 1..Len(all[s]) : once[s][k] = all[s][k]
          /\ once[s][Len(all[s]) + 1] = NewLifecycle(seen)
      BY <2>1, <3>1, <3>2, Longer
    <3>4. HasActive(once[s])
      BY <3>2, <3>3 DEF HasActive
    <3>5. \A k \in 1..Len(all[s]) : once[s][k].state \in Terminal
      BY <2>1, <2>3, <3>3, SoundParts DEF HasActive
    <3>6. \A k \in DOMAIN once[s] : Advance(once[s][k], seen) = once[s][k]
      <4>1. Recorded(NewLifecycle(seen), seen)
        BY DEF Recorded, NewLifecycle
      <4>2. Advance(NewLifecycle(seen), seen) = NewLifecycle(seen)
        BY <4>1 DEF Advance
      <4>3. \A k \in 1..Len(all[s]) : Advance(once[s][k], seen) = once[s][k]
        BY <3>5 DEF Advance
      <4> QED
        BY <3>3, <4>2, <4>3
    <3>7. /\ twice[s] = [k \in DOMAIN once[s] |-> twice[s][k]]
          /\ \A k \in DOMAIN once[s] : twice[s][k] = once[s][k]
      BY <3>4, <3>6, AfterOf
    <3> QED
      BY <2>2, <3>7
  <2>4. CASE ~(seen.status = "OBSERVED" /\ ~HasActive(all[s]))
    <3>1. once[s] = [k \in DOMAIN all[s] |-> once[s][k]] /\ DOMAIN once[s] = DOMAIN all[s]
      <4>1. once[s] = [k \in DOMAIN all[s] |-> once[s][k]]
        BY <2>4, AfterOf
      <4> QED
        BY <4>1
    <3>2. \A k \in DOMAIN all[s] :
             once[s][k] = IF ReachedBy(all, assessment, <<s, k>>)
                          THEN Advance(all[s][k], seen) ELSE all[s][k]
      BY <2>4, AfterPlace
    <3>3. ~(seen.status = "OBSERVED" /\ ~HasActive(once[s]))
      <4> SUFFICES ASSUME seen.status = "OBSERVED" PROVE HasActive(once[s])
        OBVIOUS
      <4>1. PICK k \in DOMAIN all[s] : all[s][k].state \in Active
        BY <2>4 DEF HasActive
      <4>2. once[s][k].state \in Active
        BY <2>1, <3>2, <4>1, SightingKeepsActive
      <4> QED
        BY <3>1, <4>2 DEF HasActive
    <3>4. \A k \in DOMAIN all[s] :
             ReachedBy(once, assessment, <<s, k>>) => ReachedBy(all, assessment, <<s, k>>)
      BY RefusedAgain DEF ReachedBy
    <3>5. \A k \in DOMAIN once[s] :
             twice[s][k] = IF ReachedBy(once, assessment, <<s, k>>)
                           THEN Advance(once[s][k], seen) ELSE once[s][k]
      BY <3>3, AfterPlace
    <3>6. \A k \in DOMAIN once[s] : twice[s][k] = once[s][k]
      <4>1. \A k \in DOMAIN all[s] :
               Advance(Advance(all[s][k], seen), seen) = Advance(all[s][k], seen)
        BY <2>1, AdvanceAgain
      <4> HIDE DEF once, twice, seen
      <4> QED
        BY <3>1, <3>2, <3>4, <3>5, <4>1
    <3>7. twice[s] = [k \in DOMAIN once[s] |-> twice[s][k]]
      BY <3>3, AfterOf
    <3> QED
      BY <2>2, <3>6, <3>7
  <2> QED
    BY <2>3, <2>4
<1> QED
  BY <1>1, <1>2

\* The assessment that was processed last changes nothing when it comes again,
\* whether it was taken or refused, and refused by which lifecycle.
THEOREM ReplaysHarmless == Spec => []ReplayHarmless
<1>1. LifecycleInv => ReplayHarmless
  BY AfterAgain DEF LifecycleInv, ReplayHarmless
<1> QED
  BY <1>1, LifecycleInvariant, PTL
-----------------------------------------------------------------------------
(* Opposite setups *)

LEMMA AfterNew ==
    ASSUME NEW all, NEW assessment, NEW s \in Setups,
           Observation(s, assessment).status = "OBSERVED", ~HasActive(all[s])
    PROVE  After(all, assessment)[s] = Append(all[s], NewLifecycle(Observation(s, assessment)))
BY AfterOf

\* A sighting that is recorded is the assessment's, and no lifecycle of its setup
\* refuses it.
LEMMA SightingTaken ==
    ASSUME NEW all, AllOrderly(all), NEW assessment \in Assessments, NEW s \in Setups,
           NEW k \in DOMAIN After(all, assessment)[s],
           k \in DOMAIN all[s] => After(all, assessment)[s][k] # all[s][k],
           NEW last, last = After(all, assessment)[s][k].observations
                               [Len(After(all, assessment)[s][k].observations)],
           last.status = "OBSERVED"
    PROVE  /\ last = Observation(s, assessment)
           /\ \A j \in DOMAIN all[s] : ~Refuses(all[s][j], Observation(s, assessment))
<1> DEFINE seen == Observation(s, assessment)
           after == After(all, assessment)[s]
<1>1. /\ all[s] \in Seq(Lifecycles) /\ seen \in Observations
      /\ Len(all[s]) \in Nat /\ DOMAIN all[s] = 1..Len(all[s])
      /\ \A j \in DOMAIN all[s] : Sound(all[s][j])
      /\ \A j \in DOMAIN all[s] : j < Len(all[s]) => all[s][j].state \in Terminal
  BY ObservationTyped, LenProperties DEF AllOrderly, Orderly
<1>2. CASE seen.status = "OBSERVED" /\ ~HasActive(all[s])
  <2>1. after = Append(all[s], NewLifecycle(seen))
    BY <1>2, AfterNew
  <2>2. NewLifecycle(seen) \in Lifecycles
    BY <1>1, <1>2, NewSound DEF Sound
  <2>3. /\ DOMAIN after = 1..Len(all[s]) + 1
        /\ \A i \in 1..Len(all[s]) : after[i] = all[s][i]
        /\ after[Len(all[s]) + 1] = NewLifecycle(seen)
    BY <1>1, <2>1, <2>2, Longer
  <2>4. after[k] = NewLifecycle(seen)
    BY <1>1, <2>3
  <2>5. last = seen
    BY <2>4 DEF NewLifecycle
  <2>6. \A j \in DOMAIN all[s] : ~Refuses(all[s][j], seen)
    BY <1>2 DEF Refuses, HasActive
  <2> QED
    BY <2>5, <2>6
<1>3. CASE ~(seen.status = "OBSERVED" /\ ~HasActive(all[s]))
  <2>1. after = [m \in DOMAIN all[s] |-> after[m]]
    BY <1>3, AfterOf
  <2>2. k \in DOMAIN all[s]
    <3> HIDE DEF after
    <3>1. DOMAIN after = DOMAIN all[s]
      BY <2>1
    <3> QED
      BY <3>1 DEF after
  <2>3. ReachedBy(all, assessment, <<s, k>>) /\ after[k] = Advance(all[s][k], seen)
    BY <1>3, <2>2, AfterPlace
  <2>4. /\ all[s][k].state \notin Terminal
        /\ after[k].observations = Append(all[s][k].observations, seen)
    BY <1>1, <2>2, <2>3, AdvanceKeeps
  <2>5. last = seen
    <3>1. all[s][k].observations \in Seq(Observations)
      BY <1>1, <2>2, SoundParts
    <3>2. LET more == Append(all[s][k].observations, seen) IN more[Len(more)] = seen
      BY <1>1, <3>1, Longer
    <3> QED
      BY <2>4, <3>2
  <2>6. ASSUME NEW j \in DOMAIN all[s], Refuses(all[s][j], seen) PROVE FALSE
    <3>1. all[s][j].state \notin Terminal
      BY <2>6 DEF Refuses, Active, Terminal
    <3>2. j = Len(all[s]) /\ k = Len(all[s])
      BY <1>1, <2>2, <2>4, <3>1
    <3>3. <<s, k>> \in Refusing(all, assessment)
      BY <2>2, <2>6, <3>2 DEF Refusing, InstancesOf
    <3> QED
      BY <2>3, <3>3 DEF ReachedBy
  <2> QED
    BY <2>5, <2>6
<1> QED
  BY <1>2, <1>3

\* What a sighting of one setup is for the others.
LEMMA BearingOfOthers ==
    ASSUME NEW s \in Setups, NEW assessment \in Assessments,
           Observation(s, assessment).status = "OBSERVED", NEW o \in Setups, o # s
    PROVE  Observation(o, assessment).status =
              IF o.direction # s.direction THEN "SUPERSEDED" ELSE "ABSENT"
<1>1. s # NoSetup
  BY LifecycleAssumption DEF NoSetup, Directions
<1> QED
  BY <1>1, ObservedSetup DEF Observation, Bearing

LEMMA OppositesEnd ==
    ASSUME NEW all, AllOrderly(all), NEW assessment \in Assessments, NEW s \in Setups,
           Observation(s, assessment).status = "OBSERVED",
           \A j \in DOMAIN all[s] : ~Refuses(all[s][j], Observation(s, assessment)),
           \A x \in Setups : \A j \in DOMAIN all[x] :
              x.direction # s.direction /\ all[x][j].state \in Active =>
                 LastSeen(all[x][j]) # assessment.at,
           NEW o \in Setups, o.direction # s.direction,
           NEW m \in DOMAIN After(all, assessment)[o]
    PROVE  /\ m \in DOMAIN all[o]
           /\ After(all, assessment)[o][m].state \in Active <=>
                 all[o][m].state \in Active /\ LastSeen(all[o][m]) > assessment.at
<1> DEFINE seen == Observation(o, assessment)
           after == After(all, assessment)[o]
<1>1. /\ seen \in Observations /\ seen.at = assessment.at
      /\ \A x \in Setups : \A j \in DOMAIN all[x] : Sound(all[x][j])
  BY ObservationTyped DEF AllOrderly, Orderly, Observation
<1>2. seen.status = "SUPERSEDED"
  BY BearingOfOthers
<1>3. m \in DOMAIN all[o]
  <2>1. after = [j \in DOMAIN all[o] |-> after[j]]
    BY <1>2, AfterOf
  <2> HIDE DEF after
  <2>2. DOMAIN after = DOMAIN all[o]
    BY <2>1
  <2> QED
    BY <2>2 DEF after
<1>4. ASSUME NEW x \in Setups, NEW j \in DOMAIN all[x], x.direction # s.direction
      PROVE  ~Refuses(all[x][j], Observation(x, assessment))
  <2>1. LastSeen(all[x][j]) \in Nat /\ assessment.at \in Nat
    BY <1>1, SoundParts DEF Assessments
  <2>2. Observation(x, assessment).at = assessment.at
    BY DEF Observation
  <2> QED
    BY <1>4, <2>1, <2>2 DEF Refuses
<1>5. ReachedBy(all, assessment, <<o, m>>)
  <2>1. <<o, m>> \notin Refusing(all, assessment)
    <3>1. ~Refuses(all[o][m], Observation(o, assessment))
      BY <1>3, <1>4
    <3> QED
      BY <3>1 DEF Refusing
  <2>2. ASSUME NEW j \in Refusing(all, assessment)
        PROVE  Before(<<o, m>>, j, assessment.verdict)
    <3>1. PICK x \in Setups : \E n \in DOMAIN all[x] : j = <<x, n>>
      BY <2>2 DEF Refusing, InstancesOf
    <3>2. PICK n \in DOMAIN all[x] : j = <<x, n>>
      BY <3>1
    <3>3. Refuses(all[x][n], Observation(x, assessment))
      BY <3>2 DEF Refusing
    <3>4. x # s /\ x.direction = s.direction
      BY <1>4, <3>3
    <3>5. Observation(x, assessment).status = "ABSENT"
      BY <3>4, BearingOfOthers
    <3>6. Turn(x, assessment.verdict) = 2 /\ Turn(o, assessment.verdict) = 1
      BY <1>2, <3>5 DEF Turn, Observation
    <3> QED
      BY <3>2, <3>6 DEF Before
  <2> QED
    BY <2>1, <2>2 DEF ReachedBy
<1>6. after[m] = Advance(all[o][m], seen)
  BY <1>2, <1>3, <1>5, AfterPlace
<1>7. CASE all[o][m].state \in Terminal
  <2>1. after[m] = all[o][m]
    BY <1>1, <1>3, <1>6, <1>7, AdvanceKeeps
  <2> QED
    BY <1>3, <1>7, <2>1 DEF Active, Terminal
<1>8. CASE all[o][m].state \notin Terminal
  <2> DEFINE l == all[o][m]
  <2>1. /\ l.state \in Active /\ LastSeen(l) \in Nat /\ seen.at \in Nat
        /\ DOMAIN l.observations = 1..Len(l.observations)
        /\ \A i \in 1..Len(l.observations) :
              l.observations[i].at \in Nat /\ l.observations[i].at <= LastSeen(l)
    BY <1>1, <1>3, <1>8, SoundParts DEF Observations
  <2> HIDE DEF after, l
  <2>2. LastSeen(l) # seen.at
    BY <1>1, <1>3, <2>1 DEF l
  <2>3. CASE LastSeen(l) < seen.at
    <3>1. ~Recorded(l, seen)
      BY <2>1, <2>3 DEF Recorded
    <3>2. Advance(l, seen).state = Arrival(l, seen)
      BY <1>8, <2>1, <2>3, <3>1 DEF Advance, l
    <3>3. Arrival(l, seen) = "INVALIDATED"
      BY <1>2 DEF Arrival
    <3>4. after[m].state \notin Active
      BY <1>6, <3>2, <3>3 DEF Active, l
    <3> QED
      BY <1>1, <1>3, <2>1, <2>3, <3>4 DEF after, l
  <2>4. CASE LastSeen(l) > seen.at
    <3>1. Advance(l, seen) = l
      BY <2>1, <2>4 DEF Advance
    <3>2. after[m] = l
      BY <1>6, <3>1 DEF l
    <3> QED
      BY <1>1, <1>3, <2>1, <2>4, <3>2 DEF after, l
  <2> QED
    BY <2>1, <2>2, <2>3, <2>4
<1> QED
  BY <1>7, <1>8

\* Where a setup is observed, what is active against it and older is ended, whatever
\* refuses, and what is newer stays.
THEOREM OppositesAreInvalidated == Spec => OppositesInvalidated
<1> DEFINE Ended ==
      \A s \in Setups, at \in 1..MaxTime :
          ObservedNow(s, at) /\ (\A i \in ActiveOpposites(s) : LastSeen(At(i)) # at) =>
             ActiveOpposites(s)' = {i \in ActiveOpposites(s) : LastSeen(At(i)) > at}
<1>1. LifecycleInv /\ [Next]_lifecycles => [Ended]_lifecycles
  <2> SUFFICES ASSUME LifecycleInv, Next, NEW s \in Setups, NEW at \in 1..MaxTime,
                      ObservedNow(s, at),
                      \A i \in ActiveOpposites(s) : LastSeen(At(i)) # at
               PROVE  ActiveOpposites(s)' = {i \in ActiveOpposites(s) : LastSeen(At(i)) > at}
    OBVIOUS
  <2>0. AllOrderly(lifecycles)
    BY DEF LifecycleInv
  <2>1. PICK assessment \in Assessments : lifecycles' = After(lifecycles, assessment)
    BY DEF Next, ProcessSymbol
  <2>2. PICK k \in DOMAIN lifecycles'[s] : LET seen == lifecycles'[s][k].observations IN
           /\ k \in DOMAIN lifecycles[s] => lifecycles'[s][k] # lifecycles[s][k]
           /\ seen[Len(seen)].status = "OBSERVED" /\ seen[Len(seen)].at = at
    BY DEF ObservedNow
  <2> DEFINE seen == After(lifecycles, assessment)[s][k].observations
             last == seen[Len(seen)]
  <2>3. last.status = "OBSERVED" /\ last.at = at
    BY <2>1, <2>2
  <2>4. k \in DOMAIN After(lifecycles, assessment)[s]
    BY <2>1
  <2>5. k \in DOMAIN lifecycles[s] => After(lifecycles, assessment)[s][k] # lifecycles[s][k]
    BY <2>1, <2>2
  <2>6. /\ last = Observation(s, assessment)
        /\ \A j \in DOMAIN lifecycles[s] : ~Refuses(lifecycles[s][j], Observation(s, assessment))
    BY <2>0, <2>3, <2>4, <2>5, SightingTaken
  <2>7. Observation(s, assessment).status = "OBSERVED" /\ assessment.at = at
    BY <2>3, <2>6 DEF Observation
  <2>8. \A x \in Setups : \A j \in DOMAIN lifecycles[x] :
           x.direction # s.direction /\ lifecycles[x][j].state \in Active =>
              LastSeen(lifecycles[x][j]) # assessment.at
    <3> SUFFICES ASSUME NEW x \in Setups, NEW j \in DOMAIN lifecycles[x],
                        x.direction # s.direction, lifecycles[x][j].state \in Active
                 PROVE  LastSeen(lifecycles[x][j]) # assessment.at
      OBVIOUS
    <3>1. <<x, j>> \in ActiveOpposites(s)
      BY DEF ActiveOpposites, Instances, InstancesOf, At
    <3>2. LastSeen(At(<<x, j>>)) # at
      BY <3>1
    <3> QED
      BY <2>7, <3>2 DEF At
  <2> HIDE DEF last, seen
  <2>9. ASSUME NEW o \in Setups, NEW m \in DOMAIN lifecycles'[o], o.direction # s.direction
        PROVE  /\ m \in DOMAIN lifecycles[o]
               /\ lifecycles'[o][m].state \in Active <=>
                     lifecycles[o][m].state \in Active /\ LastSeen(lifecycles[o][m]) > at
    <3>1. m \in DOMAIN After(lifecycles, assessment)[o]
      BY <2>1
    <3>2. /\ m \in DOMAIN lifecycles[o]
          /\ After(lifecycles, assessment)[o][m].state \in Active <=>
                lifecycles[o][m].state \in Active /\ LastSeen(lifecycles[o][m]) > assessment.at
      BY <2>0, <2>6, <2>7, <2>8, <2>9, <3>1, OppositesEnd
    <3> QED
      BY <2>1, <2>7, <3>2
  <2>10. ASSUME NEW o \in Setups, NEW m \in DOMAIN lifecycles[o] PROVE m \in DOMAIN lifecycles'[o]
    BY <2>0, <2>1, AfterStays
  <2>11. ASSUME NEW o \in Setups, NEW m
         PROVE  <<o, m>> \in ActiveOpposites(s)' <=>
                   <<o, m>> \in ActiveOpposites(s) /\ LastSeen(At(<<o, m>>)) > at
    <3>1. <<o, m>> \in ActiveOpposites(s) <=>
             m \in DOMAIN lifecycles[o] /\ o.direction # s.direction
             /\ lifecycles[o][m].state \in Active
      BY DEF ActiveOpposites, Instances, InstancesOf, At
    <3>2. <<o, m>> \in ActiveOpposites(s)' <=>
             m \in DOMAIN lifecycles'[o] /\ o.direction # s.direction
             /\ lifecycles'[o][m].state \in Active
      BY DEF ActiveOpposites, Instances, InstancesOf, At
    <3>3. At(<<o, m>>) = lifecycles[o][m]
      BY DEF At
    <3> QED
      BY <2>9, <2>10, <3>1, <3>2, <3>3
  <2>12. /\ \A i \in ActiveOpposites(s) : \E o \in Setups : \E m \in DOMAIN lifecycles[o] : i = <<o, m>>
         /\ \A i \in ActiveOpposites(s)' : \E o \in Setups : \E m \in DOMAIN lifecycles'[o] : i = <<o, m>>
    BY DEF ActiveOpposites, Instances, InstancesOf
  <2> QED
    BY <2>11, <2>12
<1> QED
  BY <1>1, LifecycleInvariant, PTL DEF Spec, OppositesInvalidated
=============================================================================
