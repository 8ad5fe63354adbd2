---------------------------- MODULE SetupLifecycle ----------------------------
(***************************************************************************)
(* The setup lifecycles of one instrument on one timeframe: the engine     *)
(* turns the assessments of scan cycles into lifecycles of the setups they *)
(* name.  A setup has instances, one after another; an instance keeps the  *)
(* observations it was made of.                                            *)
(*                                                                         *)
(* Assessments arrive in any order and any number of times: a cycle may be *)
(* processed late, again, or again with another assessment.  A cycle is    *)
(* known by its reference instant.  A lifecycle refuses an observation of   *)
(* the instant of its last one, unless it is that one: the refusal is an   *)
(* error, which leaves the rest of the assessment undone.                  *)
(***************************************************************************)
EXTENDS Integers, Sequences, FiniteSets

CONSTANTS
    Setups,         \* the (direction, type) pairs that assessments name
    Rank,           \* the order of the lifecycle ids, which are hashes
    MaxMissing,     \* max_consecutive_missing_observations
    MaxTime,        \* bound: instants of cycles
    MaxRecorded     \* bound: observations that are recorded

Directions == {"BULLISH", "BEARISH"}

ASSUME LifecycleAssumption ==
    /\ IsFiniteSet(Setups) /\ \A s \in Setups : s.direction \in Directions
    /\ Rank \in [Setups \X (1..MaxRecorded) -> Nat]
    /\ MaxMissing \in Nat \ {0} /\ MaxTime \in Nat /\ MaxRecorded \in Nat

VARIABLE
    lifecycles    \* the instances of each setup, in the order they were created

-----------------------------------------------------------------------------
NoSetup == [direction |-> "NONE", type |-> "NONE"]

\* What an assessment says of the instrument: a setup, qualified and fresh or
\* not; that there is none; or that data is missing.
Verdicts ==
    [setup : Setups, says : {"qualified", "candidate"}]
        \cup [setup : {NoSetup}, says : {"clear", "incomplete"}]
Assessments == [at : 1..MaxTime, verdict : Verdicts]

Active == {"DETECTED", "CONFIRMED"}
Terminal == {"INVALIDATED", "EXPIRED"}
Bearings == {"OBSERVED", "ABSENT", "SUPERSEDED", "DATA_UNAVAILABLE"}
Observations == [at : 1..MaxTime, verdict : Verdicts, status : Bearings]
Lifecycles ==
    [state : Active \cup Terminal, missing : 0..MaxMissing,
     observations : Seq(Observations)]

TypeOK ==
    /\ lifecycles \in [Setups -> Seq(Lifecycles)]
    /\ \A s \in Setups : \A k \in DOMAIN lifecycles[s] : lifecycles[s][k].observations # <<>>

-----------------------------------------------------------------------------
(* One assessment *)

\* mutant: an opposite setup is one more look that did not find this one
BearingOppositeAbsent(s, verdict) ==
    CASE verdict.says = "incomplete" -> "DATA_UNAVAILABLE"
      [] verdict.setup = s -> "OBSERVED"
      [] OTHER -> "ABSENT"

\* resolve_setup_identity, and what the assessment means for a setup.
Bearing(s, verdict) ==
    CASE verdict.says = "incomplete" -> "DATA_UNAVAILABLE"
      [] verdict.setup = s -> "OBSERVED"
      [] verdict.setup # NoSetup /\ verdict.setup.direction # s.direction -> "SUPERSEDED"
      [] OTHER -> "ABSENT"

Observation(s, assessment) ==
    [at |-> assessment.at, verdict |-> assessment.verdict,
     status |-> Bearing(s, assessment.verdict)]

Arrival(lifecycle, seen) ==
    CASE seen.status = "SUPERSEDED" -> "INVALIDATED"
      [] seen.status = "ABSENT" /\ lifecycle.missing + 1 >= MaxMissing -> "EXPIRED"
      [] seen.status = "OBSERVED" /\ seen.verdict.says = "qualified" -> "CONFIRMED"
      [] OTHER -> lifecycle.state

\* mutant: the counter is not reset
MissingTotal(lifecycle, seen) ==
    lifecycle.missing + IF seen.status = "ABSENT" THEN 1 ELSE 0

Missing(lifecycle, seen) ==
    CASE seen.status = "OBSERVED" -> 0
      [] seen.status = "ABSENT" -> lifecycle.missing + 1
      [] OTHER -> lifecycle.missing

LastSeen(lifecycle) == lifecycle.observations[Len(lifecycle.observations)].at
Recorded(lifecycle, seen) ==
    \E i \in DOMAIN lifecycle.observations : lifecycle.observations[i] = seen

\* mutant: terminal lifecycles go on
AdvanceTerminal(lifecycle, seen) ==
    IF seen.at < LastSeen(lifecycle) \/ Recorded(lifecycle, seen)
    THEN lifecycle
    ELSE [state |-> Arrival(lifecycle, seen), missing |-> Missing(lifecycle, seen),
          observations |-> Append(lifecycle.observations, seen)]

\* mutant: a late observation is taken
AdvanceLate(lifecycle, seen) ==
    IF lifecycle.state \in Terminal \/ Recorded(lifecycle, seen)
    THEN lifecycle
    ELSE [state |-> Arrival(lifecycle, seen), missing |-> Missing(lifecycle, seen),
          observations |-> Append(lifecycle.observations, seen)]

\* A terminal lifecycle, a late observation and a known one change nothing.
Advance(lifecycle, seen) ==
    IF lifecycle.state \in Terminal \/ seen.at < LastSeen(lifecycle) \/ Recorded(lifecycle, seen)
    THEN lifecycle
    ELSE [state |-> Arrival(lifecycle, seen), missing |-> Missing(lifecycle, seen),
          observations |-> Append(lifecycle.observations, seen)]

NewLifecycle(seen) ==
    [state |-> IF seen.verdict.says = "qualified" THEN "CONFIRMED" ELSE "DETECTED",
     missing |-> 0, observations |-> <<seen>>]

\* mutant: a lifecycle that is not confirmed is not looked for
HasActiveConfirmed(instances) ==
    \E k \in DOMAIN instances : instances[k].state = "CONFIRMED"

HasActive(instances) == \E k \in DOMAIN instances : instances[k].state \in Active

\* SetupLifecycle's check: observations are strictly chronological.
Refuses(lifecycle, seen) ==
    /\ lifecycle.state \in Active /\ seen.at = LastSeen(lifecycle)
    /\ ~Recorded(lifecycle, seen)

InstancesOf(all) == UNION {{s} \X DOMAIN all[s] : s \in Setups}

\* First the setup that is observed, then those it supersedes, then those it
\* displaces; without a setup there is one group.
Turn(s, verdict) ==
    CASE Bearing(s, verdict) = "OBSERVED" -> 0
      [] Bearing(s, verdict) = "SUPERSEDED" -> 1
      [] OTHER -> 2
Before(i, j, verdict) ==
    \/ Turn(i[1], verdict) < Turn(j[1], verdict)
    \/ Turn(i[1], verdict) = Turn(j[1], verdict) /\ Rank[i] < Rank[j]

Refusing(all, assessment) ==
    {i \in InstancesOf(all) : Refuses(all[i[1]][i[2]], Observation(i[1], assessment))}

\* Nothing asks how old the assessment is that creates an instance.  The new one
\* is saved first, whatever comes then.
After(all, assessment) ==
    LET refusing == Refusing(all, assessment)
        Reached(i) ==
            i \notin refusing /\ \A j \in refusing : Before(i, j, assessment.verdict)
    IN  [s \in Setups |-> LET seen == Observation(s, assessment) IN
            IF seen.status = "OBSERVED" /\ ~HasActive(all[s])
            THEN Append(all[s], NewLifecycle(seen))
            ELSE [k \in DOMAIN all[s] |->
                     IF Reached(<<s, k>>) THEN Advance(all[s][k], seen) ELSE all[s][k]]]

Instances == InstancesOf(lifecycles)
At(i) == lifecycles[i[1]][i[2]]
RecordedCount ==
    Cardinality(UNION {{i} \X DOMAIN At(i).observations : i \in Instances})

ProcessSymbol(assessment) ==
    /\ lifecycles' = After(lifecycles, assessment)
    /\ RecordedCount' <= MaxRecorded

-----------------------------------------------------------------------------
Init == lifecycles = [s \in Setups |-> <<>>]

Next == \E assessment \in Assessments : ProcessSymbol(assessment)

Spec == Init /\ [][Next]_lifecycles
-----------------------------------------------------------------------------
(* Properties *)

\* All the instances of a setup but the last are over ("at most ONE active
\* lifecycle may exist per setup id", which active_for_setup relies on).
OneActive ==
    \A s \in Setups : \A k \in DOMAIN lifecycles[s] :
        k < Len(lifecycles[s]) => lifecycles[s][k].state \in Terminal

\* The observations of an instance say its state, whatever was late, repeated or
\* missing: they are in order of time; it is INVALIDATED by an opposite setup at
\* the end and nowhere else; it is EXPIRED just when MaxMissing clean looks since
\* it was observed did not find it; it is CONFIRMED only by a qualified one.
Looks(seen) == {i \in DOMAIN seen : seen[i].status # "DATA_UNAVAILABLE"}
Misses(seen) ==
    {i \in Looks(seen) : \A j \in Looks(seen) : j >= i => seen[j].status # "OBSERVED"}
Qualified(seen) ==
    \E i \in DOMAIN seen : seen[i].status = "OBSERVED" /\ seen[i].verdict.says = "qualified"
Tells(lifecycle) ==
    LET l == lifecycle  seen == l.observations IN
        /\ \A m, n \in DOMAIN seen : m < n => seen[m].at < seen[n].at
        /\ \A n \in DOMAIN seen :
              (seen[n].status = "SUPERSEDED") = (n = Len(seen) /\ l.state = "INVALIDATED")
        /\ l.state # "INVALIDATED" =>
              /\ Cardinality(Misses(seen)) = l.missing
              /\ (l.state = "EXPIRED") = (l.missing = MaxMissing)
        /\ l.state \in Active => (l.state = "CONFIRMED") = Qualified(seen)
HistorySaysState == \A i \in Instances : Tells(At(i))

\* Processing the assessment that was processed last again changes nothing,
\* refused or not ("idempotent for the same scan cycle + same assessment").
ReplayHarmless ==
    \A assessment \in Assessments :
        \A once \in {After(lifecycles, assessment)} : After(once, assessment) = once

\* Where a setup is observed, it leaves active, of the opposite direction, exactly
\* what was last seen after it: everything older is ended, however many newer ones
\* there are, and those refuse to be ended by what is late (_process_symbol's
\* cross-invalidation).  So both directions are active only by a late sighting or,
\* which is left out here, by one that is refused for another of its instant.
ObservedNow(s, at) ==
    \E k \in DOMAIN lifecycles'[s] : LET seen == lifecycles'[s][k].observations IN
        /\ k \in DOMAIN lifecycles[s] => lifecycles'[s][k] # lifecycles[s][k]
        /\ seen[Len(seen)].status = "OBSERVED" /\ seen[Len(seen)].at = at
ActiveOpposites(s) ==
    {i \in Instances : i[1].direction # s.direction /\ At(i).state \in Active}
OppositesInvalidated ==
    [][\A s \in Setups, at \in 1..MaxTime :
          ObservedNow(s, at) /\ (\A i \in ActiveOpposites(s) : LastSeen(At(i)) # at) =>
             ActiveOpposites(s)' = {i \in ActiveOpposites(s) : LastSeen(At(i)) > at}]_lifecycles

\* What was recorded stays as it was, no instance goes, and one that is over
\* does not change ("history is append-only and immutable").
HistoryFrozen ==
    [][\A s \in Setups : \A k \in DOMAIN lifecycles[s] :
          LET before == lifecycles[s][k]  after == lifecycles'[s][k]
          IN  /\ k \in DOMAIN lifecycles'[s]
              /\ before.state \in Terminal => after = before
              /\ \A n \in DOMAIN before.observations :
                    /\ n \in DOMAIN after.observations
                    /\ after.observations[n] = before.observations[n]]_lifecycles

\* "The engine enforces strictly chronological advancement": an instance is not
\* created from an assessment that is older than what ended the one before it.
InstancesInOrder ==
    \A s \in Setups : \A k \in DOMAIN lifecycles[s] :
        k > 1 => lifecycles[s][k].observations[1].at >= LastSeen(lifecycles[s][k - 1])
=============================================================================
