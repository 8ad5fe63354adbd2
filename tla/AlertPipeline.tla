---------------------------- MODULE AlertPipeline ----------------------------
(***************************************************************************)
(* What the user is told of the setups: scan cycles advance the lifecycles *)
(* (SetupLifecycle), the alert engine makes alerts of the states they      *)
(* arrive at and delivers them, the outbox delivers again what failed, and *)
(* the reliability tracker saves which alerts there were.                  *)
(*                                                                         *)
(* All of it is in the memory of one process but the tracker's file.  The  *)
(* process ends at any time, with a shutdown or without, and starts again. *)
(***************************************************************************)
EXTENDS SetupLifecycle, FiniteSetsExt

CONSTANTS
    EligibleKinds,  \* kinds of arrivals that the alert policy tells of
    MaxPerCycle,    \* alerts emitted in one cycle
    Channels,       \* how many delivery channels there are
    MaxAttempts,    \* attempts of the outbox, the first one included
    MaxEntries,     \* bound: alerts put into the outbox
    MaxRuns         \* bound: starts of the process

ASSUME PipelineAssumption ==
    /\ EligibleKinds \subseteq Active \cup Terminal
    /\ MaxPerCycle \in Nat /\ Channels \in Nat
    /\ MaxEntries \in Nat /\ MaxAttempts \in Nat \ {0} /\ MaxRuns \in Nat \ {0}

VARIABLES
    cycles,     \* the arrivals of every lifecycle cycle of this run that had any
    emitted,    \* alert store: the delivery status of each alert emitted
    outbox,     \* [pending, delivered, failed]; pending gives attempts made
    observed,   \* alert ids that the tracker knows of
    file,       \* the operational state file, the alert ids in it
    run,        \* [number, state], and what the runs before recorded (a bound)
    sent,       \* history: how often this run sent each alert, two is often
    resent      \* history: alerts that a channel sent, and then raised

pipelineVars == <<lifecycles, cycles, emitted, outbox, observed, file, run, sent, resent>>

-----------------------------------------------------------------------------
\* build_alert_id: the policy, which does not change here, the kind, the
\* lifecycle instance and the observation that brought it there.
Alerts == [kind : EligibleKinds, setup : Setups, instance : 1..MaxRecorded,
           observation : Observations]
NoFile == [there |-> FALSE, ids |-> {}]
EmptyOutbox == [pending |-> <<>>, delivered |-> {}, failed |-> {}]

Emitted == DOMAIN emitted
Pending == DOMAIN outbox.pending
Sent(alert) == IF alert \in DOMAIN sent THEN sent[alert] ELSE 0

PipelineTypeOK ==
    /\ TypeOK
    /\ \A alert \in (UNION cycles) \cup Emitted \cup Pending \cup outbox.delivered \cup outbox.failed
                        \cup observed \cup file.ids \cup DOMAIN sent \cup resent :
          alert \in [kind : Active \cup Terminal, setup : Setups, instance : 1..MaxRecorded,
                     observation : Observations]
    /\ \A alert \in Emitted : emitted[alert] \in {"DELIVERED", "FAILED", "SKIPPED"}
    /\ \A alert \in Pending : outbox.pending[alert] \in 0..MaxAttempts - 1
    /\ run \in [number : 1..MaxRuns, state : {"UP", "SHUT_DOWN", "CRASHED"},
                recorded : 0..MaxRecorded]
    /\ \A alert \in DOMAIN sent : sent[alert] \in 1..2

-----------------------------------------------------------------------------
(* Generation *)

\* _event_for_result: the alert of the state that an instance (its place) is in.
EventAt(p, all) ==
    LET l == all[p[1]][p[2]]
    IN  [kind |-> l.state, setup |-> p[1], instance |-> p[2],
         observation |-> l.observations[Len(l.observations)]]

\* mutant: every observation of an instance is an arrival
ArrivalsAnyChange(before, after) ==
    {EventAt(p, after) : p \in {q \in Setups \X (1..MaxRecorded) :
        /\ q[2] \in DOMAIN after[q[1]]
        /\ q[2] \in DOMAIN before[q[1]] => before[q[1]][q[2]] # after[q[1]][q[2]]}}

\* _enum_events: an instance that is new, or is in another state than before.
Arrivals(before, after) ==
    {EventAt(p, after) : p \in {q \in Setups \X (1..MaxRecorded) :
        /\ q[2] \in DOMAIN after[q[1]]
        /\ q[2] \in DOMAIN before[q[1]] => before[q[1]][q[2]].state # after[q[1]][q[2]].state}}

\* A refusal loses the results of the symbol, those of what was saved before it too.
Scan(assessment) ==
    /\ run.state = "UP"
    /\ ProcessSymbol(assessment)
    /\ run.recorded + RecordedCount' <= MaxRecorded
    /\ cycles' = IF Refusing(lifecycles, assessment) = {}
                 THEN cycles \cup ({Arrivals(lifecycles, lifecycles')} \ {{}}) ELSE cycles
    /\ UNCHANGED <<emitted, outbox, observed, file, run, sent, resent>>

\* A channel sends, raises, or sends and raises; the first that does not raise is
\* the last that is tried.
Outcomes ==
    IF Channels = 0
    THEN [status : {"SKIPPED"}, sends : {0}]
    ELSE [status : {"DELIVERED"}, sends : 1..Channels]
            \cup [status : {"FAILED"}, sends : 0..Channels]

\* Channels that the alerts of outcome (a function of alerts) went out on.
Deliver(outcome) ==
    /\ sent' = [alert \in DOMAIN sent \cup {a \in DOMAIN outcome : outcome[a].sends > 0} |->
                   LET more == IF alert \in DOMAIN outcome THEN outcome[alert].sends ELSE 0
                   IN  IF Sent(alert) + more > 2 THEN 2 ELSE Sent(alert) + more]
    /\ resent' = resent \cup {a \in DOMAIN outcome :
                     outcome[a].sends > IF outcome[a].status = "DELIVERED" THEN 1 ELSE 0}

\* mutant: no deduplication
FreshAgain(events) == {alert \in events : alert.kind \in EligibleKinds}

\* mutant: what is told is read from the lifecycle as it is by now
FreshNow(events) ==
    {alert \in {EventAt(<<e.setup, e.instance>>, lifecycles) : e \in events} :
        alert.kind \in EligibleKinds /\ alert \notin Emitted}

Fresh(events) == {alert \in events : alert.kind \in EligibleKinds /\ alert \notin Emitted}

\* AlertEngine.process of a cycle: the last one, one that others have overtaken, or
\* one given to it before.  What the cap cuts off is kept as suppressed, nothing
\* looks at it again until its cycle is given to the engine again.
EmitAlerts ==
    /\ run.state = "UP"
    /\ \E events \in cycles : \E chosen \in SUBSET Fresh(events) :
          /\ Cardinality(chosen) = Min({MaxPerCycle, Cardinality(Fresh(events))})
          /\ \E outcome \in [chosen -> Outcomes] :
                /\ Deliver(outcome)
                /\ emitted' = [alert \in Emitted \cup chosen |->
                      IF alert \in chosen THEN outcome[alert].status ELSE emitted[alert]]
          /\ observed' = observed \cup chosen
    /\ UNCHANGED <<lifecycles, cycles, outbox, file, run>>

-----------------------------------------------------------------------------
(* The outbox *)

\* Who keeps the outbox puts there what the engine could not deliver.
Enqueue(alert) ==
    /\ run.state = "UP" /\ emitted[alert] # "DELIVERED"
    /\ alert \notin Pending \cup outbox.delivered
    /\ Cardinality(Pending \cup outbox.delivered \cup outbox.failed \cup {alert}) <= MaxEntries
    /\ outbox' = [outbox EXCEPT !.pending = [a \in Pending \cup {alert} |->
                      IF a = alert THEN 0 ELSE outbox.pending[a]]]
    /\ UNCHANGED <<lifecycles, cycles, emitted, observed, file, run, sent, resent>>

Remove(alert) == [a \in Pending \ {alert} |-> outbox.pending[a]]

\* mutant: one attempt too many
AfterAttemptMore(alert, status) ==
    LET attempts == outbox.pending[alert] + 1
    IN  CASE status = "DELIVERED" ->
                [outbox EXCEPT !.pending = Remove(alert), !.delivered = @ \cup {alert}]
          [] status = "FAILED" /\ attempts <= MaxAttempts ->
                [outbox EXCEPT !.pending[alert] = attempts]
          [] status = "FAILED" /\ attempts > MaxAttempts ->
                [outbox EXCEPT !.pending = Remove(alert), !.failed = @ \cup {alert}]
          [] status = "SKIPPED" -> [outbox EXCEPT !.pending = Remove(alert)]

AfterAttempt(alert, status) ==
    LET attempts == outbox.pending[alert] + 1
    IN  CASE status = "DELIVERED" ->
                [outbox EXCEPT !.pending = Remove(alert), !.delivered = @ \cup {alert}]
          [] status = "FAILED" /\ attempts < MaxAttempts ->
                [outbox EXCEPT !.pending[alert] = attempts]
          [] status = "FAILED" /\ attempts >= MaxAttempts ->
                [outbox EXCEPT !.pending = Remove(alert), !.failed = @ \cup {alert}]
          [] status = "SKIPPED" -> [outbox EXCEPT !.pending = Remove(alert)]

\* One entry of process(now).  Entries do not touch each other, and one that
\* failed is due again at some later now.
DeliverEntry(alert) ==
    /\ run.state = "UP"
    /\ \E outcome \in [{alert} -> Outcomes] :
          /\ Deliver(outcome)
          /\ outbox' = AfterAttempt(alert, outcome[alert].status)
    /\ UNCHANGED <<lifecycles, cycles, emitted, observed, file, run>>

-----------------------------------------------------------------------------
(* The end and the start of the process *)

End(state) ==
    /\ run.state = "UP"
    /\ lifecycles' = [s \in Setups |-> <<>>] /\ cycles' = {} /\ emitted' = <<>>
    /\ outbox' = EmptyOutbox /\ observed' = {}
    /\ run' = [run EXCEPT !.state = state, !.recorded = @ + RecordedCount]
    /\ sent' = <<>> /\ resent' = {}

\* save_snapshot is not told to overwrite, and no two snapshots are the same
\* (they have their instant): only the first is saved.
Save == file' = IF file.there THEN file ELSE [there |-> TRUE, ids |-> observed]

Shutdown == End("SHUT_DOWN") /\ Save
Crash == End("CRASHED") /\ UNCHANGED file

\* startup_recovery
Start ==
    /\ run.state # "UP" /\ run.number < MaxRuns
    /\ run' = [run EXCEPT !.number = @ + 1, !.state = "UP"]
    /\ observed' = file.ids
    /\ UNCHANGED <<lifecycles, cycles, emitted, outbox, file, sent, resent>>

-----------------------------------------------------------------------------
PipelineInit ==
    /\ Init
    /\ cycles = {} /\ emitted = <<>> /\ outbox = EmptyOutbox /\ observed = {}
    /\ file = NoFile /\ run = [number |-> 1, state |-> "UP", recorded |-> 0]
    /\ sent = <<>> /\ resent = {}

PipelineNext ==
    \/ \E assessment \in Assessments : Scan(assessment)
    \/ EmitAlerts
    \/ \E alert \in Emitted : Enqueue(alert)
    \/ \E alert \in Pending : DeliverEntry(alert)
    \/ Shutdown \/ Crash \/ Start

PipelineSpec == PipelineInit /\ [][PipelineNext]_pipelineVars
-----------------------------------------------------------------------------
(* Properties *)

\* A run sends an alert twice only if a channel raised after it had sent it,
\* however often a cycle is processed again, an attempt fails and the alert is
\* put into the outbox (dedup by alert id, enqueue's answers, _mark_done).
AlertOnce == \A alert \in DOMAIN sent : sent[alert] > 1 => alert \in resent

\* In one run of the process, an instance is told of at most once for each state
\* it arrives at, and what is told is so: a terminal alert is of an instance that
\* ended that way by that observation, a confirmation of one that was qualified.
AlertsAreTrue ==
    /\ \A a, b \in Emitted :
          a.setup = b.setup /\ a.instance = b.instance /\ a # b =>
             a.kind # b.kind /\ {a.kind, b.kind} # Terminal
    /\ \A a \in Emitted : LET l == lifecycles[a.setup][a.instance] IN
          /\ a.instance \in DOMAIN lifecycles[a.setup]
          /\ a.kind \in Terminal =>
                l.state = a.kind /\ l.observations[Len(l.observations)] = a.observation
          /\ a.kind = "CONFIRMED" => Qualified(l.observations)

\* "A restart never ... re-emits already-emitted alerts": what the tracker knows
\* of, restored or not, is not emitted again.
NeverReEmitted ==
    [][\A alert \in observed : alert \in DOMAIN emitted' => alert \in Emitted]_pipelineVars

\* "Flush the operational state to the durable store": a run that ended with a
\* shutdown left its alerts in the file.
FlushedAtShutdown ==
    [][run'.state = "SHUT_DOWN" => file'.ids = observed]_run
=============================================================================
