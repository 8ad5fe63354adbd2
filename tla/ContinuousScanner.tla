------------------------- MODULE ContinuousScanner -------------------------
(***************************************************************************)
(* The scanning loop of ContinuousScanner: start() runs it in a worker     *)
(* thread, run() in the caller's, stop() asks it to end, and scan_once()   *)
(* scans on demand beside it.  A step is one section under the scanner's   *)
(* lock, or one access outside it.                                         *)
(*                                                                         *)
(* Time is relative: instead of instants the module keeps ages, which stop *)
(* counting at Interval, past which the code no longer tells them apart.   *)
(***************************************************************************)
EXTENDS Naturals, FiniteSets

CONSTANTS
    Workers,        \* background threads start() may create
    Runners,        \* threads calling run()
    Manual,         \* threads calling scan_once()
    Interval,       \* scan_interval_seconds, in clock units
    MaxCycles,      \* the largest cycle budget, besides none at all
    OldReferences   \* may scan_once be given a reference_now in the past?

ASSUME ConstantsAssumption ==
    /\ Workers \cap Runners = {} /\ (Workers \cup Runners) \cap Manual = {}
    /\ Interval \in Nat \ {0} /\ MaxCycles \in Nat
    /\ OldReferences \in BOOLEAN

Loops == Workers \cup Runners

VARIABLES
    use,      \* the scanner is driven by start() or by run()
    state,    \* _state
    stop,     \* _stop_requested
    busy,     \* _busy
    age,      \* time since _last_cycle_end
    pc,       \* the step each thread is at
    left,     \* the cycle budget of each loop
    rem,      \* what is left of its sleep
    raised,   \* did its cycle raise?
    since,    \* history: time since its last cycle ended
    missed,   \* history: was its last attempt skipped?
    begun     \* time since the scan of each manual caller began

loop == <<left, rem, raised, since, missed>>
vars == <<use, state, stop, busy, age, pc, loop, begun>>

-----------------------------------------------------------------------------
ScannerStates == {"STOPPED", "RUNNING", "SCANNING", "WAITING", "STOPPING", "FAILED"}
LoopSteps == {"off", "check", "acquire", "scan", "release", "running", "record",
              "schedule", "wait", "sleep", "end", "return", "fail"}
ManualSteps == {"off", "scan", "store", "free"}
Ages == 0..Interval

\* A loop without a budget runs until it is stopped.
Forever == MaxCycles + 1

Active(t) == pc[t] # "off"
Goto(t, step) == pc' = [pc EXCEPT ![t] = step]

\* A loop that is over is as one that never was.
Quit(t) ==
    /\ Goto(t, "off")
    /\ left' = [left EXCEPT ![t] = 0]
    /\ rem' = rem
    /\ raised' = [raised EXCEPT ![t] = FALSE]
    /\ since' = [since EXCEPT ![t] = Interval]
    /\ missed' = [missed EXCEPT ![t] = FALSE]

\* The threads that hold the busy flag.
Owners == {t \in Loops : pc[t] \in {"scan", "release"}}
          \cup {m \in Manual : Active(m)}

Enter(t, budget) ==
    /\ Goto(t, "check")
    /\ stop' = FALSE
    /\ state' = "RUNNING"
    /\ left' = [left EXCEPT ![t] = budget]
    /\ UNCHANGED <<use, busy, rem, raised, since, missed, begun>>

-----------------------------------------------------------------------------
(* start, stop, run *)

\* From the other states start() does nothing.
MayStartStopping == {"STOPPED", "FAILED", "STOPPING"}  \* mutant
MayStart == {"STOPPED", "FAILED"}

Start ==
    /\ use = "start"
    /\ state \in MayStart
    /\ \E w \in Workers, budget \in 1..Forever : ~Active(w) /\ Enter(w, budget)
    /\ age' = Interval

StopAtOnce ==  \* mutant: the worker is not waited for
    /\ state # "STOPPED"
    /\ stop' = TRUE
    /\ state' = "STOPPED"
    /\ UNCHANGED <<use, busy, age, pc, loop, begun>>

Stop ==
    /\ state # "STOPPED"
    /\ stop' = TRUE
    /\ state' = "STOPPING"
    /\ UNCHANGED <<use, busy, age, pc, loop, begun>>

Run(r) ==
    /\ use = "run"
    /\ ~Active(r)
    /\ \E budget \in 0..Forever : Enter(r, budget)
    /\ age' = age

-----------------------------------------------------------------------------
(* _loop_body *)

CheckStopOnly(t) ==  \* mutant: the budget is tested after a cycle only
    /\ pc[t] = "check"
    /\ Goto(t, IF stop THEN "end" ELSE "acquire")
    /\ UNCHANGED <<use, state, stop, busy, age, loop, begun>>

CheckBudgetOnly(t) ==  \* mutant: the flag is read while sleeping only
    /\ pc[t] = "check"
    /\ Goto(t, IF left[t] = 0 THEN "end" ELSE "acquire")
    /\ UNCHANGED <<use, state, stop, busy, age, loop, begun>>

Check(t) ==
    /\ pc[t] = "check"
    /\ Goto(t, IF stop \/ left[t] = 0 THEN "end" ELSE "acquire")
    /\ UNCHANGED <<use, state, stop, busy, age, loop, begun>>

\* Another scan is running: a SKIPPED result is recorded and the loop goes on.
Skip(t) ==
    /\ pc[t] = "acquire"
    /\ busy
    /\ age' = 0
    /\ missed' = [missed EXCEPT ![t] = TRUE]
    /\ Goto(t, "check")
    /\ UNCHANGED <<use, state, stop, busy, left, rem, raised, since, begun>>

Begin(t) ==
    /\ pc[t] = "acquire"
    /\ ~busy
    /\ busy' = TRUE
    /\ state' = "SCANNING"
    /\ missed' = [missed EXCEPT ![t] = FALSE]
    /\ Goto(t, "scan")
    /\ UNCHANGED <<use, stop, age, left, rem, raised, since, begun>>

\* engine.run_cycle returns, or an error escapes it.
Finish(t) ==
    /\ pc[t] = "scan"
    /\ \E error \in BOOLEAN : raised' = [raised EXCEPT ![t] = error]
    /\ since' = [since EXCEPT ![t] = 0]
    /\ Goto(t, "release")
    /\ UNCHANGED <<use, state, stop, busy, age, left, rem, missed, begun>>

\* The flag is cleared without the lock.
Release(t) ==
    /\ pc[t] = "release"
    /\ busy' = FALSE
    /\ Goto(t, "running")
    /\ UNCHANGED <<use, state, stop, age, loop, begun>>

Resume(t) ==
    /\ pc[t] = "running"
    /\ ~raised[t]
    /\ state' = "RUNNING"
    /\ Goto(t, "record")
    /\ UNCHANGED <<use, stop, busy, age, loop, begun>>

\* An error ends a worker's thread, and is caught by run().
Abort(t) ==
    /\ pc[t] = "running"
    /\ raised[t]
    /\ state' = "RUNNING"
    /\ IF t \in Workers THEN Quit(t) ELSE Goto(t, "fail") /\ UNCHANGED loop
    /\ UNCHANGED <<use, stop, busy, age, begun>>

Spent(t) == IF left[t] = Forever THEN left[t] ELSE left[t] - 1

RecordUnstamped(t) ==  \* mutant: the end of the cycle is not noted
    /\ pc[t] = "record"
    /\ age' = age
    /\ left' = [left EXCEPT ![t] = Spent(t)]
    /\ Goto(t, IF Spent(t) = 0 THEN "end" ELSE "schedule")
    /\ UNCHANGED <<use, state, stop, busy, rem, raised, since, missed, begun>>

Record(t) ==
    /\ pc[t] = "record"
    /\ age' = 0
    /\ left' = [left EXCEPT ![t] = Spent(t)]
    /\ Goto(t, IF Spent(t) = 0 THEN "end" ELSE "schedule")
    /\ UNCHANGED <<use, state, stop, busy, rem, raised, since, missed, begun>>

\* _last_cycle_end is read without the lock.
Schedule(t) ==
    /\ pc[t] = "schedule"
    /\ rem' = [rem EXCEPT ![t] = Interval - age]
    /\ Goto(t, IF age < Interval THEN "wait" ELSE "check")
    /\ UNCHANGED <<use, state, stop, busy, age, left, raised, since, missed, begun>>

Wait(t) ==
    /\ pc[t] = "wait"
    /\ state' = "WAITING"
    /\ Goto(t, "sleep")
    /\ UNCHANGED <<use, stop, busy, age, loop, begun>>

\* _interruptible_sleep: each slice looks at the flag, then at the deadline.
WakeOnStop(t) ==  \* mutant: the deadline is pushed back by every slice
    /\ pc[t] = "sleep"
    /\ stop
    /\ rem' = [rem EXCEPT ![t] = 0]
    /\ Goto(t, "check")
    /\ UNCHANGED <<use, state, stop, busy, age, left, raised, since, missed, begun>>

Wake(t) ==
    /\ pc[t] = "sleep"
    /\ stop \/ rem[t] = 0
    /\ rem' = [rem EXCEPT ![t] = 0]
    /\ Goto(t, "check")
    /\ UNCHANGED <<use, state, stop, busy, age, left, raised, since, missed, begun>>

\* The last lines of _loop.
End(t) ==
    /\ pc[t] = "end"
    /\ state' = IF state = "FAILED" THEN state ELSE "STOPPED"
    /\ IF t \in Workers THEN Quit(t) ELSE Goto(t, "return") /\ UNCHANGED loop
    /\ UNCHANGED <<use, stop, busy, age, begun>>

\* The except and finally clauses of run().
RunReturns(t) ==
    /\ pc[t] \in {"return", "fail"}
    /\ state' = IF pc[t] = "fail" \/ state = "FAILED" THEN "FAILED" ELSE "STOPPED"
    /\ Quit(t)
    /\ UNCHANGED <<use, stop, busy, age, begun>>

-----------------------------------------------------------------------------
(* scan_once; a call that finds the flag set returns SKIPPED *)

ManualBeginUnchecked(m) ==  \* mutant: no look at the flag
    /\ ~Active(m)
    /\ busy' = TRUE
    /\ begun' = [begun EXCEPT ![m] = 0]
    /\ Goto(m, "scan")
    /\ UNCHANGED <<use, state, stop, age, loop>>

ManualBegin(m) ==
    /\ ~Active(m)
    /\ ~busy
    /\ busy' = TRUE
    /\ begun' = [begun EXCEPT ![m] = 0]
    /\ Goto(m, "scan")
    /\ UNCHANGED <<use, state, stop, age, loop>>

ManualFinishLeaky(m) ==  \* mutant: an error skips the release of the flag
    /\ pc[m] = "scan"
    /\ Goto(m, "store") \/ Goto(m, "off")
    /\ UNCHANGED <<use, state, stop, busy, age, loop, begun>>

ManualFinish(m) ==
    /\ pc[m] = "scan"
    /\ Goto(m, "store") \/ Goto(m, "free")
    /\ UNCHANGED <<use, state, stop, busy, age, loop, begun>>

\* _last_cycle_end becomes the reference instant of the scan, not its end.
ManualStore(m) ==
    /\ pc[m] = "store"
    /\ age' \in IF OldReferences THEN begun[m]..Interval ELSE {begun[m]}
    /\ Goto(m, "free")
    /\ UNCHANGED <<use, state, stop, busy, loop, begun>>

ManualFree(m) ==
    /\ pc[m] = "free"
    /\ busy' = FALSE
    /\ begun' = [begun EXCEPT ![m] = Interval]
    /\ Goto(m, "off")
    /\ UNCHANGED <<use, state, stop, age, loop>>

-----------------------------------------------------------------------------
Older(a) == IF a < Interval THEN a + 1 ELSE a

Tick ==
    /\ age' = Older(age)
    /\ since' = [t \in Loops |-> Older(since[t])]
    /\ begun' = [m \in Manual |-> Older(begun[m])]
    /\ rem' = [t \in Loops |->
                  IF pc[t] = "sleep" /\ rem[t] > 0 THEN rem[t] - 1 ELSE rem[t]]
    /\ UNCHANGED <<use, state, stop, busy, pc, left, raised, missed>>

Init ==
    /\ use \in {"start", "run"}
    /\ state = "STOPPED"
    /\ stop = FALSE
    /\ busy = FALSE
    /\ age = Interval
    /\ pc = [t \in Loops \cup Manual |-> "off"]
    /\ left = [t \in Loops |-> 0]
    /\ rem = [t \in Loops |-> 0]
    /\ raised = [t \in Loops |-> FALSE]
    /\ since = [t \in Loops |-> Interval]
    /\ missed = [t \in Loops |-> FALSE]
    /\ begun = [m \in Manual |-> Interval]

Cycle(t) == Begin(t) \/ Finish(t) \/ Release(t) \/ Resume(t) \/ Abort(t) \/ Record(t)
LoopStep(t) ==
    Check(t) \/ Skip(t) \/ Cycle(t) \/ Schedule(t) \/ Wait(t) \/ Wake(t) \/ End(t)
ScanLoop(t) == LoopStep(t) \/ RunReturns(t)
ScanOnce(m) == ManualFinish(m) \/ ManualStore(m) \/ ManualFree(m)

Next ==
    \/ Start \/ Stop \/ Tick
    \/ \E r \in Runners : Run(r)
    \/ \E t \in Loops : ScanLoop(t)
    \/ \E m \in Manual : ManualBegin(m) \/ ScanOnce(m)

Spec == Init /\ [][Next]_vars

\* Threads run, scans end and time passes; nobody has to call the scanner.
Fairness ==
    /\ WF_vars(Tick)
    /\ \A t \in Loops : WF_vars(ScanLoop(t))
    /\ \A m \in Manual : WF_vars(ScanOnce(m))

FairSpec == Spec /\ Fairness

-----------------------------------------------------------------------------
(* Properties *)

\* Every variable keeps its type; ages and budgets stay in their ranges.
TypeOK ==
    /\ use \in {"start", "run"}
    /\ state \in ScannerStates
    /\ stop \in BOOLEAN /\ busy \in BOOLEAN
    /\ age \in Ages
    /\ pc \in [Loops \cup Manual -> LoopSteps \cup ManualSteps]
    /\ \A m \in Manual : pc[m] \in ManualSteps
    /\ left \in [Loops -> 0..Forever]
    /\ rem \in [Loops -> Ages]
    /\ raised \in [Loops -> BOOLEAN]
    /\ since \in [Loops -> Ages]
    /\ missed \in [Loops -> BOOLEAN]
    /\ begun \in [Manual -> Ages]

\* Inductive: a loop that attempts a cycle has a budget left for it.
Attempting == {"acquire", "scan", "release", "running", "record"}
Budgeted == TypeOK /\ \A t \in Loops : pc[t] \in Attempting => left[t] > 0

\* No two scans run at a time, whoever started them (the no-overlap policy).
NoOverlap == \A t, u \in Loops \cup Manual : pc[t] = "scan" /\ pc[u] = "scan" => t = u

\* The busy flag is set exactly while one thread holds it: no error, stop or
\* skip leaves it set with nobody to clear it, or clears another's.
BusyIsOwned ==
    /\ busy <=> Owners # {}
    /\ \A t, u \in Owners : t = u

\* A scanner has one loop at most: a start() that finds the last one still
\* ending does not run a second beside it.
OneLoop == \A t, u \in Loops : Active(t) /\ Active(u) => t = u

\* The state STOPPED is the truth: no loop is left running behind it.
StoppedIsIdle ==
    state = "STOPPED" => \A t \in Loops : pc[t] \in {"off", "return"}

\* The scanner's run() is called by one thread.
SingleRunner == \A r, u \in Runners : r = u

\* Inductive for a single runner: a loop under way is of the kind the scanner
\* is used with, and shows in its state, so nothing starts another.
Shown(t) ==
    /\ use = "start" => t \in Workers
    /\ use = "run" => t \in Runners
    /\ pc[t] \in {"return", "fail"} => t \in Runners
    /\ pc[t] # "return" => state \notin {"STOPPED", "FAILED"}
LoopInv == Budgeted /\ OneLoop /\ \A t \in Loops : Active(t) => Shown(t)

\* Inductive: on the way to its next cycle a loop has waited since the last
\* one, is still to wait for the rest, or has been told to stop; a manual scan
\* that is to stamp the schedule began after that cycle.
Paced(t) ==
    /\ pc[t] \in {"off", "acquire"} => since[t] = Interval
    /\ pc[t] = "check" => stop \/ since[t] = Interval
    /\ pc[t] = "schedule" => age <= since[t]
    /\ pc[t] \in {"wait", "sleep"} => Interval <= since[t] + rem[t]
    /\ pc[t] \in {"running", "record", "schedule"} =>
          \A m \in Manual : pc[m] \in {"scan", "store"} => begun[m] <= since[t]
PaceInv == LoopInv /\ BusyIsOwned /\ \A t \in Loops : Paced(t)

\* A loop's cycle starts no sooner than a full interval after its last one
\* ended, whatever manual scans and stops came in between (back-pressure).
BackPressure ==
    [][\A t \in Loops :
          pc[t] = "acquire" /\ pc'[t] = "scan" => since[t] = Interval]_vars

\* A loop asked to stop ends: between cycles, in one, asleep or skipping.
EveryStopEnds == \A t \in Loops : stop /\ Active(t) ~> ~Active(t)

\* A loop that is not stopped or spent comes to its next attempt: no wait is
\* for ever.
AttemptsGoOn == \A t \in Loops : Active(t) ~> pc[t] = "acquire" \/ ~Active(t)

\* Documented: once stop() has returned no new cycle is started.
NoCycleAfterStop ==
    [][\A t \in Loops : pc[t] = "acquire" /\ pc'[t] = "scan" => ~stop]_vars

\* Documented: after a skipped cycle the next attempt waits for the interval.
SkipThenWait ==
    [][\A t \in Loops :
          missed[t] /\ pc[t] = "acquire" /\ pc'[t] # "acquire" => age = Interval]_vars
=============================================================================
