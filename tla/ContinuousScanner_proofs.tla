---------------------- MODULE ContinuousScanner_proofs ----------------------
(***************************************************************************)
(* Proofs about ContinuousScanner, for any number of threads, any interval *)
(* and any cycle budget: the type invariant, the exclusion of scans, the   *)
(* single loop and, from these, back-pressure.                             *)
(***************************************************************************)
EXTENDS ContinuousScanner, TLAPS

LEMMA AgesAge == \A a \in Ages : Older(a) \in Ages /\ Older(a) >= a
BY ConstantsAssumption DEF Ages, Older

LEMMA InitTyped == Init => Budgeted
<1> SUFFICES ASSUME Init PROVE Budgeted
  OBVIOUS
<1>1. 0 \in 0..Forever /\ 0 \in Ages /\ Interval \in Ages
  BY ConstantsAssumption DEF Forever, Ages
<1>2. "off" \in LoopSteps \cap ManualSteps /\ "STOPPED" \in ScannerStates
  BY DEF LoopSteps, ManualSteps, ScannerStates
<1> QED
  BY <1>1, <1>2 DEF Init, TypeOK, Budgeted, Attempting

\* The controller, the loops and the manual callers keep the types.
LEMMA TypeStep == Budgeted /\ [Next]_vars => Budgeted'
<1> SUFFICES ASSUME Budgeted, [Next]_vars PROVE Budgeted'
  OBVIOUS
<1>0. 0 \in 0..Forever /\ Interval \in Ages
  BY ConstantsAssumption DEF Forever, Ages
<1> USE ConstantsAssumption DEF TypeOK, Loops, Budgeted, Attempting
<1>1. ASSUME NEW t \in Loops, NEW budget \in 0..Forever, Enter(t, budget), age' \in Ages
      PROVE  Budgeted'
  BY <1>1 DEF Enter, Goto, ScannerStates, LoopSteps, ManualSteps, Ages
<1>2. CASE Start
  <2>1. PICK w \in Workers, budget \in 1..Forever : Enter(w, budget)
    BY <1>2 DEF Start
  <2>2. age' \in Ages /\ budget \in 0..Forever
    BY <1>2 DEF Start, Ages, Forever
  <2> QED
    BY <1>1, <2>1, <2>2
<1>3. CASE Stop
  BY <1>3 DEF Stop, ScannerStates, loop
<1>4. CASE Tick
  BY <1>4, AgesAge DEF Tick, Ages
<1>5. ASSUME NEW r \in Runners, Run(r)
      PROVE  Budgeted'
  <2>1. PICK budget \in 0..Forever : Enter(r, budget)
    BY <1>5 DEF Run
  <2> QED
    BY <1>1, <1>5, <2>1 DEF Run
<1>6. ASSUME NEW t \in Loops, ScanLoop(t)
      PROVE  Budgeted'
  <2>1. CASE Check(t)
    BY <1>6, <2>1 DEF Check, Goto, LoopSteps, ManualSteps, loop
  <2>2. CASE Skip(t)
    BY <1>6, <2>2 DEF Skip, Goto, LoopSteps, ManualSteps, Ages
  <2>3. CASE Begin(t)
    BY <1>6, <2>3 DEF Begin, Goto, LoopSteps, ManualSteps, ScannerStates
  <2>4. CASE Finish(t)
    BY <1>6, <2>4 DEF Finish, Goto, LoopSteps, ManualSteps, Ages
  <2>5. CASE Release(t)
    BY <1>6, <2>5 DEF Release, Goto, LoopSteps, ManualSteps, loop
  <2>6. CASE Resume(t)
    BY <1>6, <2>6 DEF Resume, Goto, LoopSteps, ManualSteps, ScannerStates, loop
  <2>7. CASE Abort(t)
    <3>1. CASE Quit(t) /\ state' \in ScannerStates
      BY <1>0, <1>6, <2>7, <3>1 DEF Abort, Quit, Goto, LoopSteps, ManualSteps
    <3>2. CASE Goto(t, "fail") /\ state' \in ScannerStates /\ UNCHANGED loop
      BY <1>6, <2>7, <3>2 DEF Abort, Goto, LoopSteps, ManualSteps, loop
    <3> QED
      BY <2>7, <3>1, <3>2 DEF Abort, ScannerStates
  <2>8. CASE Record(t)
    <3>1. Spent(t) \in 0..Forever
      BY <1>6, <2>8 DEF Record, Spent, Forever
    <3> QED
      BY <1>6, <2>8, <3>1 DEF Record, Goto, LoopSteps, ManualSteps, Ages
  <2>9. CASE Schedule(t)
    BY <1>6, <2>9 DEF Schedule, Goto, LoopSteps, ManualSteps, Ages
  <2>10. CASE Wait(t)
    BY <1>6, <2>10 DEF Wait, Goto, LoopSteps, ManualSteps, ScannerStates, loop
  <2>11. CASE Wake(t)
    BY <1>6, <2>11 DEF Wake, Goto, LoopSteps, ManualSteps, Ages
  <2>12. CASE End(t)
    <3>1. CASE Quit(t) /\ state' \in ScannerStates
      BY <1>0, <1>6, <2>12, <3>1 DEF End, Quit, Goto, LoopSteps, ManualSteps
    <3>2. CASE Goto(t, "return") /\ state' \in ScannerStates /\ UNCHANGED loop
      BY <1>6, <2>12, <3>2 DEF End, Goto, LoopSteps, ManualSteps, loop
    <3> QED
      BY <2>12, <3>1, <3>2 DEF End, ScannerStates
  <2>13. CASE RunReturns(t)
    BY <1>6, <2>13 DEF RunReturns, Quit, Goto, LoopSteps, ManualSteps, ScannerStates, Ages, Forever
  <2> QED
    BY <1>6, <2>1, <2>2, <2>3, <2>4, <2>5, <2>6, <2>7, <2>8, <2>9, <2>10, <2>11,
       <2>12, <2>13 DEF ScanLoop, LoopStep, Cycle
<1>7. ASSUME NEW m \in Manual, ManualBegin(m) \/ ScanOnce(m)
      PROVE  Budgeted'
  <2>1. CASE ManualBegin(m)
    BY <1>7, <2>1 DEF ManualBegin, Goto, LoopSteps, ManualSteps, Ages, loop
  <2>2. CASE ManualFinish(m)
    BY <1>7, <2>2 DEF ManualFinish, Goto, LoopSteps, ManualSteps, loop
  <2>3. CASE ManualStore(m)
    BY <1>7, <2>3 DEF ManualStore, Goto, LoopSteps, ManualSteps, Ages, loop
  <2>4. CASE ManualFree(m)
    BY <1>0, <1>7, <2>4 DEF ManualFree, Goto, LoopSteps, ManualSteps, loop
  <2> QED
    BY <1>7, <2>1, <2>2, <2>3, <2>4 DEF ScanOnce
<1>8. CASE UNCHANGED vars
  BY <1>8 DEF vars, loop
<1> QED
  BY <1>2, <1>3, <1>4, <1>5, <1>6, <1>7, <1>8 DEF Next

\* Every variable of the scanner keeps its type.
THEOREM ScannerTypeCorrect == Spec => []TypeOK
<1>1. Budgeted => TypeOK
  BY DEF Budgeted
<1> QED
  BY <1>1, InitTyped, TypeStep, PTL DEF Spec

-----------------------------------------------------------------------------
(* Exclusion *)

\* A step that hands the flag to nobody new leaves it with its owner.
LEMMA OwnersKept ==
    ASSUME BusyIsOwned, Owners' = Owners, busy' = busy
    PROVE  BusyIsOwned'
BY DEF BusyIsOwned

\* Taking a flag nobody holds makes the taker its only owner.
LEMMA OwnerComes ==
    ASSUME BusyIsOwned, ~busy, NEW t, Owners' = Owners \cup {t}, busy' = TRUE
    PROVE  BusyIsOwned'
BY DEF BusyIsOwned

\* Clearing it leaves none, as there was one.
LEMMA OwnerGoes ==
    ASSUME BusyIsOwned, NEW t \in Owners, Owners' = Owners \ {t}, busy' = FALSE
    PROVE  BusyIsOwned'
BY DEF BusyIsOwned

LEMMA BusyStep == TypeOK /\ BusyIsOwned /\ [Next]_vars => BusyIsOwned'
<1> SUFFICES ASSUME TypeOK, BusyIsOwned, [Next]_vars PROVE BusyIsOwned'
  OBVIOUS
<1>p. /\ pc \in [Loops \cup Manual -> LoopSteps \cup ManualSteps]
      /\ Loops \cap Manual = {}
  BY ConstantsAssumption DEF TypeOK, Loops
<1>1. ASSUME NEW t \in Loops, NEW budget, ~Active(t), Enter(t, budget)
      PROVE  BusyIsOwned'
  <2>1. Owners' = Owners
    BY <1>p, <1>1 DEF Enter, Goto, Owners, Active
  <2> QED
    BY <1>1, <2>1, OwnersKept DEF Enter
<1>2. CASE Start
  BY <1>1, <1>2 DEF Start, Loops
<1>3. CASE Stop \/ Tick \/ UNCHANGED vars
  <2>1. pc' = pc /\ busy' = busy
    BY <1>3 DEF Stop, Tick, vars
  <2>2. Owners' = Owners
    BY <2>1 DEF Owners, Active
  <2> QED
    BY <2>1, <2>2, OwnersKept
<1>5. ASSUME NEW r \in Runners, Run(r)
      PROVE  BusyIsOwned'
  BY <1>1, <1>5 DEF Run, Loops
<1>6. ASSUME NEW t \in Loops, ScanLoop(t)
      PROVE  BusyIsOwned'
  <2>1. CASE Begin(t)
    <3>1. Owners' = Owners \cup {t}
      BY <1>p, <1>6, <2>1 DEF Begin, Goto, Owners, Active
    <3> QED
      BY <2>1, <3>1, OwnerComes DEF Begin
  <2>2. CASE Release(t)
    <3>1. t \in Owners /\ Owners' = Owners \ {t}
      BY <1>p, <1>6, <2>2 DEF Release, Goto, Owners, Active
    <3> QED
      BY <2>2, <3>1, OwnerGoes DEF Release
  <2>3. CASE Finish(t)
    <3>1. Owners' = Owners
      BY <1>p, <1>6, <2>3 DEF Finish, Goto, Owners, Active
    <3> QED
      BY <2>3, <3>1, OwnersKept DEF Finish
  <2>4. CASE \/ Check(t) \/ Skip(t) \/ Resume(t) \/ Abort(t) \/ Record(t)
             \/ Schedule(t) \/ Wait(t) \/ Wake(t) \/ End(t) \/ RunReturns(t)
    <3>1. /\ pc[t] \notin {"scan", "release"} /\ busy' = busy
          /\ \E step \in LoopSteps \ {"scan", "release"} : pc' = [pc EXCEPT ![t] = step]
      BY <2>4 DEF Check, Skip, Resume, Abort, Record, Schedule, Wait, Wake, End, RunReturns,
         Quit, Goto, LoopSteps
    <3>2. Owners' = Owners
      BY <1>p, <1>6, <3>1 DEF Owners, Active
    <3> QED
      BY <3>1, <3>2, OwnersKept
  <2> QED
    BY <1>6, <2>1, <2>2, <2>3, <2>4 DEF ScanLoop, LoopStep, Cycle
<1>7. ASSUME NEW m \in Manual, ManualBegin(m) \/ ScanOnce(m)
      PROVE  BusyIsOwned'
  <2>1. CASE ManualBegin(m)
    <3>1. Owners' = Owners \cup {m}
      BY <1>p, <1>7, <2>1 DEF ManualBegin, Goto, Owners, Active
    <3> QED
      BY <2>1, <3>1, OwnerComes DEF ManualBegin
  <2>2. CASE ManualFinish(m) \/ ManualStore(m)
    <3>1. Owners' = Owners
      BY <1>p, <1>7, <2>2 DEF ManualFinish, ManualStore, Goto, Owners, Active
    <3> QED
      BY <2>2, <3>1, OwnersKept DEF ManualFinish, ManualStore
  <2>3. CASE ManualFree(m)
    <3>1. m \in Owners /\ Owners' = Owners \ {m}
      BY <1>p, <1>7, <2>3 DEF ManualFree, Goto, Owners, Active
    <3> QED
      BY <2>3, <3>1, OwnerGoes DEF ManualFree
  <2> QED
    BY <1>7, <2>1, <2>2, <2>3 DEF ScanOnce
<1> QED
  BY <1>2, <1>3, <1>5, <1>6, <1>7 DEF Next

\* The busy flag is set exactly while one thread holds it, for any number of
\* workers, run() and scan_once() callers, errors included.
THEOREM BusyOwned == Spec => []BusyIsOwned
<1>1. Init => BusyIsOwned
  BY ConstantsAssumption DEF Init, BusyIsOwned, Owners, Active, Loops
<1>2. TypeOK /\ BusyIsOwned /\ [Next]_vars => BusyIsOwned'
  BY BusyStep
<1> QED
  BY <1>1, <1>2, ScannerTypeCorrect, PTL DEF Spec

\* No two scans run at a time, whoever started them.
THEOREM ScansExclude == Spec => []NoOverlap
<1>1. BusyIsOwned => NoOverlap
  BY DEF BusyIsOwned, NoOverlap, Owners, Active
<1> QED
  BY <1>1, BusyOwned, PTL

-----------------------------------------------------------------------------
(* One loop *)

\* What a step of a loop does to its own place, and what it leaves alone.
LEMMA LoopMoves ==
    ASSUME Budgeted, NEW t \in Loops, ScanLoop(t)
    PROVE  /\ Active(t) /\ use' = use /\ stop' = stop
           /\ \A u \in (Loops \cup Manual) \ {t} : pc'[u] = pc[u]
           /\ \A u \in Loops \ {t} : since'[u] = since[u] /\ rem'[u] = rem[u]
<1> USE DEF Budgeted, TypeOK, Loops, Active, Goto, Quit, loop
<1>1. CASE Check(t) \/ Skip(t) \/ Begin(t) \/ Finish(t)
  BY <1>1 DEF Check, Skip, Begin, Finish
<1>2. CASE Release(t) \/ Resume(t) \/ Record(t)
  BY <1>2 DEF Release, Resume, Record
<1>3. CASE Schedule(t) \/ Wait(t) \/ Wake(t)
  BY <1>3 DEF Schedule, Wait, Wake
<1>4. CASE Abort(t) \/ End(t) \/ RunReturns(t)
  BY <1>4 DEF Abort, End, RunReturns
<1> QED
  BY <1>1, <1>2, <1>3, <1>4 DEF ScanLoop, LoopStep, Cycle

\* Until it is over, a loop shows in the scanner's state.
LEMMA LoopShown ==
    ASSUME LoopInv, NEW t \in Loops, ScanLoop(t), Active(t)'
    PROVE  Shown(t)'
<1>0. Budgeted /\ Active(t) /\ Shown(t) /\ use' = use
  BY LoopMoves DEF LoopInv
<1> USE DEF Budgeted, TypeOK, Loops, Active, Shown, Goto, Quit, loop
<1>1. CASE Check(t) \/ Skip(t) \/ Begin(t) \/ Finish(t)
  BY <1>0, <1>1 DEF Check, Skip, Begin, Finish
<1>2. CASE Release(t) \/ Resume(t) \/ Record(t)
  BY <1>0, <1>2 DEF Release, Resume, Record
<1>3. CASE Schedule(t) \/ Wait(t) \/ Wake(t)
  BY <1>0, <1>3 DEF Schedule, Wait, Wake
<1>4. CASE Abort(t) \/ End(t) \/ RunReturns(t)
  BY <1>0, <1>4 DEF Abort, End, RunReturns
<1> QED
  BY <1>1, <1>2, <1>3, <1>4 DEF ScanLoop, LoopStep, Cycle

\* A loop is only ever started when there is none.
LEMMA NoneActive ==
    ASSUME SingleRunner, LoopInv, Start \/ \E r \in Runners : Run(r)
    PROVE  \A t \in Loops : ~Active(t)
<1> SUFFICES ASSUME NEW t \in Loops, Active(t) PROVE FALSE
  OBVIOUS
<1>1. Shown(t)
  BY DEF LoopInv
<1>2. CASE Start
  BY <1>1, <1>2, ConstantsAssumption DEF Start, MayStart, Shown
<1>3. CASE \E r \in Runners : Run(r)
  BY <1>1, <1>3 DEF Run, Shown, SingleRunner
<1> QED
  BY <1>2, <1>3

\* The loop that is started.
LEMMA LoopEnters ==
    ASSUME SingleRunner, LoopInv, Start \/ \E r \in Runners : Run(r)
    PROVE  \E t \in Loops :
              /\ pc' = [pc EXCEPT ![t] = "check"]
              /\ state' = "RUNNING" /\ use' = use /\ busy' = busy
              /\ Shown(t)' /\ UNCHANGED <<rem, since, begun>>
<1>1. CASE Start
  BY <1>1 DEF Start, Enter, Goto, Loops, Shown, LoopInv, Budgeted, TypeOK
<1>2. CASE \E r \in Runners : Run(r)
  BY <1>2 DEF Run, Enter, Goto, Loops, Shown, LoopInv, Budgeted, TypeOK
<1> QED
  BY <1>1, <1>2

LEMMA LoopInvStep ==
    ASSUME SingleRunner, LoopInv, [Next]_vars
    PROVE  LoopInv'
<1>t. Budgeted /\ Budgeted' /\ pc \in [Loops \cup Manual -> LoopSteps \cup ManualSteps]
  BY TypeStep DEF LoopInv, Budgeted, TypeOK
<1>1. CASE Start \/ \E r \in Runners : Run(r)
  <2>1. \A t \in Loops : ~Active(t)
    BY <1>1, NoneActive
  <2>2. PICK t \in Loops : pc' = [pc EXCEPT ![t] = "check"] /\ Shown(t)'
    BY <1>1, LoopEnters
  <2>3. \A u \in Loops : Active(u)' => u = t
    BY <1>t, <2>1, <2>2 DEF Active
  <2> QED
    BY <1>t, <2>2, <2>3 DEF LoopInv, OneLoop
<1>2. CASE Stop
  <2>1. pc' = pc /\ use' = use /\ state' = "STOPPING"
    BY <1>2 DEF Stop
  <2> QED
    BY <1>t, <2>1 DEF LoopInv, OneLoop, Shown, Active
<1>3. ASSUME NEW t \in Loops, ScanLoop(t)
      PROVE  LoopInv'
  <2>1. \A u \in Loops : Active(u) => u = t
    BY <1>3, <1>t, LoopMoves DEF LoopInv, OneLoop
  <2>2. \A u \in Loops : Active(u)' => u = t
    BY <1>3, <1>t, <2>1, LoopMoves DEF Active
  <2> QED
    BY <1>3, <1>t, <2>2, LoopShown DEF LoopInv, OneLoop
<1>4. ASSUME NEW m \in Manual, ManualBegin(m) \/ ScanOnce(m)
      PROVE  LoopInv'
  <2>1. /\ \A u \in Loops : pc'[u] = pc[u]
        /\ state' = state /\ use' = use
    BY <1>4, <1>t, ConstantsAssumption
       DEF ManualBegin, ScanOnce, ManualFinish, ManualStore, ManualFree, Goto, Loops
  <2> QED
    BY <1>t, <2>1 DEF LoopInv, OneLoop, Shown, Active
<1>5. CASE Tick \/ UNCHANGED vars
  <2>1. pc' = pc /\ state' = state /\ use' = use
    BY <1>5 DEF Tick, vars
  <2> QED
    BY <1>t, <2>1 DEF LoopInv, OneLoop, Shown, Active
<1> QED
  BY <1>1, <1>2, <1>3, <1>4, <1>5 DEF Next

LEMMA LoopInvariant == ASSUME SingleRunner PROVE Spec => []LoopInv
<1>1. Init => LoopInv
  BY InitTyped DEF Init, LoopInv, OneLoop, Active
<1>2. LoopInv /\ [Next]_vars => LoopInv'
  BY LoopInvStep
<1> QED
  BY <1>1, <1>2, PTL DEF Spec

\* However start(), stop() and run() follow one another, a scanner has one
\* loop at most.
THEOREM OneLoopOnly == ASSUME SingleRunner PROVE Spec => []OneLoop
<1>1. LoopInv => OneLoop
  BY DEF LoopInv
<1> QED
  BY <1>1, LoopInvariant, PTL

\* A scanner that says STOPPED has no loop running.
THEOREM StoppedMeansIdle == ASSUME SingleRunner PROVE Spec => []StoppedIsIdle
<1>1. LoopInv => StoppedIsIdle
  BY DEF LoopInv, StoppedIsIdle, Shown, Active
<1> QED
  BY <1>1, LoopInvariant, PTL

-----------------------------------------------------------------------------
(* Back-pressure *)

\* A loop's own step keeps its pace.
LEMMA PaceOwn ==
    ASSUME PaceInv, NEW t \in Loops, ScanLoop(t)
    PROVE  Paced(t)'
<1>0. /\ Budgeted /\ Paced(t) /\ BusyIsOwned /\ stop' = stop
      /\ \A m \in Manual : pc'[m] = pc[m]
  BY LoopMoves, ConstantsAssumption DEF PaceInv, LoopInv, Loops
<1>1. pc \in [Loops \cup Manual -> LoopSteps \cup ManualSteps] /\ since \in [Loops -> Ages]
      /\ rem \in [Loops -> Ages] /\ age \in Ages /\ begun \in [Manual -> Ages]
      /\ raised \in [Loops -> BOOLEAN]
  BY <1>0 DEF Budgeted, TypeOK
<1>i. Interval \in Nat /\ Ages = 0..Interval
  BY ConstantsAssumption DEF Ages
<1> USE <1>0, <1>1, <1>i
<1>2. CASE Check(t)
  BY <1>2 DEF Check, Goto, Paced, loop
<1>3. CASE Skip(t)
  BY <1>3 DEF Skip, Goto, Paced
<1>4. CASE Begin(t) \/ Finish(t)
  BY <1>4 DEF Begin, Finish, Goto, Paced
<1>5. CASE Release(t)
  <2>1. \A m \in Manual : pc[m] \notin {"scan", "store"}
    BY <1>5, ConstantsAssumption DEF Release, BusyIsOwned, Owners, Active, Loops
  <2> QED
    BY <1>5, <2>1 DEF Release, Goto, Paced
<1>6. CASE Resume(t) \/ Record(t)
  BY <1>6 DEF Resume, Record, Goto, Paced, loop
<1>7. CASE Abort(t)
  BY <1>7 DEF Abort, Quit, Goto, Paced, loop
<1>8. CASE Schedule(t)
  BY <1>8 DEF Schedule, Goto, Paced
<1>9. CASE Wait(t) \/ Wake(t)
  BY <1>9 DEF Wait, Wake, Goto, Paced, loop
<1>10. CASE End(t) \/ RunReturns(t)
  BY <1>10 DEF End, RunReturns, Quit, Goto, Paced, loop
<1> QED
  BY <1>2, <1>3, <1>4, <1>5, <1>6, <1>7, <1>8, <1>9, <1>10 DEF ScanLoop, LoopStep, Cycle

\* The passing of time keeps the pace of every loop.
LEMMA PaceTick ==
    ASSUME PaceInv, Tick, NEW t \in Loops
    PROVE  Paced(t)'
<1>1. /\ pc' = pc /\ stop' = stop /\ age' = Older(age)
      /\ since'[t] = Older(since[t])
      /\ \A m \in Manual : begun'[m] = Older(begun[m])
      /\ rem'[t] = IF pc[t] = "sleep" /\ rem[t] > 0 THEN rem[t] - 1 ELSE rem[t]
  BY DEF Tick
<1>2. /\ Interval \in Nat /\ since[t] \in 0..Interval /\ rem[t] \in 0..Interval
      /\ age \in 0..Interval /\ \A m \in Manual : begun[m] \in 0..Interval
  BY ConstantsAssumption DEF PaceInv, LoopInv, Budgeted, TypeOK, Ages
<1>3. \A a, b \in 0..Interval : a <= b => Older(a) <= Older(b)
  BY <1>2 DEF Older
<1> QED
  BY <1>1, <1>2, <1>3 DEF PaceInv, Paced, Older

LEMMA PaceStep ==
    ASSUME SingleRunner, ~OldReferences, PaceInv, [Next]_vars
    PROVE  PaceInv'
<1>t. /\ Budgeted /\ LoopInv' /\ BusyIsOwned'
      /\ pc \in [Loops \cup Manual -> LoopSteps \cup ManualSteps]
  BY LoopInvStep, BusyStep DEF PaceInv, LoopInv, Budgeted, TypeOK
<1> SUFFICES ASSUME NEW u \in Loops PROVE Paced(u)'
  BY <1>t DEF PaceInv
<1>u. Paced(u) /\ Loops \cap Manual = {}
  BY ConstantsAssumption DEF PaceInv, Loops
<1>1. CASE Start \/ \E r \in Runners : Run(r)
  <2>1. pc[u] = "off"
    BY <1>1, NoneActive DEF PaceInv, Active
  <2>2. PICK t \in Loops : pc' = [pc EXCEPT ![t] = "check"] /\ since' = since
    BY <1>1, LoopEnters DEF PaceInv
  <2> QED
    BY <1>t, <1>u, <2>1, <2>2 DEF Paced
<1>2. CASE Stop
  BY <1>u, <1>2 DEF Stop, Paced, loop
<1>3. ASSUME NEW t \in Loops, ScanLoop(t)
      PROVE  Paced(u)'
  <2>1. CASE u = t
    BY <1>3, <2>1, PaceOwn
  <2>2. CASE u # t
    <3>1. pc[u] = "off" /\ pc'[u] = "off" /\ since'[u] = since[u]
      BY <1>3, <1>t, <2>2, LoopMoves DEF PaceInv, LoopInv, OneLoop, Active
    <3> QED
      BY <1>u, <3>1 DEF Paced
  <2> QED
    BY <2>1, <2>2
<1>4. ASSUME NEW m \in Manual, ManualBegin(m)
      PROVE  Paced(u)'
  <2>1. pc'[u] = pc[u] /\ stop' = stop /\ age' = age /\ UNCHANGED loop
    BY <1>4, <1>t, <1>u DEF ManualBegin, Goto
  <2>2. \A n \in Manual : pc'[n] \in {"scan", "store"} =>
            \/ begun'[n] = 0
            \/ pc[n] \in {"scan", "store"} /\ begun'[n] = begun[n]
    <3>1. begun \in [Manual -> Ages] /\ m \in Loops \cup Manual
      BY <1>t DEF Budgeted, TypeOK
    <3>2. pc' = [pc EXCEPT ![m] = "scan"] /\ begun' = [begun EXCEPT ![m] = 0]
      BY <1>4 DEF ManualBegin, Goto
    <3>3. begun'[m] = 0
      BY <3>1, <3>2
    <3>4. \A n \in Manual : n # m => pc'[n] = pc[n] /\ begun'[n] = begun[n]
      BY <3>1, <3>2, <1>t
    <3> QED
      BY <3>3, <3>4
  <2>3. since[u] \in Nat
    BY <1>t, ConstantsAssumption DEF Budgeted, TypeOK, Ages
  <2> QED
    BY <1>u, <2>1, <2>2, <2>3 DEF Paced, loop
<1>5. ASSUME NEW m \in Manual, ScanOnce(m)
      PROVE  Paced(u)'
  <2>1. pc'[u] = pc[u] /\ stop' = stop /\ UNCHANGED loop
    BY <1>5, <1>t, <1>u DEF ScanOnce, ManualFinish, ManualStore, ManualFree, Goto
  <2>2. \A n \in Manual : pc'[n] \in {"scan", "store"} =>
            pc[n] \in {"scan", "store"} /\ begun'[n] = begun[n]
    BY <1>5, <1>t DEF ScanOnce, ManualFinish, ManualStore, ManualFree, Goto, Budgeted, TypeOK
  <2>3. \/ age' = age
        \/ pc[m] = "store" /\ age' = begun[m]
    <3>1. CASE ManualFinish(m) \/ ManualFree(m)
      BY <3>1 DEF ManualFinish, ManualFree
    <3>2. CASE ManualStore(m)
      <4>1. pc[m] = "store" /\ age' \in {begun[m]}
        BY <3>2 DEF ManualStore
      <4> QED
        BY <4>1
    <3> QED
      BY <1>5, <3>1, <3>2 DEF ScanOnce
  <2> QED
    BY <1>u, <2>1, <2>2, <2>3 DEF Paced, loop
<1>6. CASE Tick
  BY <1>6, PaceTick
<1>7. CASE UNCHANGED vars
  BY <1>u, <1>7 DEF Paced, vars, loop
<1> QED
  BY <1>1, <1>2, <1>3, <1>4, <1>5, <1>6, <1>7 DEF Next

\* Whatever manual scans, stops and starts come in between, a loop's cycle
\* starts a full interval after its last one ended.
THEOREM BackPressureKept ==
    ASSUME SingleRunner, ~OldReferences
    PROVE  Spec => BackPressure
<1>1. Init => PaceInv
  <2>1. Init => LoopInv
    BY InitTyped DEF Init, LoopInv, OneLoop, Active
  <2>2. Init => BusyIsOwned
    BY ConstantsAssumption DEF Init, BusyIsOwned, Owners, Active, Loops
  <2> QED
    BY <2>1, <2>2, ConstantsAssumption DEF Init, PaceInv, Paced
<1>2. PaceInv /\ [Next]_vars => PaceInv'
  BY PaceStep
<1> DEFINE Step == \A t \in Loops :
                     pc[t] = "acquire" /\ pc'[t] = "scan" => since[t] = Interval
<1>3. PaceInv /\ [Next]_vars => [Step]_vars
  BY DEF PaceInv, Paced
<1> QED
  BY <1>1, <1>2, <1>3, PTL DEF Spec, BackPressure
=============================================================================
