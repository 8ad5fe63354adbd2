------------------ MODULE SubmissionInfrastructure_proofs ------------------
(***************************************************************************)
(* Type correctness of SubmissionInfrastructure and the safety properties  *)
(* of its records, for every set of commands and callers and every bound.  *)
(***************************************************************************)
EXTENDS SubmissionInfrastructure, FiniteSetTheorems, TLAPS

-----------------------------------------------------------------------------
(* Types *)

\* The processes are well typed.
CallOK ==
    /\ pc \in [Procs -> Steps]
    /\ job \in [Procs -> Job]
    /\ seen \in [Procs -> SUBSET Record]
    /\ prev \in [Procs -> SUBSET Record]
    /\ new \in [Procs -> SUBSET Record]

LEMMA TypeParts == TypeOK => CallOK
BY DEF TypeOK, CallOK

LEMMA NoJobType == NoJob \in Job
<1>1. (CHOOSE c \in Commands : TRUE) \in Commands
  BY ConstantsAssumption
<1> QED
  BY <1>1, ConstantsAssumption DEF NoJob, Job, Ops, Times

\* Returning from a call keeps the processes well typed.
LEMMA ReturnType ==
    ASSUME NEW p \in Procs, CallOK, Return(p)
    PROVE  CallOK'
BY NoJobType DEF CallOK, Return, Steps

\* Going on with a step, a loaded snapshot and one to store does too.
LEMMA ProceedType ==
    ASSUME NEW p \in Procs, CallOK, NEW s \in Steps,
           NEW loaded \in SUBSET Record, NEW made \in SUBSET Record,
           Proceed(p, s, loaded, made)
    PROVE  CallOK'
BY DEF CallOK, Proceed

\* A snapshot built by the engine is a record of the store.
LEMMA SnapshotType ==
    ASSUME NEW p \in Procs, TypeOK, NEW s \in States, NEW n \in Nat \ {0}
    PROVE  Snapshot(p, s, n) \in Record
<1>1. job[p] \in Job /\ prev[p] \in SUBSET Record
  BY DEF TypeOK
<1>2. PrevEvents(p) \in Nat
  <2>1. CASE prev[p] = {}
    BY <2>1 DEF PrevEvents
  <2>2. CASE prev[p] # {}
    <3>1. (CHOOSE r \in prev[p] : TRUE) \in prev[p]
      BY <2>2
    <3> QED
      BY <1>1, <2>2, <3>1 DEF PrevEvents, Record
  <2> QED
    BY <2>1, <2>2
<1> QED
  BY <1>1, <1>2 DEF Snapshot, Job, Record

\* Every outcome of a submission names a broker state, a count and a result.
LEMMA SubmitOutcomesType ==
    ASSUME TypeOK, NEW c \in Commands, NEW out \in SubmitOutcomes(c)
    PROVE  out[1] \in BrokerStates /\ out[2] \in Nat /\ out[2] >= orders[c] /\ out[3] \in States
<1>1. broker[c] \in BrokerStates /\ orders[c] \in Nat
  BY DEF TypeOK
<1>2. CASE out \in NotReached(c)
  BY <1>1, <1>2 DEF NotReached, Inconclusive, States
<1>3. CASE out \in Deduplicated(c)
  BY <1>1, <1>3 DEF Deduplicated, Inconclusive, States
<1>4. CASE out \in Refused(c)
  BY <1>1, <1>4 DEF Refused, Inconclusive, States, BrokerStates
<1>5. CASE out \in Taken(c)
  BY <1>1, <1>5 DEF Taken, Inconclusive, States, BrokerStates
<1> QED
  BY <1>2, <1>3, <1>4, <1>5 DEF SubmitOutcomes

\* One step per action: every action keeps every variable in its type.
LEMMA TypeStep == TypeOK /\ [Next]_vars => TypeOK'
<1> SUFFICES ASSUME TypeOK, [Next]_vars
             PROVE  TypeOK'
  OBVIOUS
<1> USE DEF external, history, bounds
<1>a. CallOK
  BY TypeParts
<1>1. ASSUME NEW p \in Procs, Start(p)
      PROVE  TypeOK'
  BY <1>1 DEF Start, TypeOK, Job, Steps
<1>2. ASSUME NEW p \in Procs, ListStore(p)
      PROVE  TypeOK'
  BY <1>2 DEF ListStore, TypeOK, RecordsOf, Steps
<1>3. ASSUME NEW p \in Procs, Load(p)
      PROVE  TypeOK'
  <2>1. CASE LoadAmbiguous(p)
    <3>1. CallOK'
      BY <1>a, <2>1, ReturnType DEF LoadAmbiguous
    <3> QED
      BY <2>1, <3>1 DEF LoadAmbiguous, TypeOK, CallOK
  <2>2. CASE LoadNothing(p)
    <3>1. job[p] \in Job /\ CreatedRecord(p) \in Record
      BY <1>a DEF CallOK, CreatedRecord, Job, Record, States
    <3>2. CallOK'
      <4>1. CASE job[p].op = "create"
        BY <1>a, <2>2, <3>1, <4>1, ProceedType DEF LoadNothing, Steps
      <4>2. CASE job[p].op = "submit"
        BY <1>a, <2>2, <4>2, ProceedType DEF LoadNothing, Steps
      <4>3. CASE job[p].op = "reconcile"
        BY <1>a, <2>2, <4>3, ReturnType DEF LoadNothing
      <4> QED
        BY <3>1, <4>1, <4>2, <4>3 DEF Job, Ops
    <3> QED
      BY <2>2, <3>2 DEF LoadNothing, TypeOK, CallOK
  <2>3. CASE LoadOne(p)
    <3>1. PICK r \in Matches(p) :
            \/ Proceed(p, "dispatch", {r}, {})
            \/ Proceed(p, "query", {r}, {})
            \/ Return(p)
      BY <2>3 DEF LoadOne
    <3>2. r \in Record
      BY DEF Matches, Files, TypeOK
    <3>3. CallOK'
      BY <1>a, <3>1, <3>2, ProceedType, ReturnType DEF Steps
    <3> QED
      BY <2>3, <3>3 DEF LoadOne, TypeOK, CallOK
  <2> QED
    BY <1>3, <2>1, <2>2, <2>3 DEF Load
<1>4. ASSUME NEW p \in Procs, Contact(p)
      PROVE  TypeOK'
  <2>0. job[p].cmd \in Commands /\ prev[p] \in SUBSET Record
    BY <1>a DEF CallOK, Job
  <2>1. CASE RefuseContact(p)
    <3>1. CallOK'
      BY <1>a, <2>1, ReturnType DEF RefuseContact
    <3> QED
      BY <2>1, <3>1 DEF RefuseContact, TypeOK, CallOK
  <2>2. CASE Dispatch(p)
    <3>1. PICK out \in SubmitOutcomes(job[p].cmd) :
            /\ broker' = [broker EXCEPT ![job[p].cmd] = out[1]]
            /\ orders' = [orders EXCEPT ![job[p].cmd] = out[2]]
            /\ \/ /\ Proceed(p, "save", prev[p], {Snapshot(p, out[3], 2)})
                  /\ lost' = lost
               \/ /\ Return(p)
                  /\ lost' = [lost EXCEPT ![job[p].cmd] = @ + 1]
      BY <2>2 DEF Dispatch
    <3>2. out[1] \in BrokerStates /\ out[2] \in Nat /\ out[3] \in States
      BY <2>0, SubmitOutcomesType
    <3>3. Snapshot(p, out[3], 2) \in Record
      BY <3>2, SnapshotType
    <3>4. CallOK'
      BY <1>a, <2>0, <3>1, <3>3, ProceedType, ReturnType DEF Steps
    <3> QED
      BY <2>0, <2>2, <3>1, <3>2, <3>4 DEF Dispatch, TypeOK, CallOK
  <2>3. CASE Query(p)
    <3>1. PICK answer \in QueryResults(job[p].cmd) :
            \/ Proceed(p, "save", prev[p], {Snapshot(p, answer, 1)})
            \/ Return(p)
      BY <2>3 DEF Query
    <3>2. answer \in States
      BY <2>0 DEF QueryResults, Inconclusive, TypeOK, BrokerStates, States
    <3>3. Snapshot(p, answer, 1) \in Record
      BY <3>2, SnapshotType
    <3>4. CallOK'
      BY <1>a, <2>0, <3>1, <3>3, ProceedType, ReturnType DEF Steps
    <3> QED
      BY <2>3, <3>4 DEF Query, TypeOK, CallOK
  <2> QED
    BY <1>4, <2>1, <2>2, <2>3 DEF Contact
<1>5. ASSUME NEW p \in Procs, Persist(p)
      PROVE  TypeOK'
  <2>1. CASE Save(p)
    <3>1. \/ Return(p) /\ ForgetDispatch(p)
          \/ /\ \/ pc' = [pc EXCEPT ![p] = "delete"]
                \/ pc' = [pc EXCEPT ![p] = "write"]
             /\ UNCHANGED <<job, seen, prev, new, lost>>
      BY <2>1 DEF Save
    <3>2. job[p].cmd \in Commands
      BY <1>a DEF CallOK, Job
    <3>3. CallOK'
      BY <1>a, <3>1, ReturnType DEF CallOK, Steps, Persisting
    <3>4. lost' \in [Commands -> Nat]
      BY <3>1, <3>2 DEF ForgetDispatch, TypeOK
    <3> QED
      BY <2>1, <3>3, <3>4 DEF Save, TypeOK, CallOK
  <2>6. CASE Write(p)
    BY <2>6 DEF Write, TypeOK, Steps, Persisting
  <2>2. CASE DeletePrevious(p)
    BY <2>2 DEF DeletePrevious, TypeOK, Steps, Persisting
  <2>3. CASE Relist(p)
    BY <2>3 DEF Relist, TypeOK, RecordsOf, Steps, Persisting
  <2>4. CASE FindStale(p)
    <3>1. CASE Return(p)
      <4>1. CallOK'
        BY <1>a, <3>1, ReturnType
      <4> QED
        BY <2>4, <4>1 DEF FindStale, TypeOK, CallOK
    <3>2. ASSUME NEW r \in Matches(p),
                 pc' = [pc EXCEPT ![p] = "cleanup"], seen' = [seen EXCEPT ![p] = {r}],
                 UNCHANGED <<job, prev, new>>
          PROVE  TypeOK'
      BY <1>a, <2>4, <3>2 DEF FindStale, TypeOK, Matches, Files, Steps, Persisting
    <3> QED
      BY <2>4, <3>1, <3>2 DEF FindStale
  <2>5. CASE DeleteStale(p)
    <3>1. CallOK'
      BY <1>a, <2>5, ReturnType DEF DeleteStale
    <3> QED
      BY <2>5, <3>1 DEF DeleteStale, TypeOK, CallOK
  <2> QED
    BY <1>5, <2>1, <2>2, <2>3, <2>4, <2>5, <2>6 DEF Persist
<1>6. ASSUME NEW p \in Procs, Crash(p)
      PROVE  TypeOK'
  <2>1. CallOK'
    BY <1>6, <1>a, ReturnType DEF Crash
  <2>2. lost' \in [Commands -> Nat]
    BY <1>6 DEF Crash, ForgetDispatch, TypeOK, Job
  <2> QED
    BY <1>6, <2>1, <2>2 DEF Crash, TypeOK, CallOK
<1>7. ASSUME NEW c \in Commands, BrokerProgress(c)
      PROVE  TypeOK'
  <2>1. \A s \in BrokerStates : BrokerMoves[s] \subseteq BrokerStates
    BY DEF BrokerMoves, BrokerStates
  <2> QED
    BY <1>7, <2>1 DEF BrokerProgress, TypeOK, call
<1>8. CASE UNCHANGED vars
  BY <1>8 DEF vars, call, TypeOK
<1> QED
  BY <1>1, <1>2, <1>3, <1>4, <1>5, <1>6, <1>7, <1>8 DEF Next

\* TypeOK holds in every state: every snapshot on disk and every call in
\* progress is well formed, whatever the callers, crashes and answers.
THEOREM TypeCorrect == Spec => []TypeOK
<1>1. Init => TypeOK
  BY NoJobType, ConstantsAssumption
     DEF Init, TypeOK, BrokerStates, Times, Steps
<1> QED
  BY <1>1, TypeStep, PTL DEF Spec

-----------------------------------------------------------------------------
(* Records speak only of orders that exist *)

\* An outcome that reports an order leaves the broker with one, and the
\* broker has one whenever it names a state of one.
LEMMA SubmitOutcomesBacked ==
    ASSUME TypeOK, NEW c \in Commands, NEW out \in SubmitOutcomes(c),
           broker[c] \in OrderStates => orders[c] > 0
    PROVE  /\ out[3] \in OrderStates => out[2] > 0
           /\ out[1] \in OrderStates => out[2] > 0
<1>1. broker[c] \in BrokerStates /\ orders[c] \in Nat
  BY DEF TypeOK
<1>2. CASE out \in NotReached(c)
  BY <1>1, <1>2 DEF NotReached, Inconclusive, OrderStates
<1>3. CASE out \in Deduplicated(c) /\ orders[c] > 0
  BY <1>1, <1>3 DEF Deduplicated, Inconclusive, OrderStates
<1>4. CASE out \in Refused(c)
  BY <1>1, <1>4 DEF Refused, Inconclusive, OrderStates
<1>5. CASE out \in Taken(c)
  BY <1>1, <1>5 DEF Taken, Inconclusive, OrderStates
<1> QED
  BY <1>2, <1>3, <1>4, <1>5 DEF SubmitOutcomes

\* A step that adds no snapshot to store or to be stored, and takes no order
\* away, keeps every record backed.
LEMMA BackedKept ==
    ASSUME RecordsBacked, TypeOK',
           store' \subseteq store,
           \A p \in Procs : new'[p] \subseteq new[p],
           UNCHANGED external
    PROVE  RecordsBacked'
BY DEF RecordsBacked, RecordedOrderExists, Backed, external

LEMMA RecordsBackedStep == RecordsBacked /\ [Next]_vars => RecordsBacked'
<1> SUFFICES ASSUME RecordsBacked, [Next]_vars
             PROVE  RecordsBacked'
  OBVIOUS
<1>t. TypeOK /\ TypeOK'
  BY TypeStep DEF RecordsBacked
<1>n. new \in [Procs -> SUBSET Record] /\ job \in [Procs -> Job]
  BY <1>t DEF TypeOK
<1>1. ASSUME NEW p \in Procs,
             Start(p) \/ ListStore(p) \/ LoadAmbiguous(p) \/ LoadOne(p)
               \/ RefuseContact(p) \/ DeletePrevious(p) \/ Relist(p)
               \/ FindStale(p) \/ DeleteStale(p) \/ Crash(p)
      PROVE  RecordsBacked'
  <2>1. store' \subseteq store
    BY <1>1 DEF Start, ListStore, LoadAmbiguous, LoadOne, RefuseContact,
                DeletePrevious, Relist, FindStale, DeleteStale, Crash
  <2>2. \A q \in Procs : new'[q] \subseteq new[q]
    <3>1. ASSUME Return(p)
          PROVE  \A q \in Procs : new'[q] \subseteq new[q]
      BY <1>n, <3>1 DEF Return
    <3>2. ASSUME NEW s, NEW loaded, Proceed(p, s, loaded, {})
          PROVE  \A q \in Procs : new'[q] \subseteq new[q]
      BY <1>n, <3>2 DEF Proceed
    <3> QED
      BY <1>1, <3>1, <3>2 DEF Start, ListStore, LoadAmbiguous, LoadOne,
           RefuseContact, DeletePrevious, Relist, FindStale, DeleteStale, Crash
  <2>3. UNCHANGED external
    BY <1>1 DEF Start, ListStore, LoadAmbiguous, LoadOne, RefuseContact,
                DeletePrevious, Relist, FindStale, DeleteStale, Crash
  <2> QED
    BY <1>t, <2>1, <2>2, <2>3, BackedKept
<1>2. ASSUME NEW p \in Procs, LoadNothing(p)
      PROVE  RecordsBacked'
  <2>1. \A q \in Procs : new'[q] \subseteq new[q] \cup {CreatedRecord(p)}
    BY <1>2, <1>n DEF LoadNothing, Proceed, Return
  <2>2. CreatedRecord(p).state \notin OrderStates
    BY DEF CreatedRecord, OrderStates
  <2>3. store' = store /\ orders' = orders /\ broker' = broker
    BY <1>2 DEF LoadNothing, external
  <2> QED
    BY <1>t, <2>1, <2>2, <2>3 DEF RecordsBacked, RecordedOrderExists, Backed
<1>3. ASSUME NEW p \in Procs, Dispatch(p)
      PROVE  RecordsBacked'
  <2> DEFINE c == job[p].cmd
  <2>0. c \in Commands
    BY <1>n DEF Job
  <2>1. PICK out \in SubmitOutcomes(c) :
            /\ broker' = [broker EXCEPT ![c] = out[1]]
            /\ orders' = [orders EXCEPT ![c] = out[2]]
            /\ \A q \in Procs : new'[q] \subseteq new[q] \cup {Snapshot(p, out[3], 2)}
            /\ store' = store
    BY <1>3, <1>n DEF Dispatch, Proceed, Return
  <2>2. /\ out[2] \in Nat /\ out[2] >= orders[c]
        /\ out[3] \in OrderStates => out[2] > 0
        /\ out[1] \in OrderStates => out[2] > 0
    BY <1>t, <2>0, SubmitOutcomesType, SubmitOutcomesBacked DEF RecordsBacked
  <2>3. \A d \in Commands : orders'[d] >= orders[d] /\ orders[d] \in Nat /\ orders'[d] \in Nat
    BY <1>t, <2>0, <2>1, <2>2 DEF TypeOK
  <2>4. \A r \in Record : Backed(r) => Backed(r)'
    BY <2>3 DEF Backed, Record
  <2> DEFINE made == Snapshot(p, out[3], 2)
  <2>5. made.state \in OrderStates => orders'[made.cmd] > 0
    BY <1>t, <2>0, <2>1, <2>2 DEF Snapshot, TypeOK
  <2>6. \A d \in Commands : broker'[d] \in OrderStates => orders'[d] > 0
    BY <1>t, <2>0, <2>1, <2>2 DEF RecordsBacked, TypeOK
  <2>7. RecordedOrderExists'
    BY <1>t, <2>1, <2>4 DEF RecordsBacked, RecordedOrderExists, Backed, TypeOK
  <2>8. \A q \in Procs : \A r \in new'[q] : Backed(r)'
    <3>1. ASSUME NEW q \in Procs, NEW r \in new'[q]
          PROVE  r.state \in OrderStates => orders'[r.cmd] > 0
      <4>1. CASE r = made
        BY <2>5, <4>1
      <4>2. CASE r \in new[q]
        BY <1>n, <2>4, <4>2 DEF RecordsBacked, Backed
      <4> QED
        BY <2>1, <4>1, <4>2
    <3> QED
      BY <3>1 DEF Backed
  <2> QED
    BY <1>t, <2>6, <2>7, <2>8 DEF RecordsBacked
<1>4. ASSUME NEW p \in Procs, Query(p)
      PROVE  RecordsBacked'
  <2> DEFINE c == job[p].cmd
  <2>0. c \in Commands
    BY <1>n DEF Job
  <2>1. PICK answer \in QueryResults(c) :
            \A q \in Procs : new'[q] \subseteq new[q] \cup {Snapshot(p, answer, 1)}
    BY <1>4, <1>n DEF Query, Proceed, Return
  <2>2. store' = store /\ orders' = orders /\ broker' = broker
    BY <1>4 DEF Query, external
  <2>3. answer \in OrderStates => orders[c] > 0
    BY <2>0, <2>1 DEF QueryResults, Inconclusive, OrderStates, RecordsBacked
  <2>4. Backed(Snapshot(p, answer, 1))
    BY <2>3 DEF Backed, Snapshot
  <2> QED
    BY <1>t, <2>1, <2>2, <2>4 DEF RecordsBacked, RecordedOrderExists, Backed
<1>5. ASSUME NEW p \in Procs, Save(p) \/ Write(p)
      PROVE  RecordsBacked'
  <2>1. store' \subseteq store \cup new[p]
    BY <1>5 DEF Save, Write
  <2>2. \A q \in Procs : new'[q] \subseteq new[q]
    BY <1>5, <1>n DEF Save, Write, Return
  <2>3. orders' = orders /\ broker' = broker
    BY <1>5 DEF Save, Write, external
  <2> QED
    BY <1>t, <2>1, <2>2, <2>3 DEF RecordsBacked, RecordedOrderExists, Backed
<1>6. ASSUME NEW c \in Commands, BrokerProgress(c)
      PROVE  RecordsBacked'
  <2>1. PICK s \in BrokerMoves[broker[c]] : broker' = [broker EXCEPT ![c] = s]
    BY <1>6 DEF BrokerProgress
  <2>2. store' = store /\ new' = new /\ orders' = orders
    BY <1>6 DEF BrokerProgress, call
  <2>3. broker[c] \in BrokerStates
    BY <1>t DEF TypeOK
  <2>4. broker[c] \in OrderStates
    BY <2>1, <2>3 DEF BrokerMoves, BrokerStates, OrderStates
  <2>5. \A d \in Commands : broker'[d] \in OrderStates => orders'[d] > 0
    BY <1>t, <2>1, <2>2, <2>4 DEF RecordsBacked, TypeOK
  <2> QED
    BY <1>t, <2>2, <2>5 DEF RecordsBacked, RecordedOrderExists, Backed
<1>7. CASE UNCHANGED vars
  BY <1>7, <1>t DEF vars, call, external, RecordsBacked, RecordedOrderExists, Backed
<1> QED
  BY <1>1, <1>2, <1>3, <1>4, <1>5, <1>6, <1>7 DEF Next, Load, Contact, Persist

\* A stored record that speaks of an order is backed by an order at the
\* broker, for any number of callers, crashes and lost answers.
THEOREM RecordedOrdersExist == Spec => []RecordedOrderExists
<1>1. Init => RecordsBacked
  <2>1. Init => TypeOK
    BY NoJobType, ConstantsAssumption DEF Init, TypeOK, BrokerStates, Times, Steps
  <2> QED
    BY <2>1 DEF Init, RecordsBacked, RecordedOrderExists, Backed, OrderStates
<1>2. RecordsBacked => RecordedOrderExists
  BY DEF RecordsBacked
<1> QED
  BY <1>1, <1>2, RecordsBackedStep, PTL DEF Spec

-----------------------------------------------------------------------------
(* Settled records tell the truth *)

\* A broker that knows the client order id leaves a settled order alone.
LEMMA SettledStays ==
    ASSUME RecordsBacked, BrokerDedupes, NEW c \in Commands,
           broker[c] \in {"FILLED", "CANCELLED"}, NEW out \in SubmitOutcomes(c)
    PROVE  out[1] = broker[c]
<1>1. orders[c] > 0 /\ broker[c] \in OrderStates /\ orders[c] \in Nat
  BY DEF RecordsBacked, OrderStates, TypeOK
<1>2. CASE out \in NotReached(c)
  BY <1>2 DEF NotReached, Inconclusive
<1>3. CASE out \in Deduplicated(c)
  BY <1>3 DEF Deduplicated, Inconclusive
<1> QED
  BY <1>1, <1>2, <1>3 DEF SubmitOutcomes

\* The broker's settled states are kept by every step.
LEMMA BrokerSettledStays ==
    ASSUME RecordsBacked, BrokerDedupes, [Next]_vars, NEW c \in Commands,
           broker[c] \in {"FILLED", "CANCELLED"}
    PROVE  broker'[c] = broker[c]
<1>t. broker \in [Commands -> BrokerStates] /\ job \in [Procs -> Job]
  BY DEF RecordsBacked, TypeOK
<1>1. CASE broker' = broker
  BY <1>1
<1>2. ASSUME NEW p \in Procs, Dispatch(p)
      PROVE  broker'[c] = broker[c]
  <2>1. PICK out \in SubmitOutcomes(job[p].cmd) :
          broker' = [broker EXCEPT ![job[p].cmd] = out[1]]
    BY <1>2 DEF Dispatch
  <2>2. CASE job[p].cmd = c
    BY <1>t, <2>1, <2>2, SettledStays
  <2>3. CASE job[p].cmd # c
    BY <1>t, <2>1, <2>3
  <2> QED
    BY <2>2, <2>3
<1>3. ASSUME NEW p \in Procs,
             \/ Start(p) \/ ListStore(p) \/ Load(p) \/ RefuseContact(p) \/ Query(p)
             \/ Persist(p) \/ Crash(p)
      PROVE  broker' = broker
  BY <1>3 DEF Start, ListStore, Load, LoadAmbiguous, LoadNothing, LoadOne,
     RefuseContact, Query, Persist, Save, Write, DeletePrevious, Relist, FindStale,
     DeleteStale, Crash, external
<1>4. ASSUME NEW d \in Commands, BrokerProgress(d)
      PROVE  broker'[c] = broker[c]
  <2>1. PICK s \in BrokerMoves[broker[d]] : broker' = [broker EXCEPT ![d] = s]
    BY <1>4 DEF BrokerProgress
  <2>2. d # c
    BY <2>1 DEF BrokerMoves, BrokerStates
  <2> QED
    BY <1>t, <2>1, <2>2
<1>5. CASE UNCHANGED vars
  BY <1>1, <1>5 DEF vars, external
<1> QED
  BY <1>1, <1>2, <1>3, <1>4, <1>5 DEF Next, Contact

\* Every snapshot a step makes is settled only if the broker says so.
LEMMA SettledMade ==
    ASSUME RecordsBacked, BrokerDedupes, [Next]_vars, NEW p \in Procs,
           NEW r \in new'[p], r \notin new[p], r.state \in {"FILLED", "CANCELLED"}
    PROVE  broker'[r.cmd] = r.state
<1>t. TypeOK /\ new \in [Procs -> SUBSET Record] /\ job \in [Procs -> Job]
  BY DEF RecordsBacked, TypeOK
<1>1. ASSUME NEW q \in Procs, LoadNothing(q)
      PROVE  FALSE
  BY <1>1, <1>t DEF LoadNothing, Proceed, Return, CreatedRecord
<1>2. ASSUME NEW q \in Procs, Dispatch(q)
      PROVE  FALSE
  <2>1. PICK out \in After["SUBMISSION_REQUESTED"] :
          \A o \in Procs : new'[o] \subseteq new[o] \cup {Snapshot(q, out, 2)}
    BY <1>2, <1>t, "SUBMITTED" \in After["SUBMISSION_REQUESTED"]
       DEF Dispatch, Proceed, Return, After, States
  <2> QED
    BY <2>1 DEF Snapshot, After, States
<1>3. ASSUME NEW q \in Procs, Query(q)
      PROVE  broker'[r.cmd] = r.state
  <2>1. PICK answer \in QueryResults(job[q].cmd) :
          \A o \in Procs : new'[o] \subseteq new[o] \cup {Snapshot(q, answer, 1)}
    BY <1>3, <1>t DEF Query, Proceed, Return
  <2> QED
    BY <1>3, <2>1 DEF QueryResults, Inconclusive, Snapshot, Query, external
<1>4. ASSUME NEW q \in Procs,
             \/ Start(q) \/ ListStore(q) \/ LoadAmbiguous(q) \/ LoadOne(q)
             \/ RefuseContact(q) \/ Persist(q) \/ Crash(q)
      PROVE  FALSE
  BY <1>4, <1>t DEF Start, ListStore, LoadAmbiguous, LoadOne, RefuseContact, Persist,
     Save, Write, DeletePrevious, Relist, FindStale, DeleteStale, Crash, Proceed, Return
<1>5. CASE new' = new
  BY <1>5
<1> QED
  BY <1>1, <1>2, <1>3, <1>4, <1>5 DEF Next, Load, Contact, BrokerProgress, vars, call

LEMMA SettledStep ==
    ASSUME SettledInv, BrokerDedupes, [Next]_vars
    PROVE  SettledInv'
<1>1. RecordsBacked /\ RecordsBacked' /\ TypeOK /\ TypeOK'
  BY RecordsBackedStep DEF SettledInv, RecordsBacked
<1>2. \A r \in Record : Settled(r) => Settled(r)'
  BY <1>1, BrokerSettledStays DEF Settled, Record
<1>3. \A p \in Procs : \A r \in new'[p] : Settled(r)'
  <2> SUFFICES ASSUME NEW p \in Procs, NEW r \in new'[p],
                      r.state \in {"FILLED", "CANCELLED"}
               PROVE  broker'[r.cmd] = r.state
    BY DEF Settled
  <2>1. CASE r \in new[p]
    BY <1>1, <1>2, <2>1 DEF SettledInv, Settled, TypeOK
  <2>2. CASE r \notin new[p]
    BY <1>1, <2>2, SettledMade
  <2> QED
    BY <2>1, <2>2
<1>4. ASSUME NEW r \in store', r \notin store
      PROVE  \E p \in Procs : r \in new[p]
  BY <1>4 DEF Next, Start, ListStore, Load, LoadAmbiguous, LoadNothing, LoadOne, Contact,
     RefuseContact, Dispatch, Query, Persist, Save, Write, DeletePrevious, Relist, FindStale,
     DeleteStale, Crash, BrokerProgress, vars
<1>5. \A r \in store' : Settled(r)'
  <2> SUFFICES ASSUME NEW r \in store'
               PROVE  Settled(r)'
    OBVIOUS
  <2>1. Settled(r)
    BY <1>4 DEF SettledInv, SettledIsTrue
  <2> QED
    BY <1>1, <1>2, <2>1 DEF TypeOK
<1> QED
  BY <1>1, <1>3, <1>5 DEF SettledInv, SettledIsTrue

\* With a broker that deduplicates, a stored FILLED or CANCELLED is true for
\* any number of callers, crashes and lost answers.
THEOREM SettledRecordsTrue ==
    ASSUME BrokerDedupes
    PROVE  Spec => []SettledIsTrue
<1>1. Init => SettledInv
  <2>1. Init => TypeOK
    BY NoJobType, ConstantsAssumption DEF Init, TypeOK, BrokerStates, Times, Steps
  <2> QED
    BY <2>1 DEF Init, SettledInv, SettledIsTrue, RecordsBacked, RecordedOrderExists,
       OrderStates
<1>2. SettledInv /\ [Next]_vars => SettledInv'
  BY SettledStep
<1>3. SettledInv => SettledIsTrue
  BY DEF SettledInv
<1> QED
  BY <1>1, <1>2, <1>3, PTL DEF Spec

-----------------------------------------------------------------------------
(* A single caller *)

\* A call that returns leaves nothing to be true of it.
LEMMA ReturnCaller ==
    ASSUME NEW p \in Procs, TypeOK, Return(p)
    PROVE  CallerInv(p)'
BY DEF TypeOK, Return, CallerInv, Persisting

\* A step away from the two of storing that neither dispatches nor stores leaves the
\* accounting of dispatches as it is.
LEMMA QuietDispatch ==
    ASSUME SingleCaller, NEW p \in Procs, pc[p] \notin {"save", "write"},
           NEW c \in Commands, DispatchInv(c),
           UNCHANGED <<store, dispatched, lost>>
    PROVE  DispatchInv(c)'
<1>1. \A q \in Procs : ~UnsavedDispatch(q)
  BY DEF SingleCaller, UnsavedDispatch
<1> QED
  BY <1>1 DEF DispatchInv, RecordsOf

\* The table never leads back to CREATED.
LEMMA NothingCreated == \A s \in States : "CREATED" \notin After[s]
BY DEF After, States, Results

\* The history of a snapshot built on the loaded one is longer.
LEMMA SnapshotLonger ==
    ASSUME NEW p \in Procs, TypeOK, \A r, s \in prev[p] : r = s,
           NEW state, NEW n \in Nat \ {0}, NEW s \in prev[p]
    PROVE  s.events < Snapshot(p, state, n).events
<1>1. s \in Record
  BY DEF TypeOK
<1>2. PrevEvents(p) = s.events
  BY DEF PrevEvents
<1> QED
  BY <1>1, <1>2 DEF Snapshot, Record

\* Reading the store.
LEMMA CallerReads ==
    ASSUME SingleCaller, SingleCallerInv, NEW p \in Procs,
           Start(p) \/ ListStore(p) \/ Load(p)
    PROVE  CallerInv(p)' /\ \A c \in Commands : DispatchInv(c)'
<1> USE DEF external, history, bounds
<1>t. TypeOK /\ CallerInv(p) /\ \A c \in Commands : DispatchInv(c)
  BY DEF SingleCallerInv
<1>1. pc[p] \notin {"save", "write"} /\ UNCHANGED <<store, dispatched, lost>>
  BY DEF Start, ListStore, Load, LoadAmbiguous, LoadNothing, LoadOne
<1>2. \A c \in Commands : DispatchInv(c)'
  BY <1>t, <1>1, QuietDispatch
<1>3. CASE Start(p)
  BY <1>t, <1>2, <1>3 DEF Start, TypeOK, CallerInv, Persisting
<1>4. CASE ListStore(p)
  BY <1>t, <1>2, <1>4 DEF ListStore, TypeOK, CallerInv, Persisting, RecordsOf
<1>5. CASE LoadAmbiguous(p)
  BY <1>t, <1>2, <1>5, ReturnCaller DEF LoadAmbiguous
<1>6. ASSUME pc[p] = "load"
      PROVE  Matches(p) = RecordsOf(job[p].cmd)
  BY <1>t, <1>6 DEF CallerInv, Matches, Files, SameId, RecordsOf
<1>7. CASE LoadNothing(p)
  <2>0. RecordsOf(job[p].cmd) = {}
    BY <1>6, <1>7 DEF LoadNothing
  <2>1. CASE job[p].op = "create" /\ Proceed(p, "save", {}, {CreatedRecord(p)})
    <3>1. /\ pc'[p] = "save" /\ job' = job
          /\ prev'[p] = {} /\ new'[p] = {CreatedRecord(p)}
      BY <1>t, <2>1 DEF Proceed, TypeOK
    <3>2. CreatedRecord(p).cmd = job[p].cmd
      BY DEF CreatedRecord
    <3> QED
      BY <1>2, <2>1, <3>1, <3>2 DEF CallerInv, Persisting
  <2>2. CASE job[p].op = "submit" /\ Proceed(p, "dispatch", {}, {})
    <3>1. pc'[p] = "dispatch" /\ job' = job /\ prev'[p] = {} /\ store' = store
      BY <1>t, <1>1, <2>2 DEF Proceed, TypeOK
    <3> QED
      BY <1>2, <2>0, <2>2, <3>1 DEF CallerInv, RecordsOf, Persisting
  <2>3. CASE Return(p)
    BY <1>t, <1>2, <2>3, ReturnCaller
  <2> QED
    BY <1>7, <2>1, <2>2, <2>3 DEF LoadNothing
<1>8. CASE LoadOne(p)
  <2>1. PICK r \in Matches(p) :
          /\ Matches(p) = {r}
          /\ \/ /\ job[p].op = "submit" /\ r.state = "CREATED"
                /\ Proceed(p, "dispatch", {r}, {})
             \/ job[p].op = "reconcile" /\ Proceed(p, "query", {r}, {})
             \/ Return(p)
    BY <1>8 DEF LoadOne, MaySubmit
  <2>2. RecordsOf(job[p].cmd) = {r} /\ r.cmd = job[p].cmd /\ {r} \subseteq store
    BY <1>6, <1>8, <2>1 DEF LoadOne, RecordsOf
  <2>3. CASE /\ job[p].op = "submit" /\ r.state = "CREATED"
             /\ Proceed(p, "dispatch", {r}, {})
    <3>1. pc'[p] = "dispatch" /\ job' = job /\ prev'[p] = {r} /\ store' = store
      BY <1>t, <1>1, <2>3 DEF Proceed, TypeOK
    <3> QED
      BY <1>2, <2>2, <2>3, <3>1 DEF CallerInv, RecordsOf, Persisting
  <2>4. CASE job[p].op = "reconcile" /\ Proceed(p, "query", {r}, {})
    <3>1. pc'[p] = "query" /\ job' = job /\ prev'[p] = {r} /\ store' = store
      BY <1>t, <1>1, <2>4 DEF Proceed, TypeOK
    <3> QED
      BY <1>2, <2>2, <2>4, <3>1 DEF CallerInv, RecordsOf, Persisting
  <2>5. CASE Return(p)
    BY <1>t, <1>2, <2>5, ReturnCaller
  <2> QED
    BY <2>1, <2>3, <2>4, <2>5
<1> QED
  BY <1>2, <1>3, <1>4, <1>5, <1>7, <1>8 DEF Load

\* Contacting the broker: the one step that dispatches finds no dispatch
\* unaccounted for, and leaves the one it made to be saved or counted lost.
LEMMA CallerContacts ==
    ASSUME SingleCaller, SingleCallerInv, NEW p \in Procs, Contact(p)
    PROVE  CallerInv(p)' /\ \A c \in Commands : DispatchInv(c)'
<1> USE DEF external, history, bounds
<1>t. TypeOK /\ CallerInv(p) /\ \A c \in Commands : DispatchInv(c)
  BY DEF SingleCallerInv
<1>j. job[p].cmd \in Commands /\ prev[p] \subseteq Record
  BY <1>t DEF TypeOK, Job
<1>1. CASE RefuseContact(p)
  <2>1. pc[p] \notin {"save", "write"} /\ UNCHANGED <<store, dispatched, lost>>
    BY <1>1 DEF RefuseContact
  <2>2. \A c \in Commands : DispatchInv(c)'
    BY <1>t, <2>1, QuietDispatch
  <2> QED
    BY <1>1, <1>t, <2>2, ReturnCaller DEF RefuseContact
<1>2. CASE Query(p)
  <2>1. pc[p] \notin {"save", "write"} /\ UNCHANGED <<store, dispatched, lost>>
    BY <1>2 DEF Query
  <2>2. \A c \in Commands : DispatchInv(c)'
    BY <1>t, <2>1, QuietDispatch
  <2>3. PICK answer :
          \/ /\ answer # "CREATED"
             /\ Proceed(p, "save", prev[p], {Snapshot(p, answer, 1)})
          \/ Return(p)
    BY <1>2, <1>j, NothingCreated DEF Query, Record
  <2>4. CASE /\ answer # "CREATED"
             /\ Proceed(p, "save", prev[p], {Snapshot(p, answer, 1)})
    <3> DEFINE made == Snapshot(p, answer, 1)
    <3>1. /\ pc'[p] = "save" /\ job' = job
          /\ prev'[p] = prev[p] /\ new'[p] = {made}
      BY <1>t, <2>4 DEF Proceed, TypeOK
    <3>2. /\ \A r, s \in prev[p] : r = s
          /\ \A r \in prev[p] : r.cmd = job[p].cmd
          /\ prev[p] \subseteq store /\ store' = store
      BY <1>2, <1>t DEF Query, CallerInv
    <3>3. \A s \in prev[p] : s.events < made.events
      BY <1>t, <3>2, SnapshotLonger
    <3>4. made.cmd = job[p].cmd /\ made.state # "CREATED"
      BY <2>4 DEF Snapshot
    <3> HIDE DEF made
    <3> QED
      BY <2>2, <3>1, <3>2, <3>3, <3>4 DEF CallerInv, Persisting
  <2> QED
    BY <1>t, <2>2, <2>3, <2>4, ReturnCaller
<1>3. CASE Dispatch(p)
  <2> DEFINE d == job[p].cmd
  <2>1. PICK out :
          \/ /\ out # "CREATED"
             /\ Proceed(p, "save", prev[p], {Snapshot(p, out, 2)})
             /\ lost' = lost
          \/ Return(p) /\ lost' = [lost EXCEPT ![d] = @ + 1]
    BY <1>3, NothingCreated DEF Dispatch, States
  <2>2. /\ dispatched' = [dispatched EXCEPT ![d] = @ + 1]
        /\ store' = store
        /\ pc[p] = "dispatch"
    BY <1>3 DEF Dispatch
  <2>3. /\ job[p].op = "submit"
        /\ \A r \in RecordsOf(d) : r.state = "CREATED"
        /\ \A r, s \in prev[p] : r = s
        /\ \A r \in prev[p] : r.cmd = d
        /\ prev[p] \subseteq store
    BY <1>t, <2>2 DEF CallerInv
  <2>4. \A q \in Procs : ~UnsavedDispatch(q)
    BY <2>2 DEF SingleCaller, UnsavedDispatch
  <2>5. /\ dispatched[d] <= lost[d]
        /\ dispatched[d] \in Nat /\ lost[d] \in Nat
    BY <1>t, <1>j, <2>3, <2>4 DEF DispatchInv, TypeOK
  <2>6. CASE /\ out # "CREATED"
             /\ Proceed(p, "save", prev[p], {Snapshot(p, out, 2)})
             /\ lost' = lost
    <3> DEFINE made == Snapshot(p, out, 2)
    <3>1. /\ pc'[p] = "save" /\ job' = job
          /\ prev'[p] = prev[p] /\ new'[p] = {made}
      BY <1>t, <2>6 DEF Proceed, TypeOK
    <3>2. \A s \in prev[p] : s.events < made.events
      BY <1>t, <2>3, SnapshotLonger
    <3>3. made.cmd = d /\ made.state # "CREATED"
      BY <2>6 DEF Snapshot
    <3>4. CallerInv(p)'
      <4> HIDE DEF made
      <4> QED
        BY <2>2, <2>3, <3>1, <3>2, <3>3 DEF CallerInv, Persisting
    <3>5. UnsavedDispatch(p)'
      BY <2>3, <3>1 DEF UnsavedDispatch
    <3>6. ASSUME NEW c \in Commands, c = d
          PROVE  DispatchInv(c)'
      BY <1>j, <1>t, <2>2, <2>5, <2>6, <3>1, <3>5, <3>6 DEF DispatchInv, TypeOK
    <3>7. ASSUME NEW c \in Commands, c # d
          PROVE  DispatchInv(c)'
      BY <1>t, <2>2, <2>4, <2>6, <3>7 DEF DispatchInv, RecordsOf, TypeOK
    <3> QED
      BY <3>4, <3>6, <3>7
  <2>7. CASE Return(p) /\ lost' = [lost EXCEPT ![d] = @ + 1]
    <3>1. ASSUME NEW c \in Commands, c = d
          PROVE  DispatchInv(c)'
      BY <1>j, <1>t, <2>2, <2>5, <2>7, <3>1 DEF DispatchInv, TypeOK
    <3>2. ASSUME NEW c \in Commands, c # d
          PROVE  DispatchInv(c)'
      BY <1>t, <2>2, <2>4, <2>7, <3>2 DEF DispatchInv, RecordsOf, TypeOK
    <3> QED
      BY <1>t, <2>7, <3>1, <3>2, ReturnCaller
  <2> QED
    BY <2>1, <2>6, <2>7
<1> QED
  BY <1>1, <1>2, <1>3 DEF Contact

\* Whatever is removed from the store has a longer successor in it.
Succession ==
    \A r \in store :
        \/ r \in store'
        \/ \E s \in store' : s.cmd = r.cmd /\ s.events > r.events /\ s.state # "CREATED"

\* The snapshot loaded never has the name of the one written over it.
LEMMA PreviousDeleted ==
    ASSUME NEW p \in Procs, CallerInv(p), DeletePrevious(p)
    PROVE  store' = store \ Files(prev[p])
<1>1. \A r \in prev[p] : Stale(p, r)
  BY DEF DeletePrevious, CallerInv, Stale
<1>2. {r \in prev[p] : Stale(p, r)} = prev[p]
  BY <1>1
<1> QED
  BY <1>2 DEF DeletePrevious

LEMMA DeleteSucceeded ==
    ASSUME SingleCallerInv, NEW p \in Procs, DeletePrevious(p)
    PROVE  Succession
<1>1. TypeOK /\ CallerInv(p) /\ UniqueNames
  BY DEF SingleCallerInv
<1>2. PICK s \in new[p] :
        /\ s.cmd = job[p].cmd /\ s \in store
        /\ \A r \in prev[p] : r.events < s.events /\ s.state # "CREATED"
        /\ \A r \in prev[p] : r.cmd = job[p].cmd
        /\ \A r \in prev[p] : ~SameId(r, s)
  BY <1>1 DEF DeletePrevious, CallerInv, Persisting
<1>3. s \in Record /\ prev[p] \subseteq Record
  BY <1>1 DEF TypeOK
<1>4. store' = store \ prev[p]
  <2>1. pc[p] = "delete" /\ store' = store \ Files(prev[p])
    BY <1>1, PreviousDeleted DEF DeletePrevious
  <2> QED
    BY <1>1, <2>1 DEF CallerInv, UniqueNames, Files, SameId
<1>5. s \notin prev[p]
  BY <1>2, <1>3 DEF Record
<1> QED
  BY <1>2, <1>3, <1>4, <1>5 DEF Succession, Record

\* A single caller finds its own snapshot, so the cleanup removes nothing.
LEMMA CleanupNeverNeeded ==
    ASSUME SingleCallerInv, NEW p \in Procs
    PROVE  ~DeleteStale(p) /\ (FindStale(p) => Return(p))
<1>1. TypeOK /\ CallerInv(p)
  BY DEF SingleCallerInv
<1>2. ~DeleteStale(p)
  BY <1>1 DEF DeleteStale, CallerInv, Persisting
<1>3. ASSUME FindStale(p)
      PROVE  Return(p)
  <2>1. PICK s \in new[p] : new[p] = {s} /\ s \in RecordsOf(job[p].cmd)
    BY <1>1, <1>3 DEF FindStale, CallerInv, Persisting, RecordsOf
  <2>2. s \in Matches(p)
    BY <1>1, <1>3, <2>1 DEF FindStale, CallerInv, Matches, Files, SameId, RecordsOf
  <2> QED
    BY <1>3, <2>1, <2>2 DEF FindStale, Stale, SameId
<1> QED
  BY <1>2, <1>3

\* Storing the outcome: the new snapshot is written, or the loss is counted,
\* before the dispatch is forgotten.
LEMMA CallerPersists ==
    ASSUME SingleCaller, SingleCallerInv, NEW p \in Procs, Persist(p) \/ Crash(p)
    PROVE  CallerInv(p)' /\ \A c \in Commands : DispatchInv(c)'
<1> USE DEF external, history, bounds
<1>t. TypeOK /\ CallerInv(p) /\ UniqueNames /\ \A c \in Commands : DispatchInv(c)
  BY DEF SingleCallerInv
<1>j. job[p].cmd \in Commands
  BY <1>t DEF TypeOK, Job
<1>l. /\ dispatched \in [Commands -> Nat]
      /\ lost \in [Commands -> Nat]
  BY <1>t DEF TypeOK
<1>f. ASSUME ForgetDispatch(p), store' = store, dispatched' = dispatched,
             NEW c \in Commands
      PROVE  DispatchInv(c)'
  <2>1. DispatchInv(c) /\ dispatched[c] \in Nat /\ lost[c] \in Nat
    BY <1>t, <1>l
  <2>2. CASE UnsavedDispatch(p) /\ job[p].cmd = c
    <3>1. lost'[c] = lost[c] + 1
      BY <1>f, <1>l, <2>2 DEF ForgetDispatch
    <3> QED
      BY <1>f, <2>1, <3>1 DEF DispatchInv
  <2>3. CASE ~(UnsavedDispatch(p) /\ job[p].cmd = c)
    <3>1. lost'[c] = lost[c]
      BY <1>f, <1>j, <1>l, <2>3 DEF ForgetDispatch
    <3>2. \A q \in Procs : q = p
      BY DEF SingleCaller
    <3>3. dispatched[c] <= lost[c] \/ \E r \in RecordsOf(c) : r.state # "CREATED"
      BY <2>1, <2>3, <3>2 DEF DispatchInv
    <3> QED
      BY <1>f, <2>1, <3>1, <3>3 DEF DispatchInv, RecordsOf
  <2> QED
    BY <2>2, <2>3
<1>1. CASE Crash(p)
  BY <1>1, <1>t, <1>f, ReturnCaller DEF Crash
<1>w. CASE pc[p] \in {"save", "write"}
  <2>1. PICK r \in new[p] :
          /\ new[p] = {r} /\ r.cmd = job[p].cmd
          /\ job[p].op = "submit" => r.state # "CREATED"
          /\ \A s \in prev[p] : s \in store /\ s.events < r.events
    BY <1>t, <1>w DEF CallerInv
  <2>2. r \in Record /\ \A s \in prev[p] : s \in Record
    BY <1>t DEF TypeOK
  <2>3. ASSUME r \in store', Files({r}) \subseteq {r}, store \subseteq store',
               dispatched' = dispatched, pc' = [pc EXCEPT ![p] = "delete"],
               UNCHANGED <<job, seen, prev, new, lost>>
        PROVE  CallerInv(p)' /\ \A c \in Commands : DispatchInv(c)'
    <3>1. pc'[p] = "delete"
      BY <1>t, <2>3 DEF TypeOK
    <3>2. \A s \in prev[p] : ~SameId(s, r)
      BY <2>1, <2>2, <2>3 DEF Files, SameId, Record
    <3>3. CallerInv(p)'
      BY <1>t, <1>w, <2>1, <2>3, <3>1, <3>2 DEF CallerInv, Persisting
    <3>4. ASSUME NEW c \in Commands
          PROVE  DispatchInv(c)'
      <4>1. CASE UnsavedDispatch(p) /\ job[p].cmd = c
        <5>1. r \in RecordsOf(c)' /\ r.state # "CREATED"
          BY <2>1, <2>3, <4>1 DEF RecordsOf, UnsavedDispatch
        <5> QED
          BY <1>t, <2>3, <5>1 DEF DispatchInv
      <4>2. CASE ~(UnsavedDispatch(p) /\ job[p].cmd = c)
        <5>1. \A q \in Procs : q = p
          BY DEF SingleCaller
        <5>2. dispatched[c] <= lost[c] \/ \E s \in RecordsOf(c) : s.state # "CREATED"
          BY <1>t, <4>2, <5>1 DEF DispatchInv
        <5>3. RecordsOf(c) \subseteq RecordsOf(c)'
          BY <2>3 DEF RecordsOf
        <5> QED
          BY <1>t, <2>3, <5>2, <5>3 DEF DispatchInv
      <4> QED
        BY <4>1, <4>2
    <3> QED
      BY <3>3, <3>4
  <2>4. CASE Write(p)
    <3>1. Files({r}) = {} /\ store' = store \cup {r}
      BY <1>t, <2>1, <2>4 DEF Write, CallerInv
    <3> QED
      BY <2>3, <2>4, <3>1 DEF Write
  <2>5. CASE Save(p)
    <3>1. \/ Return(p) /\ ForgetDispatch(p)
          \/ /\ r \in store /\ pc' = [pc EXCEPT ![p] = "delete"]
             /\ UNCHANGED <<job, seen, prev, new, lost>>
          \/ /\ Files({r}) = {} /\ pc' = [pc EXCEPT ![p] = "write"]
             /\ UNCHANGED <<job, seen, prev, new, lost>>
      BY <2>1, <2>5 DEF Save
    <3>2. pc[p] = "save" /\ dispatched' = dispatched /\ store' = store
      BY <2>5 DEF Save
    <3>3. CASE Return(p) /\ ForgetDispatch(p)
      BY <1>t, <1>f, <3>2, <3>3, ReturnCaller
    <3>4. CASE /\ r \in store /\ pc' = [pc EXCEPT ![p] = "delete"]
               /\ UNCHANGED <<job, seen, prev, new, lost>>
      <4>1. Files({r}) \subseteq {r}
        BY <1>t, <3>4 DEF Files, UniqueNames, SameId
      <4> QED
        BY <2>3, <3>2, <3>4, <4>1
    <3>5. CASE /\ Files({r}) = {} /\ pc' = [pc EXCEPT ![p] = "write"]
               /\ UNCHANGED <<job, seen, prev, new, lost>>
      <4>1. pc'[p] = "write" /\ \A q \in Procs : q = p
        BY <1>t, <3>5 DEF TypeOK, SingleCaller
      <4>2. Files(new[p])' = {}
        BY <2>1, <3>2, <3>5 DEF Files
      <4>3. CallerInv(p)'
        BY <1>t, <3>2, <3>5, <4>1, <4>2 DEF CallerInv, Persisting
      <4>4. \A c \in Commands : DispatchInv(c)'
        BY <1>t, <3>2, <3>5, <4>1 DEF DispatchInv, UnsavedDispatch, RecordsOf
      <4> QED
        BY <4>3, <4>4
    <3> QED
      BY <3>1, <3>3, <3>4, <3>5
  <2> QED
    BY <1>1, <1>w, <2>4, <2>5 DEF Persist, DeletePrevious, Relist, FindStale, DeleteStale
<1>2. CASE Save(p) \/ Write(p)
  BY <1>2, <1>w DEF Save, Write
<1>3. CASE DeletePrevious(p)
  <2>1. Succession
    BY <1>3, DeleteSucceeded
  <2>2. /\ pc[p] = "delete" /\ pc' = [pc EXCEPT ![p] = "relist"]
        /\ store' = store \ Files(prev[p])
        /\ UNCHANGED <<job, seen, prev, new, dispatched, lost>>
    BY <1>3, <1>t, PreviousDeleted DEF DeletePrevious
  <2>3. CallerInv(p)'
    <3>1. pc'[p] = "relist"
      BY <1>t, <2>2 DEF TypeOK
    <3>2. \A r \in new[p] : r \notin Files(prev[p])
      BY <1>t, <2>2 DEF CallerInv, Files, SameId
    <3> QED
      BY <1>t, <2>2, <3>1, <3>2 DEF CallerInv, Persisting
  <2>4. ASSUME NEW c \in Commands
        PROVE  DispatchInv(c)'
    <3>1. ASSUME NEW r \in RecordsOf(c), r.state # "CREATED"
          PROVE  \E s \in RecordsOf(c)' : s.state # "CREATED"
      BY <2>1, <3>1 DEF Succession, RecordsOf
    <3>2. \A q \in Procs : ~UnsavedDispatch(q)
      BY <2>2 DEF SingleCaller, UnsavedDispatch
    <3> QED
      BY <1>t, <2>2, <3>1, <3>2 DEF DispatchInv
  <2> QED
    BY <2>3, <2>4
<1>4. CASE Relist(p)
  <2>1. pc[p] \notin {"save", "write"} /\ UNCHANGED <<store, dispatched, lost>>
    BY <1>4 DEF Relist
  <2>2. \A c \in Commands : DispatchInv(c)'
    BY <1>t, <2>1, QuietDispatch
  <2> QED
    BY <1>t, <1>4, <2>2 DEF Relist, TypeOK, CallerInv, Persisting, RecordsOf
<1>5. CASE FindStale(p) \/ DeleteStale(p)
  <2>0. FindStale(p) /\ Return(p)
    BY <1>5, CleanupNeverNeeded
  <2>1. pc[p] \notin {"save", "write"} /\ UNCHANGED <<store, dispatched, lost>>
    BY <2>0 DEF FindStale
  <2>2. \A c \in Commands : DispatchInv(c)'
    BY <1>t, <2>1, QuietDispatch
  <2> QED
    BY <1>t, <2>0, <2>2, ReturnCaller
<1> QED
  BY <1>1, <1>2, <1>3, <1>4, <1>5 DEF Persist

\* No step brings two snapshots of one name into the store.
LEMMA UniqueNamesStep ==
    ASSUME SingleCallerInv, [Next]_vars
    PROVE  UniqueNames'
<1> USE DEF UniqueNames
<1>0. UniqueNames /\ \A p \in Procs : CallerInv(p)
  BY DEF SingleCallerInv
<1>1. CASE store' \subseteq store
  BY <1>0, <1>1
<1>2. ASSUME NEW p \in Procs, Write(p)
      PROVE  UniqueNames'
  <2>1. PICK r : new[p] = {r} /\ Files({r}) = {} /\ store' = store \cup {r}
    BY <1>0, <1>2 DEF Write, CallerInv
  <2> QED
    BY <1>0, <2>1 DEF Files, SameId
<1>3. ASSUME NEW p \in Procs,
             \/ Start(p) \/ ListStore(p) \/ Load(p) \/ Contact(p) \/ Crash(p)
             \/ Save(p) \/ DeletePrevious(p) \/ Relist(p) \/ FindStale(p) \/ DeleteStale(p)
      PROVE  store' \subseteq store
  BY <1>3 DEF Start, ListStore, Load, LoadAmbiguous, LoadNothing, LoadOne, Contact,
     RefuseContact, Dispatch, Query, Save, DeletePrevious, Relist, FindStale, DeleteStale,
     Crash
<1>4. ASSUME NEW c \in Commands, BrokerProgress(c)
      PROVE  store' \subseteq store
  BY <1>4 DEF BrokerProgress
<1>5. CASE UNCHANGED vars
  BY <1>1, <1>5 DEF vars
<1> QED
  BY <1>1, <1>2, <1>3, <1>4, <1>5 DEF Next, Persist

\* The invariant of a single caller is inductive.
LEMMA SingleCallerStep ==
    ASSUME SingleCaller, SingleCallerInv, [Next]_vars
    PROVE  SingleCallerInv'
<1>t. TypeOK /\ TypeOK' /\ UniqueNames'
  BY TypeStep, UniqueNamesStep DEF SingleCallerInv
<1>1. ASSUME NEW p \in Procs,
             Start(p) \/ ListStore(p) \/ Load(p) \/ Contact(p) \/ Persist(p) \/ Crash(p)
      PROVE  SingleCallerInv'
  <2>1. CallerInv(p)' /\ \A c \in Commands : DispatchInv(c)'
    BY <1>1, CallerReads, CallerContacts, CallerPersists
  <2>2. \A q \in Procs : q = p
    BY DEF SingleCaller
  <2> QED
    BY <1>t, <2>1, <2>2 DEF SingleCallerInv
<1>2. CASE UNCHANGED <<store, call, history>>
  <2>1. \A p \in Procs : CallerInv(p)'
    BY <1>2 DEF SingleCallerInv, CallerInv, RecordsOf, Files, call
  <2>2. \A c \in Commands : DispatchInv(c)'
    BY <1>2 DEF SingleCallerInv, DispatchInv, UnsavedDispatch, RecordsOf, call, history
  <2> QED
    BY <1>t, <2>1, <2>2 DEF SingleCallerInv
<1>3. CASE \E c \in Commands : BrokerProgress(c)
  BY <1>2, <1>3 DEF BrokerProgress
<1>4. CASE UNCHANGED vars
  BY <1>2, <1>4 DEF vars
<1> QED
  BY <1>1, <1>3, <1>4 DEF Next

LEMMA SingleCallerStart == Init => SingleCallerInv
<1> SUFFICES ASSUME Init PROVE SingleCallerInv
  OBVIOUS
<1>1. TypeOK
  BY NoJobType, ConstantsAssumption DEF Init, TypeOK, BrokerStates, Times, Steps
<1>2. \A p \in Procs : CallerInv(p)
  BY DEF Init, CallerInv, Persisting
<1>3. \A c \in Commands : DispatchInv(c)
  BY DEF Init, DispatchInv
<1>4. UniqueNames
  BY DEF Init, UniqueNames
<1> QED
  BY <1>1, <1>2, <1>3, <1>4 DEF SingleCallerInv

LEMMA SingleCallerInvariant == ASSUME SingleCaller PROVE Spec => []SingleCallerInv
<1>1. SingleCallerInv /\ [Next]_vars => SingleCallerInv'
  BY SingleCallerStep
<1> QED
  BY <1>1, SingleCallerStart, PTL DEF Spec

\* A single caller's dispatches of a command are accounted for: at most one
\* more than those whose outcome a crash or a refused answer lost.
THEOREM SingleCallerAccounts ==
    ASSUME SingleCaller
    PROVE  Spec => []AttemptsAccounted
<1>1. SingleCallerInv => AttemptsAccounted
  BY DEF SingleCallerInv, DispatchInv, AttemptsAccounted
<1> QED
  BY <1>1, SingleCallerInvariant, PTL

\* A single caller never dispatches a command again once an outcome of it is
\* stored, restarts included.
THEOREM SingleCallerNoBlindRetry ==
    ASSUME SingleCaller
    PROVE  Spec => NoBlindRetry
<1> DEFINE Step ==
      \A c \in Commands :
          dispatched'[c] # dispatched[c] => \A r \in RecordsOf(c) : r.state = "CREATED"
<1>1. SingleCallerInv /\ [Next]_vars => [Step]_vars
  <2> SUFFICES ASSUME SingleCallerInv, Next, NEW c \in Commands,
                      dispatched'[c] # dispatched[c]
               PROVE  \A r \in RecordsOf(c) : r.state = "CREATED"
    OBVIOUS
  <2>1. PICK p \in Procs : Dispatch(p)
    BY DEF Next, Start, ListStore, Load, LoadAmbiguous, LoadNothing, LoadOne,
           Contact, RefuseContact, Query, Persist, Save, Write, DeletePrevious, Relist,
           FindStale, DeleteStale, Crash, BrokerProgress, history
  <2>2. /\ pc[p] = "dispatch"
        /\ dispatched' = [dispatched EXCEPT ![job[p].cmd] = @ + 1]
    BY <2>1 DEF Dispatch
  <2>3. c = job[p].cmd
    BY <2>2 DEF SingleCallerInv, TypeOK
  <2> QED
    BY <2>2, <2>3 DEF SingleCallerInv, CallerInv
<1> QED
  BY <1>1, SingleCallerInvariant, PTL DEF Spec, NoBlindRetry

\* Every step of a single caller leaves the stored records in place or
\* succeeded by longer ones.
LEMMA StoreSucceeded ==
    ASSUME SingleCaller, SingleCallerInv, [Next]_vars
    PROVE  Succession
<1>1. ASSUME NEW p \in Procs, DeletePrevious(p)
      PROVE  Succession
  BY <1>1, DeleteSucceeded
<1>2. ASSUME NEW p \in Procs, FindStale(p) \/ DeleteStale(p)
      PROVE  Succession
  BY <1>2, CleanupNeverNeeded DEF FindStale, Succession
<1>3. CASE store \subseteq store'
  BY <1>3 DEF Succession
<1>7. ASSUME NEW p \in Procs, Write(p)
      PROVE  store \subseteq store'
  BY <1>7 DEF Write, SingleCallerInv, CallerInv
<1>4. ASSUME NEW p \in Procs,
             \/ Start(p) \/ ListStore(p) \/ Load(p) \/ Contact(p)
             \/ Save(p) \/ Relist(p) \/ Crash(p)
      PROVE  store \subseteq store'
  BY <1>4 DEF Start, ListStore, Load, LoadAmbiguous, LoadNothing, LoadOne,
     Contact, RefuseContact, Dispatch, Query, Save, Relist, Crash
<1>5. ASSUME NEW c \in Commands, BrokerProgress(c)
      PROVE  store \subseteq store'
  BY <1>5 DEF BrokerProgress
<1>6. CASE UNCHANGED vars
  BY <1>3, <1>6 DEF vars
<1> QED
  BY <1>1, <1>2, <1>3, <1>4, <1>5, <1>6, <1>7 DEF Next, Persist

\* With a single caller the service never loses the last snapshot of a
\* command, whatever step of _persist_replacing a crash interrupts.
THEOREM SingleCallerRecordSurvives ==
    ASSUME SingleCaller
    PROVE  Spec => RecordSurvives
<1> DEFINE Step == \A c \in Commands : RecordsOf(c) # {} => RecordsOf(c)' # {}
<1>1. SingleCallerInv /\ [Next]_vars => [Step]_vars
  <2> SUFFICES ASSUME SingleCallerInv, [Next]_vars, NEW c \in Commands,
                      NEW r \in RecordsOf(c)
               PROVE  RecordsOf(c)' # {}
    OBVIOUS
  <2>1. Succession
    BY StoreSucceeded
  <2> QED
    BY <2>1 DEF Succession, RecordsOf
<1> QED
  BY <1>1, SingleCallerInvariant, PTL DEF Spec, RecordSurvives

\* With a single caller the stored history of a command never shrinks.
THEOREM SingleCallerHistoryGrows ==
    ASSUME SingleCaller
    PROVE  Spec => HistoryGrows
<1> DEFINE Step ==
      \A r \in store : \E s \in store' : s.cmd = r.cmd /\ s.events >= r.events
<1>1. SingleCallerInv /\ [Next]_vars => [Step]_vars
  <2> SUFFICES ASSUME SingleCallerInv, [Next]_vars, NEW r \in store
               PROVE  \E s \in store' : s.cmd = r.cmd /\ s.events >= r.events
    OBVIOUS
  <2>1. Succession
    BY StoreSucceeded
  <2>2. store \subseteq Record /\ store' \subseteq Record
    BY TypeStep DEF SingleCallerInv, TypeOK
  <2> QED
    BY <2>1, <2>2 DEF Succession, Record
<1> QED
  BY <1>1, SingleCallerInvariant, PTL DEF Spec, HistoryGrows

-----------------------------------------------------------------------------
(* A single caller implements the ledger *)

\* What a record of a command may be replaced by.
Advances(s, r) ==
    /\ s.events < r.events
    /\ s.state \notin Terminal
    /\ \/ s.state = "CREATED" /\ r.state \in After["SUBMISSION_REQUESTED"]
       \/ r.state \in After[s.state] \cap Results
First(r) == r.state \in {"CREATED"} \cup After["SUBMISSION_REQUESTED"]

\* No record of a command, one, or the last and the one before it.
Shaped(S) ==
    S = {} \/ \E s, r \in S : S = {s, r} /\ (s = r \/ Advances(s, r))

\* Inductive with the invariant of the caller: what a call replaces is all that is
\* stored of its command, and what it stores succeeds it.
CallShape(p) ==
    /\ pc[p] \in {"dispatch", "query", "save", "write"} => RecordsOf(job[p].cmd) = prev[p]
    /\ pc[p] = "query" => \A s \in prev[p] : s.state \notin Terminal
    /\ pc[p] \in {"save", "write", "delete"} =>
          \A r \in new[p] : (prev[p] = {} => First(r)) /\ \A s \in prev[p] : Advances(s, r)
    /\ pc[p] = "delete" => RecordsOf(job[p].cmd) = prev[p] \cup new[p]

LedgerInv ==
    /\ SingleCallerInv
    /\ \A c \in Commands : Shaped(RecordsOf(c))
    /\ \A p \in Procs : CallShape(p)

LEMMA WriteRecords ==
    ASSUME LedgerInv, NEW p \in Procs, Write(p)
    PROVE  \E r \in new[p] :
              /\ new[p] = {r} /\ r \in Record /\ r.cmd = job[p].cmd
              /\ RecordsOf(job[p].cmd) = prev[p]
              /\ \A d \in Commands :
                    RecordsOf(d)' = IF d = job[p].cmd THEN prev[p] \cup {r} ELSE RecordsOf(d)
              /\ prev[p] = {} => First(r)
              /\ \A s \in prev[p] : Advances(s, r)
              /\ \A s, t \in prev[p] : s = t
<1>1. TypeOK /\ CallerInv(p) /\ CallShape(p) /\ pc[p] = "write"
  BY DEF LedgerInv, SingleCallerInv, Write
<1>2. PICK r \in new[p] : new[p] = {r} /\ r.cmd = job[p].cmd
  BY <1>1 DEF CallerInv
<1>3. store' = store \cup {r} /\ job' = job
  BY <1>1, <1>2 DEF Write, CallerInv
<1>4. RecordsOf(job[p].cmd) = prev[p] /\ r \in Record
  BY <1>1 DEF CallShape, TypeOK
<1>5. \A d \in Commands :
         RecordsOf(d)' = IF d = job[p].cmd THEN prev[p] \cup {r} ELSE RecordsOf(d)
  BY <1>2, <1>3, <1>4 DEF RecordsOf
<1> QED
  BY <1>1, <1>2, <1>4, <1>5 DEF CallShape, CallerInv

LEMMA DeleteRecords ==
    ASSUME LedgerInv, NEW p \in Procs, DeletePrevious(p)
    PROVE  \E r \in new[p] :
              /\ new[p] = {r} /\ r \in Record /\ r.cmd = job[p].cmd
              /\ RecordsOf(job[p].cmd) = prev[p] \cup {r}
              /\ \A d \in Commands :
                    RecordsOf(d)' = IF d = job[p].cmd THEN {r} ELSE RecordsOf(d)
              /\ \A s \in prev[p] : s.events < r.events
<1>1. TypeOK /\ UniqueNames /\ CallerInv(p) /\ CallShape(p) /\ pc[p] = "delete"
  BY DEF LedgerInv, SingleCallerInv, DeletePrevious
<1>2. PICK r \in new[p] :
         /\ new[p] = {r} /\ r.cmd = job[p].cmd
         /\ \A s \in prev[p] : s.events < r.events /\ s.cmd = job[p].cmd
  BY <1>1 DEF CallerInv, Persisting
<1>3. store' = store \ prev[p] /\ job' = job
  <2>1. store' = store \ Files(prev[p]) /\ job' = job
    BY <1>1, PreviousDeleted DEF DeletePrevious
  <2> QED
    BY <1>1, <2>1 DEF CallerInv, UniqueNames, Files, SameId
<1>4. RecordsOf(job[p].cmd) = prev[p] \cup {r} /\ r \in Record
  BY <1>1, <1>2 DEF CallShape, TypeOK
<1>5. r \notin prev[p]
  BY <1>2, <1>4 DEF Record
<1>6. ASSUME NEW d \in Commands
      PROVE  RecordsOf(d)' = IF d = job[p].cmd THEN {r} ELSE RecordsOf(d)
  <2>1. RecordsOf(d)' = RecordsOf(d) \ prev[p]
    BY <1>3 DEF RecordsOf
  <2>2. CASE d = job[p].cmd
    BY <1>4, <1>5, <2>1, <2>2
  <2>3. CASE d # job[p].cmd
    BY <1>2, <1>3, <2>3 DEF RecordsOf
  <2> QED
    BY <2>2, <2>3
<1> QED
  BY <1>2, <1>4, <1>6

\* Nothing else a single caller does changes the store.
LEMMA StoreKept ==
    ASSUME SingleCallerInv, [Next]_vars,
           \A p \in Procs : ~Write(p) /\ ~DeletePrevious(p)
    PROVE  store' = store
<1>1. ASSUME NEW p \in Procs, DeleteStale(p) PROVE FALSE
  BY <1>1, CleanupNeverNeeded
<1> QED
  BY <1>1 DEF Next, Start, ListStore, Load, LoadAmbiguous, LoadNothing, LoadOne, Contact,
     RefuseContact, Dispatch, Query, Persist, Save, Relist, FindStale, Crash,
     BrokerProgress, vars

LEMMA ShapedStep ==
    ASSUME LedgerInv, [Next]_vars, NEW c \in Commands
    PROVE  Shaped(RecordsOf(c)')
<1>0. Shaped(RecordsOf(c))
  BY DEF LedgerInv
<1>1. CASE \A p \in Procs : ~Write(p) /\ ~DeletePrevious(p)
  <2>1. RecordsOf(c)' = RecordsOf(c)
    BY <1>1, StoreKept DEF LedgerInv, RecordsOf
  <2> QED
    BY <1>0, <2>1
<1>2. ASSUME NEW p \in Procs, Write(p) PROVE Shaped(RecordsOf(c)')
  <2>1. PICK r \in new[p] :
           /\ RecordsOf(c)' = IF c = job[p].cmd THEN prev[p] \cup {r} ELSE RecordsOf(c)
           /\ \A s \in prev[p] : Advances(s, r)
           /\ \A s, t \in prev[p] : s = t
    BY <1>2, WriteRecords
  <2>2. CASE c # job[p].cmd
    BY <1>0, <2>1, <2>2
  <2>3. CASE c = job[p].cmd /\ prev[p] = {}
    BY <2>1, <2>3 DEF Shaped
  <2>4. CASE c = job[p].cmd /\ prev[p] # {}
    <3>1. PICK s \in prev[p] : prev[p] = {s} /\ Advances(s, r)
      BY <2>1, <2>4
    <3>2. RecordsOf(c)' = {s, r}
      BY <2>1, <2>4, <3>1
    <3> QED
      BY <3>1, <3>2 DEF Shaped
  <2> QED
    BY <2>2, <2>3, <2>4
<1>3. ASSUME NEW p \in Procs, DeletePrevious(p) PROVE Shaped(RecordsOf(c)')
  <2>1. PICK r \in new[p] :
           RecordsOf(c)' = IF c = job[p].cmd THEN {r} ELSE RecordsOf(c)
    BY <1>3, DeleteRecords
  <2> QED
    BY <1>0, <2>1 DEF Shaped
<1> QED
  BY <1>1, <1>2, <1>3

LEMMA ReturnShape ==
    ASSUME NEW p \in Procs, TypeOK, Return(p)
    PROVE  CallShape(p)'
BY DEF TypeOK, Return, CallShape

LEMMA ShapeStep ==
    ASSUME LedgerInv, NEW p \in Procs,
           Start(p) \/ ListStore(p) \/ Load(p) \/ Contact(p) \/ Persist(p) \/ Crash(p)
    PROVE  CallShape(p)'
<1>0. /\ TypeOK /\ CallerInv(p) /\ CallShape(p) /\ UniqueNames
      /\ pc \in [Procs -> Steps] /\ prev \in [Procs -> SUBSET Record]
      /\ new \in [Procs -> SUBSET Record]
  BY DEF LedgerInv, SingleCallerInv, TypeOK
<1>1. CASE Return(p)
  BY <1>0, <1>1, ReturnShape
<1>2. CASE Start(p) \/ ListStore(p) \/ Relist(p)
  <2>1. pc'[p] \in {"list", "load", "purge"}
    BY <1>0, <1>2 DEF Start, ListStore, Relist
  <2> QED
    BY <2>1 DEF CallShape
<1>3. CASE LoadNothing(p) /\ ~Return(p)
  <2>1. RecordsOf(job[p].cmd) = {}
    BY <1>0, <1>3 DEF LoadNothing, CallerInv, Matches, Files, SameId, RecordsOf
  <2>2. RecordsOf(job[p].cmd)' = {} /\ job' = job
    BY <1>3, <2>1 DEF LoadNothing, Proceed, RecordsOf
  <2>3. CASE Proceed(p, "save", {}, {CreatedRecord(p)})
    <3>1. pc'[p] = "save" /\ prev'[p] = {} /\ new'[p] = {CreatedRecord(p)}
      BY <1>0, <2>3 DEF Proceed
    <3>2. First(CreatedRecord(p))
      BY DEF First, CreatedRecord
    <3> HIDE DEF First
    <3> QED
      BY <2>2, <3>1, <3>2 DEF CallShape
  <2>4. CASE Proceed(p, "dispatch", {}, {})
    <3>1. pc'[p] = "dispatch" /\ prev'[p] = {}
      BY <1>0, <2>4 DEF Proceed
    <3> QED
      BY <2>2, <3>1 DEF CallShape
  <2> QED
    BY <1>3, <2>3, <2>4 DEF LoadNothing
<1>4. CASE LoadOne(p) /\ ~Return(p)
  <2>1. PICK r \in Matches(p) :
          /\ Matches(p) = {r}
          /\ \/ Proceed(p, "dispatch", {r}, {})
             \/ r.state \notin Terminal /\ Proceed(p, "query", {r}, {})
    BY <1>4 DEF LoadOne
  <2>2. RecordsOf(job[p].cmd) = {r}
    BY <1>0, <1>4, <2>1 DEF LoadOne, CallerInv, Matches, Files, SameId, RecordsOf
  <2>3. RecordsOf(job[p].cmd)' = {r} /\ job' = job
    BY <1>4, <2>1, <2>2 DEF LoadOne, Proceed, RecordsOf
  <2>4. /\ prev'[p] = {r}
        /\ pc'[p] = "dispatch" \/ (pc'[p] = "query" /\ r.state \notin Terminal)
    BY <1>0, <2>1 DEF Proceed
  <2> QED
    BY <2>3, <2>4 DEF CallShape
<1>5. CASE Dispatch(p) /\ ~Return(p)
  <2>1. PICK out \in After["SUBMISSION_REQUESTED"] :
           Proceed(p, "save", prev[p], {Snapshot(p, out, 2)})
    BY <1>5 DEF Dispatch
  <2> DEFINE made == Snapshot(p, out, 2)
  <2>2. pc[p] = "dispatch" /\ store' = store
    BY <1>5 DEF Dispatch
  <2>3. /\ pc'[p] = "save" /\ prev'[p] = prev[p] /\ new'[p] = {made} /\ job' = job
    BY <1>0, <2>1 DEF Proceed
  <2>4. /\ RecordsOf(job[p].cmd) = prev[p] /\ RecordsOf(job[p].cmd)' = prev[p]
        /\ \A s \in prev[p] : s.state = "CREATED" /\ \A t \in prev[p] : s = t
    BY <1>0, <2>2, <2>3 DEF CallShape, CallerInv, RecordsOf
  <2>5. \A s \in prev[p] : s.events < made.events
    BY <1>0, <2>4, SnapshotLonger
  <2>6. made.state = out
    BY DEF Snapshot
  <2> HIDE DEF made
  <2>7. First(made) /\ \A s \in prev[p] : Advances(s, made)
    BY <2>1, <2>4, <2>5, <2>6 DEF First, Advances, Terminal
  <2> QED
    BY <2>3, <2>4, <2>7 DEF CallShape
<1>6. CASE Query(p) /\ ~Return(p)
  <2>1. PICK s \in prev[p], answer \in QueryResults(job[p].cmd) :
           answer \in After[s.state] /\ Proceed(p, "save", prev[p], {Snapshot(p, answer, 1)})
    BY <1>6 DEF Query
  <2> DEFINE made == Snapshot(p, answer, 1)
  <2>2. pc[p] = "query" /\ store' = store
    BY <1>6 DEF Query
  <2>3. /\ pc'[p] = "save" /\ prev'[p] = prev[p] /\ new'[p] = {made} /\ job' = job
    BY <1>0, <2>1 DEF Proceed
  <2>4. /\ RecordsOf(job[p].cmd) = prev[p] /\ RecordsOf(job[p].cmd)' = prev[p]
        /\ s.state \notin Terminal /\ \A t, u \in prev[p] : u = t
    BY <1>0, <2>2, <2>3 DEF CallShape, CallerInv, RecordsOf
  <2>5. \A t \in prev[p] : t.events < made.events
    BY <1>0, <2>4, SnapshotLonger
  <2>6. made.state = answer /\ answer \in Results
    <3>1. job[p].cmd \in Commands
      BY <1>0 DEF TypeOK, Job
    <3>2. broker[job[p].cmd] \in BrokerStates
      BY <1>0, <3>1 DEF TypeOK
    <3> QED
      BY <3>2 DEF Snapshot, QueryResults, Inconclusive, BrokerStates, Results, States
  <2> HIDE DEF made
  <2>7. prev[p] # {} /\ \A t \in prev[p] : Advances(t, made)
    BY <2>1, <2>4, <2>5, <2>6 DEF Advances
  <2> QED
    BY <2>3, <2>4, <2>7 DEF CallShape
<1>7. CASE Save(p) /\ ~Return(p)
  <2>1. PICK r \in new[p] : \/ r \in store /\ pc' = [pc EXCEPT ![p] = "delete"]
                            \/ pc' = [pc EXCEPT ![p] = "write"]
    BY <1>7 DEF Save
  <2>2. pc[p] = "save" /\ UNCHANGED <<store, job, prev, new>>
    BY <1>7 DEF Save
  <2>3. /\ RecordsOf(job[p].cmd) = prev[p] /\ RecordsOf(job[p].cmd)' = prev[p]
        /\ r.cmd = job[p].cmd /\ r \in Record
        /\ \A s \in prev[p] : s.events < r.events
    BY <1>0, <2>2 DEF CallShape, CallerInv, RecordsOf
  <2>4. r \notin store
    <3>1. r \in store => r \in prev[p]
      BY <2>3 DEF RecordsOf
    <3> QED
      BY <2>3, <3>1 DEF Record
  <2>5. pc'[p] = "write"
    BY <1>0, <2>1, <2>4
  <2> QED
    BY <1>0, <2>2, <2>3, <2>5 DEF CallShape
<1>8. CASE Write(p)
  <2>1. pc'[p] = "delete" /\ UNCHANGED <<job, prev, new>> /\ pc[p] = "write"
    BY <1>0, <1>8 DEF Write
  <2>2. RecordsOf(job[p].cmd)' = prev[p] \cup new[p]
    <3>1. PICK d \in Commands : d = job[p].cmd
      BY <1>0 DEF TypeOK, Job
    <3>2. RecordsOf(d)' = prev[p] \cup new[p]
      BY <1>8, <3>1, WriteRecords
    <3> QED
      BY <2>1, <3>1, <3>2 DEF RecordsOf
  <2> QED
    BY <1>0, <2>1, <2>2 DEF CallShape
<1>9. CASE DeletePrevious(p) \/ (FindStale(p) /\ ~Return(p))
  <2>1. pc'[p] \in {"relist", "cleanup"}
    BY <1>0, <1>9 DEF DeletePrevious, FindStale
  <2> QED
    BY <2>1 DEF CallShape
<1>10. ASSUME LoadAmbiguous(p) \/ RefuseContact(p) \/ DeleteStale(p) \/ Crash(p)
       PROVE  Return(p)
  BY <1>10 DEF LoadAmbiguous, RefuseContact, DeleteStale, Crash
<1> QED
  BY <1>1, <1>2, <1>3, <1>4, <1>5, <1>6, <1>7, <1>8, <1>9, <1>10 DEF Load, Contact, Persist

LEMMA LedgerStep ==
    ASSUME SingleCaller, LedgerInv, [Next]_vars
    PROVE  LedgerInv'
<1>1. SingleCallerInv' /\ \A c \in Commands : Shaped(RecordsOf(c)')
  BY SingleCallerStep, ShapedStep DEF LedgerInv
<1>2. ASSUME NEW p \in Procs PROVE CallShape(p)'
  <2>1. CASE Start(p) \/ ListStore(p) \/ Load(p) \/ Contact(p) \/ Persist(p) \/ Crash(p)
    BY <2>1, ShapeStep
  <2>2. CASE UNCHANGED <<store, call>>
    BY <2>2 DEF LedgerInv, CallShape, RecordsOf, call
  <2> QED
    BY <2>1, <2>2 DEF Next, BrokerProgress, vars, SingleCaller
<1>3. \A c \in Commands : Shaped(RecordsOf(c))'
  BY <1>1 DEF Shaped
<1> QED
  BY <1>1, <1>2, <1>3 DEF LedgerInv

LEMMA LedgerInvariant == ASSUME SingleCaller PROVE Spec => []LedgerInv
<1>1. Init => LedgerInv
  <2> SUFFICES ASSUME Init PROVE LedgerInv
    OBVIOUS
  <2>1. SingleCallerInv
    BY SingleCallerStart
  <2>2. \A p \in Procs : CallShape(p)
    BY DEF Init, CallShape
  <2>3. \A c \in Commands : Shaped(RecordsOf(c))
    BY DEF Init, RecordsOf, Shaped
  <2> QED
    BY <2>1, <2>2, <2>3 DEF LedgerInv
<1>2. LedgerInv /\ [Next]_vars => LedgerInv'
  BY LedgerStep
<1> QED
  BY <1>1, <1>2, PTL DEF Spec

\* Of a command a single caller keeps its last snapshot and at most the one before,
\* and the table leads from the one to the other.
LEMMA ShapedIs ==
    ASSUME NEW S, S \subseteq Record, Shaped(S)
    PROVE  Cardinality(S) <= 2 /\ \A r, s \in S : r = s \/ Succeeds(r, s) \/ Succeeds(s, r)
<1>1. CASE S = {}
  BY <1>1, FS_EmptySet
<1>2. CASE S # {}
  <2>1. PICK s, r \in S : S = {s, r} /\ (s = r \/ Advances(s, r))
    BY <1>2 DEF Shaped
  <2>2. Cardinality(S) <= 2
    <3>1. IsFiniteSet({s}) /\ Cardinality({s}) = 1
      BY FS_Singleton
    <3>2. {s} \cup {r} = S
      BY <2>1
    <3>3. Cardinality({s} \cup {r}) = IF r \in {s} THEN 1 ELSE 1 + 1
      BY <3>1, FS_AddElement
    <3> QED
      BY <3>2, <3>3
  <2>3. Advances(s, r) => Succeeds(s, r)
    <3>1. s.state \in States
      BY DEF Record
    <3> QED
      BY <2>1, <3>1 DEF Advances, Succeeds, Follows, Record
  <2> QED
    BY <2>1, <2>2, <2>3
<1> QED
  BY <1>1, <1>2

THEOREM SingleCallerKeepsPredecessor ==
    ASSUME SingleCaller
    PROVE  Spec => []AtMostPredecessor
<1>1. LedgerInv => AtMostPredecessor
  <2> SUFFICES ASSUME LedgerInv, NEW c \in Commands
               PROVE  /\ Cardinality(RecordsOf(c)) <= 2
                      /\ \A r, s \in RecordsOf(c) : r = s \/ Succeeds(r, s) \/ Succeeds(s, r)
    BY DEF AtMostPredecessor
  <2>1. RecordsOf(c) \subseteq Record /\ Shaped(RecordsOf(c))
    BY DEF LedgerInv, SingleCallerInv, TypeOK, RecordsOf
  <2> QED
    BY <2>1, ShapedIs
<1> QED
  BY <1>1, LedgerInvariant, PTL

LEMMA OneHasOne ==
    ASSUME NEW S, Cardinality(S) > 1
    PROVE  S # {} /\ ~(\A s, t \in S : s = t)
<1> SUFFICES ASSUME \A s, t \in S : s = t PROVE FALSE
  BY FS_EmptySet
<1>1. CASE S = {}
  BY <1>1, FS_EmptySet
<1>2. CASE S # {}
  <2>1. PICK s \in S : S = {s}
    BY <1>2
  <2>2. Cardinality(S) = 1
    BY <2>1, FS_Singleton
  <2> QED
    BY <2>2
<1> QED
  BY <1>1, <1>2

\* Two records left by a crash between write and delete stop a single caller's
\* command for good: nothing dispatches it or changes what is stored of it.
THEOREM SingleCallerTornIsFrozen ==
    ASSUME SingleCaller
    PROVE  Spec => TornIsFrozen
<1> DEFINE Frozen ==
      \A c \in Commands :
          Torn(c) => RecordsOf(c)' = RecordsOf(c) /\ dispatched'[c] = dispatched[c]
<1>1. LedgerInv /\ [Next]_vars => [Frozen]_vars
  <2> SUFFICES ASSUME LedgerInv, [Next]_vars, NEW c \in Commands, Torn(c)
               PROVE  RecordsOf(c)' = RecordsOf(c) /\ dispatched'[c] = dispatched[c]
    OBVIOUS
  <2>0. /\ TypeOK /\ \A p \in Procs : CallerInv(p) /\ CallShape(p)
        /\ RecordsOf(c) # {} /\ ~(\A s, t \in RecordsOf(c) : s = t)
        /\ \A p \in Procs : job[p].cmd = c => pc[p] \notin Persisting
    BY OneHasOne DEF LedgerInv, SingleCallerInv, Torn
  <2>1. RecordsOf(c)' = RecordsOf(c)
    <3>1. CASE \A p \in Procs : ~Write(p) /\ ~DeletePrevious(p)
      BY <3>1, StoreKept DEF LedgerInv, RecordsOf
    <3>2. ASSUME NEW p \in Procs, Write(p) PROVE RecordsOf(c)' = RecordsOf(c)
      <4>1. c # job[p].cmd
        BY <2>0, <3>2, WriteRecords
      <4> QED
        BY <3>2, <4>1, WriteRecords
    <3>3. ASSUME NEW p \in Procs, DeletePrevious(p) PROVE RecordsOf(c)' = RecordsOf(c)
      <4>1. c # job[p].cmd
        BY <2>0, <3>3 DEF DeletePrevious, Persisting
      <4> QED
        BY <3>3, <4>1, DeleteRecords
    <3> QED
      BY <3>1, <3>2, <3>3
  <2>2. ASSUME NEW p \in Procs, Dispatch(p) PROVE dispatched'[c] = dispatched[c]
    <3>1. pc[p] = "dispatch" /\ dispatched' = [dispatched EXCEPT ![job[p].cmd] = @ + 1]
      BY <2>2 DEF Dispatch
    <3>2. c # job[p].cmd
      BY <2>0, <3>1 DEF CallShape, CallerInv
    <3> QED
      BY <2>0, <3>1, <3>2 DEF TypeOK
  <2>3. (\A p \in Procs : ~Dispatch(p)) => dispatched' = dispatched
    BY DEF Next, Start, ListStore, Load, LoadAmbiguous, LoadNothing, LoadOne,
       Contact, RefuseContact, Query, Persist, Save, Write, DeletePrevious, Relist,
       FindStale, DeleteStale, Crash, BrokerProgress, history, vars
  <2> QED
    BY <2>1, <2>2, <2>3
<1> QED
  BY <1>1, LedgerInvariant, PTL DEF Spec, TornIsFrozen

-----------------------------------------------------------------------------
(* ... step by step *)

\* The state that a set of records of a command says it is in.
StateOf(S) ==
    IF S = {} THEN "NONE"
    ELSE (CHOOSE r \in S : \A s \in S : s.events <= r.events).state

LEMMA StateIs ==
    ASSUME NEW S, S \subseteq Record, NEW r \in S, \A s \in S : s = r \/ s.events < r.events
    PROVE  StateOf(S) = r.state
<1>1. \A s \in S : s.events \in Nat /\ s.events <= r.events
  BY DEF Record
<1> DEFINE latest == CHOOSE t \in S : \A s \in S : s.events <= t.events
<1>2. latest \in S /\ \A s \in S : s.events <= latest.events
  BY <1>1
<1>3. r.events <= latest.events /\ latest.events \in Nat /\ r.events \in Nat
  BY <1>1, <1>2
<1>4. latest = r
  <2> HIDE DEF latest
  <2>1. ~(latest.events < r.events)
    BY <1>3
  <2> QED
    BY <1>2, <2>1
<1>5. StateOf(S) = latest.state
  BY DEF StateOf
<1> QED
  BY <1>4, <1>5

LEMMA CurrentIs == \A c : CurrentState(c) = StateOf(RecordsOf(c))
BY DEF CurrentState, StateOf

LEMMA CurrentNext == \A c : CurrentState(c)' = StateOf(RecordsOf(c)')
BY DEF CurrentState, StateOf

\* The ledger's table is the contract's.
LEMMA SameTable ==
    /\ Ledger!After = After /\ Ledger!Results = Results
    /\ Ledger!States = States /\ Ledger!Terminal = Terminal
<1>1. /\ Ledger!Results = Results /\ Ledger!States = States /\ Ledger!Terminal = Terminal
  BY DEF Ledger!Results, Results, Ledger!States, States, Ledger!Terminal, Terminal
<1>2. Ledger!After = After
  BY <1>1 DEF Ledger!After, After
<1> QED
  BY <1>1, <1>2

\* The states one record may lead to are those a step of the ledger may.
LEMMA LedgerMoves ==
    ASSUME LedgerInv, NEW p \in Procs, NEW c \in Commands, c = job[p].cmd, Write(p)
    PROVE  Ledger!Open(c) \/ Ledger!Attempt(c) \/ Ledger!Reconcile(c)
<1> DEFINE recorded == [d \in Commands |-> CurrentState(d)]
<1>1. PICK r \in new[p] :
         /\ r \in Record /\ RecordsOf(c) = prev[p]
         /\ \A d \in Commands :
               RecordsOf(d)' = IF d = c THEN prev[p] \cup {r} ELSE RecordsOf(d)
         /\ prev[p] = {} => First(r)
         /\ \A s \in prev[p] : Advances(s, r)
         /\ \A s, t \in prev[p] : s = t
  BY WriteRecords
<1>2. prev[p] \subseteq Record
  BY DEF LedgerInv, SingleCallerInv, TypeOK
<1>3. StateOf(prev[p] \cup {r}) = r.state
  <2>1. \A s \in prev[p] \cup {r} : s = r \/ s.events < r.events
    BY <1>1 DEF Advances
  <2> QED
    BY <1>1, <1>2, <2>1, StateIs
<1>4. \A d \in Commands : CurrentState(d)' = IF d = c THEN r.state ELSE CurrentState(d)
  BY <1>1, <1>3, CurrentIs, CurrentNext
<1>5. recorded' = [recorded EXCEPT ![c] = r.state]
  BY <1>4
<1>6. recorded[c] = StateOf(prev[p])
  BY <1>1, CurrentIs
<1>7. CASE prev[p] = {}
  <2>1. recorded[c] = "NONE" /\ First(r)
    BY <1>1, <1>6, <1>7 DEF StateOf
  <2>2. CASE r.state = "CREATED"
    BY <1>5, <2>1, <2>2 DEF Ledger!Open, Ledger!Unrecorded
  <2>3. CASE r.state \in After["SUBMISSION_REQUESTED"]
    BY <1>5, <2>1, <2>3, SameTable DEF Ledger!Attempt, Ledger!Unrecorded
  <2> QED
    BY <2>1, <2>2, <2>3 DEF First
<1>8. CASE prev[p] # {}
  <2>1. PICK s \in prev[p] : prev[p] = {s} /\ Advances(s, r)
    BY <1>1, <1>8
  <2>2. recorded[c] = s.state /\ s.state \in States
    <3>1. StateOf({s}) = s.state
      BY <1>2, StateIs
    <3> QED
      BY <1>2, <1>6, <2>1, <3>1 DEF Record
  <2>3. CASE s.state = "CREATED" /\ r.state \in After["SUBMISSION_REQUESTED"]
    BY <1>5, <2>2, <2>3, SameTable DEF Ledger!Attempt
  <2>4. CASE s.state \notin Terminal /\ r.state \in After[s.state] \cap Results
    BY <1>5, <2>2, <2>4, SameTable DEF Ledger!Reconcile
  <2> QED
    BY <2>1, <2>3, <2>4 DEF Advances
<1> QED
  BY <1>7, <1>8

\* Deleting the snapshot before the last leaves the recorded state.
LEMMA DeleteStutters ==
    ASSUME LedgerInv, NEW p \in Procs, DeletePrevious(p), NEW c \in Commands
    PROVE  CurrentState(c)' = CurrentState(c)
<1>1. PICK r \in new[p] :
         /\ r \in Record /\ RecordsOf(job[p].cmd) = prev[p] \cup {r}
         /\ RecordsOf(c)' = IF c = job[p].cmd THEN {r} ELSE RecordsOf(c)
         /\ \A s \in prev[p] : s.events < r.events
  BY DeleteRecords
<1>2. prev[p] \subseteq Record
  BY DEF LedgerInv, SingleCallerInv, TypeOK
<1>3. CASE c # job[p].cmd
  BY <1>1, <1>3, CurrentIs, CurrentNext
<1>4. CASE c = job[p].cmd
  <2>1. StateOf(prev[p] \cup {r}) = r.state /\ StateOf({r}) = r.state
    BY <1>1, <1>2, StateIs
  <2> QED
    BY <1>1, <1>4, <2>1, CurrentIs, CurrentNext
<1> QED
  BY <1>3, <1>4

\* What a single caller's service stores of a command is what the ledger promises:
\* opened once, attempted once, advanced along the table until it is settled.
THEOREM SingleCallerImplementsLedger ==
    ASSUME SingleCaller
    PROVE  Spec => ImplementsLedger
<1> DEFINE recorded == [c \in Commands |-> CurrentState(c)]
<1>1. Init => Ledger!LedgerInit
  <2> SUFFICES ASSUME Init PROVE Ledger!LedgerInit
    OBVIOUS
  <2>1. \A c \in Commands : CurrentState(c) = "NONE"
    BY DEF Init, CurrentState, RecordsOf
  <2> QED
    BY <2>1 DEF Ledger!LedgerInit, Ledger!Unrecorded
<1>2. LedgerInv /\ [Next]_vars => [Ledger!LedgerNext]_recorded
  <2> SUFFICES ASSUME LedgerInv, [Next]_vars PROVE Ledger!LedgerNext \/ recorded' = recorded
    OBVIOUS
  <2>1. CASE \A p \in Procs : ~Write(p) /\ ~DeletePrevious(p)
    <3>1. store' = store
      BY <2>1, StoreKept DEF LedgerInv
    <3>2. \A c \in Commands : CurrentState(c)' = CurrentState(c)
      BY <3>1 DEF CurrentState, RecordsOf
    <3> QED
      BY <3>2
  <2>2. ASSUME NEW p \in Procs, Write(p) PROVE Ledger!LedgerNext
    <3>1. PICK c \in Commands : c = job[p].cmd
      BY DEF LedgerInv, SingleCallerInv, TypeOK, Job
    <3>2. Ledger!Open(c) \/ Ledger!Attempt(c) \/ Ledger!Reconcile(c)
      BY <2>2, <3>1, LedgerMoves
    <3> QED
      BY <3>2 DEF Ledger!LedgerNext
  <2>3. ASSUME NEW p \in Procs, DeletePrevious(p) PROVE recorded' = recorded
    <3>1. \A c \in Commands : CurrentState(c)' = CurrentState(c)
      BY <2>3, DeleteStutters
    <3> QED
      BY <3>1
  <2> QED
    BY <2>1, <2>2, <2>3
<1> QED
  BY <1>1, <1>2, LedgerInvariant, PTL DEF Spec, ImplementsLedger, Ledger!LedgerSpec

-----------------------------------------------------------------------------
(* A single caller's outcomes are true *)

\* Inductive with what the records are backed by: a refusal stored, or about to be,
\* is still what the broker says.
Refusal(r) == r.state = "REJECTED" => broker[r.cmd] = "REJECTED"
OutcomeInv ==
    /\ SingleCallerInv /\ SettledInv
    /\ \A r \in store : Refusal(r)
    /\ \A p \in Procs : \A r \in new[p] : Refusal(r)

\* What an answer to a submission says is refused, the broker says too.
LEMMA RefusalAnswered ==
    ASSUME TypeOK, BrokerDedupes, NEW c \in Commands, NEW out \in SubmitOutcomes(c),
           out[3] = "REJECTED"
    PROVE  out[1] = "REJECTED"
<1>1. orders[c] \in Nat
  BY DEF TypeOK
<1>2. CASE out \in NotReached(c)
  BY <1>2 DEF NotReached, Inconclusive
<1>3. CASE out \in Deduplicated(c)
  BY <1>3 DEF Deduplicated, Inconclusive
<1>4. CASE out \in Refused(c) /\ orders[c] = 0
  BY <1>4 DEF Refused, Inconclusive
<1>5. CASE out \in Taken(c)
  BY <1>5 DEF Taken, Inconclusive
<1> QED
  BY <1>1, <1>2, <1>3, <1>4, <1>5 DEF SubmitOutcomes

\* Only a submission makes the broker say something else of a refused order.
LEMMA RefusalStays ==
    ASSUME TypeOK, [Next]_vars, NEW c \in Commands, broker[c] = "REJECTED",
           \A p \in Procs : Dispatch(p) => job[p].cmd # c
    PROVE  broker'[c] = "REJECTED"
<1>t. broker \in [Commands -> BrokerStates] /\ job \in [Procs -> Job]
  BY DEF TypeOK
<1>1. ASSUME NEW p \in Procs, Dispatch(p) PROVE broker'[c] = broker[c]
  <2>1. PICK out \in SubmitOutcomes(job[p].cmd) :
           broker' = [broker EXCEPT ![job[p].cmd] = out[1]]
    BY <1>1 DEF Dispatch
  <2> QED
    BY <1>t, <1>1, <2>1
<1>2. ASSUME NEW p \in Procs,
             \/ Start(p) \/ ListStore(p) \/ Load(p) \/ RefuseContact(p) \/ Query(p)
             \/ Persist(p) \/ Crash(p)
      PROVE  broker' = broker
  BY <1>2 DEF Start, ListStore, Load, LoadAmbiguous, LoadNothing, LoadOne,
     RefuseContact, Query, Persist, Save, Write, DeletePrevious, Relist, FindStale,
     DeleteStale, Crash, external
<1>3. ASSUME NEW d \in Commands, BrokerProgress(d) PROVE broker'[c] = broker[c]
  <2>1. PICK s \in BrokerMoves[broker[d]] : broker' = [broker EXCEPT ![d] = s]
    BY <1>3 DEF BrokerProgress
  <2>2. d # c
    BY <2>1 DEF BrokerMoves, BrokerStates
  <2> QED
    BY <1>t, <2>1, <2>2
<1>4. CASE UNCHANGED vars
  BY <1>4 DEF vars, external
<1> QED
  BY <1>1, <1>2, <1>3, <1>4 DEF Next, Contact

\* What a step that submits nothing makes for storing is what the broker says.
LEMMA RefusalMade ==
    ASSUME TypeOK, [Next]_vars, NEW p \in Procs, NEW r \in new'[p], r \notin new[p],
           r.state = "REJECTED", \A q \in Procs : ~Dispatch(q)
    PROVE  broker'[r.cmd] = "REJECTED"
<1>t. new \in [Procs -> SUBSET Record] /\ job \in [Procs -> Job]
  BY DEF TypeOK
<1>1. ASSUME NEW q \in Procs, LoadNothing(q) PROVE FALSE
  BY <1>1, <1>t DEF LoadNothing, Proceed, Return, CreatedRecord
<1>3. ASSUME NEW q \in Procs, Query(q) PROVE broker'[r.cmd] = r.state
  <2>1. PICK answer \in QueryResults(job[q].cmd) :
          \A o \in Procs : new'[o] \subseteq new[o] \cup {Snapshot(q, answer, 1)}
    BY <1>3, <1>t DEF Query, Proceed, Return
  <2> QED
    BY <1>3, <2>1 DEF QueryResults, Inconclusive, Snapshot, Query, external
<1>4. ASSUME NEW q \in Procs,
             \/ Start(q) \/ ListStore(q) \/ LoadAmbiguous(q) \/ LoadOne(q)
             \/ RefuseContact(q) \/ Persist(q) \/ Crash(q)
      PROVE  FALSE
  BY <1>4, <1>t DEF Start, ListStore, LoadAmbiguous, LoadOne, RefuseContact, Persist,
     Save, Write, DeletePrevious, Relist, FindStale, DeleteStale, Crash, Proceed, Return
<1>5. CASE new' = new
  BY <1>5
<1> QED
  BY <1>1, <1>3, <1>4, <1>5 DEF Next, Load, Contact, BrokerProgress, vars, call

LEMMA OutcomeStep ==
    ASSUME SingleCaller, BrokerDedupes, OutcomeInv, [Next]_vars
    PROVE  OutcomeInv'
<1>0. /\ SingleCallerInv' /\ SettledInv' /\ TypeOK /\ TypeOK'
      /\ \A p \in Procs : CallerInv(p)
  BY SingleCallerStep, SettledStep DEF OutcomeInv, SingleCallerInv
<1>1. CASE \A p \in Procs : ~Dispatch(p)
  <2>1. \A r \in Record : Refusal(r) => (r.state = "REJECTED" => broker'[r.cmd] = "REJECTED")
    BY <1>0, <1>1, RefusalStays DEF Refusal, Record
  <2>2. ASSUME NEW r \in store', r.state = "REJECTED" PROVE broker'[r.cmd] = "REJECTED"
    <3>1. ASSUME r \notin store PROVE \E p \in Procs : r \in new[p]
      BY <2>2, <3>1 DEF Next, Start, ListStore, Load, LoadAmbiguous, LoadNothing, LoadOne, Contact,
         RefuseContact, Dispatch, Query, Persist, Save, Write, DeletePrevious, Relist, FindStale,
         DeleteStale, Crash, BrokerProgress, vars
    <3>2. Refusal(r) /\ r \in Record
      BY <1>0, <3>1 DEF OutcomeInv, TypeOK
    <3> QED
      BY <2>1, <2>2, <3>2
  <2>3. ASSUME NEW p \in Procs, NEW r \in new'[p], r.state = "REJECTED"
        PROVE  broker'[r.cmd] = "REJECTED"
    <3>1. CASE r \in new[p]
      BY <1>0, <2>1, <2>3, <3>1 DEF OutcomeInv, TypeOK
    <3>2. CASE r \notin new[p]
      BY <1>0, <1>1, <2>3, <3>2, RefusalMade
    <3> QED
      BY <3>1, <3>2
  <2> QED
    BY <1>0, <2>2, <2>3 DEF OutcomeInv, Refusal
<1>2. ASSUME NEW p \in Procs, Dispatch(p) PROVE OutcomeInv'
  <2> DEFINE c == job[p].cmd
  <2>0. c \in Commands /\ \A q \in Procs : q = p
    BY <1>0 DEF TypeOK, Job, SingleCaller
  <2>1. PICK out \in SubmitOutcomes(c) :
           /\ broker' = [broker EXCEPT ![c] = out[1]]
           /\ new'[p] \subseteq {Snapshot(p, out[3], 2)}
    <3>1. new \in [Procs -> SUBSET Record]
      BY <1>0 DEF TypeOK
    <3> QED
      BY <1>2, <3>1 DEF Dispatch, Proceed, Return
  <2>2. store' = store /\ \A r \in RecordsOf(c) : r.state = "CREATED"
    BY <1>0, <1>2 DEF Dispatch, CallerInv
  <2>3. broker'[c] = out[1] /\ \A d \in Commands : d # c => broker'[d] = broker[d]
    BY <1>0, <2>0, <2>1 DEF TypeOK
  <2>4. ASSUME NEW r \in store', r.state = "REJECTED" PROVE broker'[r.cmd] = "REJECTED"
    <3>1. r \in store /\ r.cmd \in Commands /\ Refusal(r)
      BY <1>0, <2>2 DEF TypeOK, Record, OutcomeInv
    <3>2. r.cmd # c
      BY <2>2, <2>4, <3>1 DEF RecordsOf
    <3> QED
      BY <2>3, <2>4, <3>1, <3>2 DEF Refusal
  <2>5. ASSUME NEW q \in Procs, NEW r \in new'[q], r.state = "REJECTED"
        PROVE  broker'[r.cmd] = "REJECTED"
    <3>1. r.cmd = c /\ out[3] = "REJECTED"
      BY <2>0, <2>1, <2>5 DEF Snapshot
    <3> QED
      BY <1>0, <2>0, <2>1, <2>3, <3>1, RefusalAnswered
  <2> QED
    BY <1>0, <2>4, <2>5 DEF OutcomeInv, Refusal
<1> QED
  BY <1>1, <1>2

\* With a broker that deduplicates, a refusal, fill or cancellation that a single
\* caller has stored is what the broker says of the order.
THEOREM SingleCallerOutcomesTrue ==
    ASSUME SingleCaller, BrokerDedupes
    PROVE  Spec => []OutcomeIsTrue
<1>1. Init => OutcomeInv
  <2>1. Init => TypeOK
    BY NoJobType, ConstantsAssumption DEF Init, TypeOK, BrokerStates, Times, Steps
  <2> QED
    BY <2>1, SingleCallerStart DEF Init, OutcomeInv, SettledInv, SettledIsTrue,
       RecordsBacked, RecordedOrderExists, OrderStates
<1>2. OutcomeInv /\ [Next]_vars => OutcomeInv'
  BY OutcomeStep
<1>3. OutcomeInv => OutcomeIsTrue
  BY DEF OutcomeInv, SettledInv, SettledIsTrue, Settled, Refusal, OutcomeIsTrue
<1> QED
  BY <1>1, <1>2, <1>3, PTL DEF Spec
=============================================================================
