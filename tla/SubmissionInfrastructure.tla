---------------------- MODULE SubmissionInfrastructure ----------------------
(***************************************************************************)
(* The submission path of one process or of several: create_lifecycle,     *)
(* submit_command and reconcile_command of SubmissionInfrastructure, with  *)
(* the engine and the file store they call, over a broker that may lose    *)
(* answers, and processes that may crash between any two steps.            *)
(*                                                                         *)
(* A call is the sequence of its accesses to what it shares with others:   *)
(* list the store's directory, read the files listed, contact the broker,  *)
(* write the new snapshot, delete the old one, list and read again.  What  *)
(* the engine computes between two of them is part of the step before.     *)
(***************************************************************************)
EXTENDS SubmissionContract, FiniteSets

CONSTANTS
    Commands,       \* authorized, persisted ExecutionCommands
    Procs,          \* processes (or threads) calling the service
    BrokerDedupes,  \* does the broker refuse a second order with a known id?
    MaxCalls,       \* bound: calls made on the service
    MaxTime,        \* bound: the caller-supplied created_at values
    MaxCrashes      \* bound: process crashes

ASSUME ConstantsAssumption ==
    /\ Commands # {}
    /\ BrokerDedupes \in BOOLEAN
    /\ MaxCalls \in Nat /\ MaxTime \in Nat /\ MaxCrashes \in Nat

VARIABLES
    store,       \* the snapshots on disk
    pc,          \* the step each process is at
    job,         \* the operation, command and created_at of its call
    seen,        \* the directory listing it has read
    prev,        \* the snapshot it has loaded (none or one)
    new,         \* the snapshot it is to store (none or one)
    broker,      \* the broker's view of the order of each command
    orders,      \* how many orders the broker has taken for each command
    dispatched,  \* history: adapter.submit calls made for each command
    lost,        \* history: dispatches whose outcome was never stored
    clock, calls, crashes

history == <<dispatched, lost>>
external == <<broker, orders>>
bounds == <<clock, calls, crashes>>
call == <<pc, job, seen, prev, new>>
vars == <<store, call, external, history, bounds>>

-----------------------------------------------------------------------------
Times == 0..MaxTime
Ops == {"create", "submit", "reconcile"}

\* A stored snapshot.  Its file name, the submission_id, is a hash of the
\* command, the state and created_at; "events" is the length of its history,
\* which is never empty.
Record == [cmd : Commands, state : States, at : Times, events : Nat \ {0}]
SameId(r, s) == r.cmd = s.cmd /\ r.state = s.state /\ r.at = s.at

RecordsOf(c) == {r \in store : r.cmd = c}

\* What is stored now under the file names of some records.
Files(S) == {s \in store : \E r \in S : SameId(r, s)}

Persisting == {"delete", "relist", "purge", "cleanup"}
Steps == {"idle", "list", "load", "dispatch", "query", "save", "write"} \cup Persisting

Job == [op : Ops, cmd : Commands, at : Times]
NoJob == [op |-> "create", cmd |-> CHOOSE c \in Commands : TRUE, at |-> 0]

\* The call of p goes on at a step, with a snapshot loaded and one to store.
Proceed(p, step, loaded, made) ==
    /\ pc' = [pc EXCEPT ![p] = step]
    /\ seen' = [seen EXCEPT ![p] = {}]
    /\ prev' = [prev EXCEPT ![p] = loaded]
    /\ new' = [new EXCEPT ![p] = made]
    /\ UNCHANGED job

\* The call returns or raises: nothing of it survives in the service.
Return(p) ==
    /\ pc' = [pc EXCEPT ![p] = "idle"]
    /\ job' = [job EXCEPT ![p] = NoJob]
    /\ seen' = [seen EXCEPT ![p] = {}]
    /\ prev' = [prev EXCEPT ![p] = {}]
    /\ new' = [new EXCEPT ![p] = {}]

-----------------------------------------------------------------------------
(* The broker behind the adapter *)

BrokerStates == {"NONE", "SUBMITTED", "ACCEPTED", "PARTIALLY_FILLED",
                 "FILLED", "CANCELLED", "REJECTED"}

BrokerMoves ==
    [s \in BrokerStates |->
        CASE s = "SUBMITTED" -> {"ACCEPTED", "PARTIALLY_FILLED", "FILLED",
                                 "CANCELLED", "REJECTED"}
          [] s = "ACCEPTED" -> {"PARTIALLY_FILLED", "FILLED", "CANCELLED"}
          [] s = "PARTIALLY_FILLED" -> {"FILLED", "CANCELLED"}
          [] OTHER -> {}]

BrokerProgress(c) ==
    /\ \E s \in BrokerMoves[broker[c]] : broker' = [broker EXCEPT ![c] = s]
    /\ UNCHANGED <<store, call, orders, history, bounds>>

\* What one adapter.submit can do at the broker and what it can report.  A
\* timeout or rate limit reports UNKNOWN, a network or internal failure of the
\* adapter FAILED, whether or not the order got through.
Inconclusive == {"UNKNOWN", "FAILED"}

NotReached(c) == {<<broker[c], orders[c], r>> : r \in Inconclusive}
Deduplicated(c) == {<<broker[c], orders[c], r>> : r \in Inconclusive \cup {"ACCEPTED"}}
Refused(c) == {<<IF orders[c] = 0 THEN "REJECTED" ELSE broker[c], orders[c], r>> :
                   r \in Inconclusive \cup {"REJECTED"}}
Taken(c) ==
    UNION {{<<s, orders[c] + 1, r>> : r \in Inconclusive \cup {s}} :
               s \in {"SUBMITTED", "ACCEPTED", "PARTIALLY_FILLED", "FILLED"}}

\* mutant: every submission carries a client order id of its own
SubmitOutcomesNewId(c) == NotReached(c) \cup Refused(c) \cup Taken(c)

SubmitOutcomes(c) ==
    NotReached(c) \cup IF BrokerDedupes /\ orders[c] > 0
                       THEN Deduplicated(c)
                       ELSE Refused(c) \cup Taken(c)

\* What one adapter.reconcile can report: the broker's state of the order,
\* UNKNOWN, or FAILED when the query itself failed (normalize_client_failure).
QueryResults(c) == Inconclusive \cup ({broker[c]} \ {"NONE"})

-----------------------------------------------------------------------------
(* Reading the store: load_by_command *)

\* A caller starts an operation with a created_at that never goes back.
Start(p) ==
    /\ pc[p] = "idle"
    /\ calls < MaxCalls
    /\ \E o \in Ops, c \in Commands, t \in {clock, clock + 1} \cap Times :
          /\ job' = [job EXCEPT ![p] = [op |-> o, cmd |-> c, at |-> t]]
          /\ clock' = t
    /\ pc' = [pc EXCEPT ![p] = "list"]
    /\ calls' = calls + 1
    /\ UNCHANGED <<store, seen, prev, new, external, history, crashes>>

ListStore(p) ==
    /\ pc[p] = "list"
    /\ pc' = [pc EXCEPT ![p] = "load"]
    /\ seen' = [seen EXCEPT ![p] = RecordsOf(job[p].cmd)]
    /\ UNCHANGED <<store, job, prev, new, external, history, bounds>>

\* A listed file that has been deleted since does not match any command.
Matches(p) == Files(seen[p])

\* More than one record claims the command: SubmissionIntegrityError.
LoadAnyOfSeveral(p) ==  \* mutant: the first record found is loaded
    /\ pc[p] = "load"
    /\ Cardinality(Matches(p)) > 1
    /\ \E r \in Matches(p) : Proceed(p, "query", {r}, {})
    /\ UNCHANGED <<store, external, history, bounds>>

LoadAmbiguous(p) ==
    /\ pc[p] = "load"
    /\ Cardinality(Matches(p)) > 1
    /\ Return(p)
    /\ UNCHANGED <<store, external, history, bounds>>

CreatedRecordBare(p) ==  \* mutant: the snapshot built before its event is kept
    [cmd |-> job[p].cmd, state |-> "CREATED", at |-> job[p].at, events |-> 0]

CreatedRecord(p) ==
    [cmd |-> job[p].cmd, state |-> "CREATED", at |-> job[p].at, events |-> 1]

LoadNothing(p) ==
    /\ pc[p] = "load"
    /\ Matches(p) = {}
    /\ \/ job[p].op = "create" /\ Proceed(p, "save", {}, {CreatedRecord(p)})
       \/ job[p].op = "submit" /\ Proceed(p, "dispatch", {}, {})
       \/ job[p].op = "reconcile" /\ Return(p)
    /\ UNCHANGED <<store, external, history, bounds>>

\* The stored states from which submit goes on; from the others it returns
\* the snapshot or raises.
MaySubmitOrRetry == {"CREATED", "UNKNOWN"}  \* mutant: an unknown outcome is retried
MaySubmit == {"CREATED"}

LoadOne(p) ==
    /\ pc[p] = "load"
    /\ \E r \in Matches(p) :
          /\ Matches(p) = {r}
          /\ IF job[p].op = "submit" /\ r.state \in MaySubmit
             THEN Proceed(p, "dispatch", {r}, {})
             ELSE IF job[p].op = "reconcile" /\ r.state \notin Terminal
             THEN Proceed(p, "query", {r}, {})
             ELSE Return(p)
    /\ UNCHANGED <<store, external, history, bounds>>

-----------------------------------------------------------------------------
(* The engine: submit and reconcile_submission *)

PrevEvents(p) ==
    IF prev[p] = {} THEN 0 ELSE (CHOOSE r \in prev[p] : TRUE).events

SnapshotOptimistic(p, state, events) ==  \* mutant: a timeout counts as submitted
    [cmd |-> job[p].cmd, state |-> IF state = "UNKNOWN" THEN "SUBMITTED" ELSE state,
     at |-> job[p].at, events |-> PrevEvents(p) + events]

SnapshotPessimistic(p, state, events) ==  \* mutant: a timeout counts as rejected
    [cmd |-> job[p].cmd, state |-> IF state = "UNKNOWN" THEN "REJECTED" ELSE state,
     at |-> job[p].at, events |-> PrevEvents(p) + events]

SnapshotForgetful(p, state, events) ==  \* mutant: the earlier events are dropped
    [cmd |-> job[p].cmd, state |-> state, at |-> job[p].at, events |-> events]

Snapshot(p, state, events) ==
    [cmd |-> job[p].cmd, state |-> state, at |-> job[p].at,
     events |-> PrevEvents(p) + events]

\* No adapter of the command's mode, or one that refuses before any contact.
RefuseContact(p) ==
    /\ pc[p] \in {"dispatch", "query"}
    /\ Return(p)
    /\ UNCHANGED <<store, external, history, bounds>>

\* request_submission, adapter.submit and record_result.  The snapshot in
\* SUBMISSION_REQUESTED exists in memory only.  An answer the table does not
\* allow from it raises, and the call ends with nothing stored.
Dispatch(p) ==
    LET c == job[p].cmd IN
    /\ pc[p] = "dispatch"
    /\ \E out \in SubmitOutcomes(c) :
          /\ broker' = [broker EXCEPT ![c] = out[1]]
          /\ orders' = [orders EXCEPT ![c] = out[2]]
          /\ IF out[3] \in After["SUBMISSION_REQUESTED"]
             THEN /\ Proceed(p, "save", prev[p], {Snapshot(p, out[3], 2)})
                  /\ lost' = lost
             ELSE /\ Return(p)
                  /\ lost' = [lost EXCEPT ![c] = @ + 1]
    /\ dispatched' = [dispatched EXCEPT ![c] = @ + 1]
    /\ UNCHANGED <<store, bounds>>

QueryUnchecked(p) ==  \* mutant: the answer is stored whatever the table says
    /\ pc[p] = "query"
    /\ \E r \in prev[p], answer \in QueryResults(job[p].cmd) :
          Proceed(p, "save", prev[p], {Snapshot(p, answer, 1)})
    /\ UNCHANGED <<store, external, history, bounds>>

\* adapter.reconcile and record_result.
Query(p) ==
    /\ pc[p] = "query"
    /\ \E r \in prev[p], answer \in QueryResults(job[p].cmd) :
          IF answer \in After[r.state]
          THEN Proceed(p, "save", prev[p], {Snapshot(p, answer, 1)})
          ELSE Return(p)
    /\ UNCHANGED <<store, external, history, bounds>>

-----------------------------------------------------------------------------
(* _persist_replacing *)

\* A dispatch is under way in call p and its outcome is not on disk yet.
UnsavedDispatch(p) == pc[p] \in {"save", "write"} /\ job[p].op = "submit"

ForgetDispatch(p) ==
    lost' = IF UnsavedDispatch(p) THEN [lost EXCEPT ![job[p].cmd] = @ + 1] ELSE lost

\* save(overwrite=False) first looks for the file.  A known id passes only with
\* the same content, and equal states may still differ in the broker's wording.
Save(p) ==
    /\ pc[p] = "save"
    /\ \E r \in new[p] :
          \/ Files({r}) # {} /\ Return(p) /\ ForgetDispatch(p)
          \/ /\ \/ r \in store /\ pc' = [pc EXCEPT ![p] = "delete"]
                \/ Files({r}) = {} /\ pc' = [pc EXCEPT ![p] = "write"]
             /\ UNCHANGED <<job, seen, prev, new, lost>>
    /\ UNCHANGED <<store, external, dispatched, bounds>>

\* os.replace: a file of that name written since the look is overwritten.
Write(p) ==
    /\ pc[p] = "write"
    /\ store' = (store \ Files(new[p])) \cup new[p]
    /\ pc' = [pc EXCEPT ![p] = "delete"]
    /\ UNCHANGED <<job, seen, prev, new, external, history, bounds>>

\* Its name is not that of the snapshot just written.
StaleAlways(p, r) == TRUE  \* mutant: the comparison is dropped
Stale(p, r) == \A s \in new[p] : ~SameId(r, s)

DeletePrevious(p) ==
    /\ pc[p] = "delete"
    /\ store' = store \ Files({r \in prev[p] : Stale(p, r)})
    /\ pc' = [pc EXCEPT ![p] = "relist"]
    /\ UNCHANGED <<job, seen, prev, new, external, history, bounds>>

Relist(p) ==
    /\ pc[p] = "relist"
    /\ pc' = [pc EXCEPT ![p] = "purge"]
    /\ seen' = [seen EXCEPT ![p] = RecordsOf(job[p].cmd)]
    /\ UNCHANGED <<store, job, prev, new, external, history, bounds>>

\* A single record other than the new one is taken for a leftover.
FindStale(p) ==
    /\ pc[p] = "purge"
    /\ \/ \E r \in Matches(p) :
             /\ Matches(p) = {r}
             /\ Stale(p, r)
             /\ pc' = [pc EXCEPT ![p] = "cleanup"]
             /\ seen' = [seen EXCEPT ![p] = {r}]
             /\ UNCHANGED <<job, prev, new>>
       \/ /\ \A r \in Matches(p) : Matches(p) = {r} => ~Stale(p, r)
          /\ Return(p)
    /\ UNCHANGED <<store, external, history, bounds>>

DeleteStale(p) ==
    /\ pc[p] = "cleanup"
    /\ store' = store \ Files(seen[p])
    /\ Return(p)
    /\ UNCHANGED <<external, history, bounds>>

-----------------------------------------------------------------------------
\* The process dies and is restarted; disk and broker keep what they have.
Crash(p) ==
    /\ pc[p] # "idle"
    /\ crashes < MaxCrashes
    /\ crashes' = crashes + 1
    /\ Return(p)
    /\ ForgetDispatch(p)
    /\ UNCHANGED <<store, external, dispatched, clock, calls>>

Init ==
    /\ store = {}
    /\ pc = [p \in Procs |-> "idle"]
    /\ job = [p \in Procs |-> NoJob]
    /\ seen = [p \in Procs |-> {}]
    /\ prev = [p \in Procs |-> {}]
    /\ new = [p \in Procs |-> {}]
    /\ broker = [c \in Commands |-> "NONE"]
    /\ orders = [c \in Commands |-> 0]
    /\ dispatched = [c \in Commands |-> 0]
    /\ lost = [c \in Commands |-> 0]
    /\ clock = 0 /\ calls = 0 /\ crashes = 0

Load(p) == LoadAmbiguous(p) \/ LoadNothing(p) \/ LoadOne(p)
Contact(p) == RefuseContact(p) \/ Dispatch(p) \/ Query(p)
Persist(p) == Save(p) \/ Write(p) \/ DeletePrevious(p) \/ Relist(p)
              \/ FindStale(p) \/ DeleteStale(p)

Next ==
    \/ \E p \in Procs :
          Start(p) \/ ListStore(p) \/ Load(p) \/ Contact(p) \/ Persist(p) \/ Crash(p)
    \/ \E c \in Commands : BrokerProgress(c)

Spec == Init /\ [][Next]_vars

-----------------------------------------------------------------------------
(* Properties *)

\* Every variable keeps its type; snapshots carry states of the lifecycle
\* table and counters never run backwards past zero.
TypeOK ==
    /\ store \subseteq Record
    /\ pc \in [Procs -> Steps]
    /\ job \in [Procs -> Job]
    /\ seen \in [Procs -> SUBSET Record]
    /\ prev \in [Procs -> SUBSET Record]
    /\ new \in [Procs -> SUBSET Record]
    /\ broker \in [Commands -> BrokerStates]
    /\ orders \in [Commands -> Nat]
    /\ dispatched \in [Commands -> Nat]
    /\ lost \in [Commands -> Nat]
    /\ clock \in Times /\ calls \in Nat /\ crashes \in Nat

\* The service promises a single caller more than it promises several.
SingleCaller == \A p, q \in Procs : p = q

\* A record that speaks of an order (submitted, accepted, filled, cancelled)
\* is only ever stored for a command whose order the broker has taken, in
\* every interleaving of callers (record_result, broker answers).
OrderStates == {"SUBMITTED", "ACCEPTED", "PARTIALLY_FILLED", "FILLED", "CANCELLED"}
Backed(r) == r.state \in OrderStates => orders[r.cmd] > 0
RecordedOrderExists == \A r \in store : Backed(r)

\* Inductive: what is still to be stored is backed too, and the broker speaks
\* of an order only once it has taken one.
RecordsBacked ==
    /\ TypeOK
    /\ RecordedOrderExists
    /\ \A p \in Procs : \A r \in new[p] : Backed(r)
    /\ \A c \in Commands : broker[c] \in OrderStates => orders[c] > 0

\* With a broker that deduplicates by client order id, a stored REJECTED,
\* FILLED or CANCELLED is what the broker says of the order, whatever
\* crashes and lost answers came before.
OutcomeIsTrue ==
    \A r \in store :
        r.state \in {"REJECTED", "FILLED", "CANCELLED"} => broker[r.cmd] = r.state

\* With such a broker a stored FILLED or CANCELLED is the truth even when
\* callers interleave: they may race to dispatch twice, never to a false end.
Settled(r) == r.state \in {"FILLED", "CANCELLED"} => broker[r.cmd] = r.state
SettledIsTrue == \A r \in store : Settled(r)

\* The dispatches of a command are one more than those whose outcome was lost,
\* at most: nothing but a crash or a refused answer leads to a second one
\* (submit_command's guard over load_by_command).
AttemptsAccounted == \A c \in Commands : dispatched[c] <= lost[c] + 1

\* Once a snapshot past CREATED is stored, no call dispatches the command
\* again, restarts included: no blind retry (request_submission).
NoBlindRetry ==
    [][\A c \in Commands :
          dispatched'[c] # dispatched[c] => \A r \in RecordsOf(c) : r.state = "CREATED"]_vars

\* Inductive: a snapshot still to be stored is as true as a stored one.
SettledInv ==
    /\ RecordsBacked
    /\ SettledIsTrue
    /\ \A p \in Procs : \A r \in new[p] : Settled(r)

\* Inductive for a single caller: what it has read is what is stored, a
\* dispatch is only ahead of a command never recorded past CREATED, the
\* snapshot to store succeeds the one loaded, and it is on disk before the
\* loaded one is deleted.
CallerInv(p) ==
    /\ pc[p] \in {"load", "purge"} => seen[p] = RecordsOf(job[p].cmd)
    /\ pc[p] = "dispatch" =>
          /\ job[p].op = "submit"
          /\ \A r \in RecordsOf(job[p].cmd) : r.state = "CREATED"
    /\ pc[p] = "query" => job[p].op = "reconcile"
    /\ pc[p] \in {"dispatch", "query", "save", "write"} \cup Persisting =>
          /\ \A r, s \in prev[p] : r = s
          /\ \A r \in prev[p] : r.cmd = job[p].cmd
    /\ pc[p] \in {"save", "write"} \cup Persisting =>
          \E r \in new[p] :
              /\ new[p] = {r} /\ r.cmd = job[p].cmd
              /\ \A s \in prev[p] : s.events < r.events
              /\ r.state = "CREATED" => job[p].op = "create" /\ prev[p] = {}
    /\ pc[p] \in {"dispatch", "query", "save", "write", "delete"} => prev[p] \subseteq store
    /\ pc[p] = "write" => Files(new[p]) = {}
    /\ pc[p] = "delete" => \A r \in prev[p], s \in new[p] : ~SameId(r, s)
    /\ pc[p] \in Persisting => new[p] \subseteq store /\ pc[p] # "cleanup"

\* Dispatches never recorded are all lost ones, bar the one under way.
DispatchInv(c) ==
    /\ dispatched[c] <= lost[c] + 1
    /\ \/ dispatched[c] <= lost[c]
       \/ \E r \in RecordsOf(c) : r.state # "CREATED"
       \/ \E p \in Procs : UnsavedDispatch(p) /\ job[p].cmd = c

UniqueNames == \A r, s \in store : SameId(r, s) => r = s

SingleCallerInv ==
    /\ TypeOK
    /\ UniqueNames
    /\ \A p \in Procs : CallerInv(p)
    /\ \A c \in Commands : DispatchInv(c)

\* A record is replaced only by its successor: the store never loses the
\* last snapshot of a command, at any step of _persist_replacing.
RecordSurvives ==
    [][\A c \in Commands : RecordsOf(c) # {} => RecordsOf(c)' # {}]_vars

\* The history of the stored snapshot of a command never shrinks.
HistoryGrows ==
    [][\A r \in store : \E s \in store' : s.cmd = r.cmd /\ s.events >= r.events]_vars

\* Two records left by a crash between write and delete stop the command:
\* no later call dispatches it or changes what is stored (fail closed).
Torn(c) ==
    /\ Cardinality(RecordsOf(c)) > 1
    /\ \A p \in Procs : job[p].cmd = c => pc[p] \notin Persisting
TornIsFrozen ==
    [][\A c \in Commands :
          Torn(c) => RecordsOf(c)' = RecordsOf(c) /\ dispatched'[c] = dispatched[c]]_vars

\* Besides its last snapshot at most the one before it is stored for a
\* command, and the table leads from the one to the other.
Follows(s) ==
    IF s = "CREATED" THEN After[s] \cup After["SUBMISSION_REQUESTED"] ELSE After[s]
Succeeds(r, s) == s.events > r.events /\ s.state \in Follows(r.state)
AtMostPredecessor ==
    \A c \in Commands :
        /\ Cardinality(RecordsOf(c)) <= 2
        /\ \A r, s \in RecordsOf(c) : r = s \/ Succeeds(r, s) \/ Succeeds(s, r)

\* The service implements the ledger: the recorded state of a command is
\* that of its longest snapshot.
CurrentState(c) ==
    IF RecordsOf(c) = {} THEN "NONE"
    ELSE (CHOOSE r \in RecordsOf(c) :
              \A s \in RecordsOf(c) : s.events <= r.events).state
Ledger == INSTANCE SubmissionLedger
              WITH recorded <- [c \in Commands |-> CurrentState(c)]
ImplementsLedger == Ledger!LedgerSpec

\* Documented: recovery calls a command safe to submit (or finds no record
\* of it) only when the broker has never been contacted about it.
SafeMeansNoOrder ==
    \A c \in Commands :
        /\ \A p \in Procs : job[p].cmd = c => pc[p] = "idle"
        /\ \A r \in RecordsOf(c) : RestartRecovery(r.state) = "SAFE_TO_SUBMIT"
        => orders[c] = 0

\* Documented: a reconciliation that could not determine the outcome leaves
\* the lifecycle unsettled; it does not turn it into a failure.
UndeterminedStaysOpen ==
    [][\A p \in Procs : pc[p] = "query" =>
          \A r \in new'[p] : r.state = "FAILED" => orders[r.cmd] = 0]_vars

\* Documented: SUBMITTED, UNKNOWN, ACCEPTED and PARTIALLY_FILLED lifecycles
\* are queried at the broker when reconciled.
OpenOrdersAreQueried ==
    [][\A p \in Procs :
          (pc[p] = "load" /\ job[p].op = "reconcile" /\ pc'[p] = "idle"
             /\ crashes' = crashes)
          => \A r \in Matches(p) : Cardinality(Matches(p)) = 1 =>
                r.state \notin {"SUBMITTED", "UNKNOWN", "ACCEPTED", "PARTIALLY_FILLED"}]_vars
=============================================================================
