-------------------------- MODULE SubmissionLedger --------------------------
(***************************************************************************)
(* What the submission service promises about the one recorded state of a  *)
(* command: it is opened once, an attempt replaces it by an outcome of the *)
(* attempt, an unsettled outcome may be replaced by one the table allows,  *)
(* and a settled one is closed for good.  Files, calls, crashes and the    *)
(* broker are not part of the promise.                                     *)
(***************************************************************************)
EXTENDS SubmissionContract

CONSTANTS Commands
VARIABLE recorded

Unrecorded == "NONE"

\* create_lifecycle: a dormant lifecycle for a command without one.
Open(c) ==
    /\ recorded[c] = Unrecorded
    /\ recorded' = [recorded EXCEPT ![c] = "CREATED"]

\* submit_command: the outcome of the first attempt that is recorded.
Attempt(c) ==
    /\ recorded[c] \in {Unrecorded, "CREATED"}
    /\ \E s \in After["SUBMISSION_REQUESTED"] :
          recorded' = [recorded EXCEPT ![c] = s]

\* reconcile_command: an unsettled state advances along the table.
Reconcile(c) ==
    /\ recorded[c] \in States \ Terminal
    /\ \E s \in After[recorded[c]] \cap Results :
          recorded' = [recorded EXCEPT ![c] = s]

LedgerInit == recorded = [c \in Commands |-> Unrecorded]
LedgerNext == \E c \in Commands : Open(c) \/ Attempt(c) \/ Reconcile(c)
LedgerSpec == LedgerInit /\ [][LedgerNext]_recorded
=============================================================================
