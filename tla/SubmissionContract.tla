------------------------- MODULE SubmissionContract -------------------------
(***************************************************************************)
(* The constant part of the submission lifecycle: the states of a          *)
(* SubmissionLifecycle snapshot, the transition table and the two pure     *)
(* decisions taken from a state (is it settled, what may a restart do).    *)
(***************************************************************************)
EXTENDS Naturals

States ==
    {"CREATED", "SUBMISSION_REQUESTED", "SUBMITTED", "ACCEPTED", "REJECTED",
     "UNKNOWN", "PARTIALLY_FILLED", "FILLED", "CANCELLED", "FAILED"}

\* SubmissionState.is_terminal.  ACCEPTED and PARTIALLY_FILLED count as
\* settled although the table below lets them advance.
Terminal ==
    {"ACCEPTED", "REJECTED", "PARTIALLY_FILLED", "FILLED", "CANCELLED", "FAILED"}

\* What a broker answer (an AdapterResult status) can turn a snapshot into.
Results == States \ {"CREATED", "SUBMISSION_REQUESTED"}

\* The transition table of the engine: the states that may follow a state.
After ==
    [s \in States |->
        CASE s = "CREATED" -> {"SUBMISSION_REQUESTED", "FAILED", "CANCELLED"}
          [] s = "SUBMISSION_REQUESTED" ->
                {"SUBMITTED", "ACCEPTED", "REJECTED", "UNKNOWN", "FAILED"}
          [] s = "SUBMITTED" ->
                {"ACCEPTED", "REJECTED", "UNKNOWN", "PARTIALLY_FILLED",
                 "CANCELLED", "FAILED"}
          [] s = "ACCEPTED" ->
                {"PARTIALLY_FILLED", "FILLED", "REJECTED", "CANCELLED",
                 "FAILED", "UNKNOWN"}
          [] s = "PARTIALLY_FILLED" ->
                {"FILLED", "REJECTED", "CANCELLED", "UNKNOWN", "FAILED"}
          [] s = "UNKNOWN" -> Results
          [] OTHER -> {}]

\* restart_recovery over a stored state.  pre_submission is always set from
\* the state, so SUBMISSION_REQUESTED never takes the "contacted" branch.
RestartRecovery(s) ==
    IF s \in {"CREATED", "SUBMISSION_REQUESTED"} THEN "SAFE_TO_SUBMIT"
    ELSE IF s \in {"SUBMITTED", "UNKNOWN"} THEN "RECONCILE_REQUIRED"
    ELSE "NO_ACTION"
=============================================================================
