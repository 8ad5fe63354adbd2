---------------------------- MODULE MCSubmission ----------------------------
(* Instances of SubmissionInfrastructure for TLC. *)
EXTENDS SubmissionInfrastructure, TLC

\* Callers are interchangeable.  Commands are not: NoJob chooses one.
CallerSymmetry == Permutations(Procs)
=============================================================================
