----------------------------- MODULE MCScanner -----------------------------
(* Instances of ContinuousScanner for TLC. *)
EXTENDS ContinuousScanner
=============================================================================
