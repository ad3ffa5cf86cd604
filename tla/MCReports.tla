------------------------------- MODULE MCReports -------------------------------
(* Instances of Reports for TLC: a liveness property, hence no symmetry. *)
EXTENDS Reports
=============================================================================
