----------------------------- MODULE MCWorkers ------------------------------
(* Instances of Workers for TLC.                                           *)
EXTENDS Workers
=============================================================================
