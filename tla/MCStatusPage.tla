---------------------------- MODULE MCStatusPage ----------------------------
(* Instances of StatusPage for TLC.                                        *)
EXTENDS StatusPage
=============================================================================
