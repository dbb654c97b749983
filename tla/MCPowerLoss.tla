---------------------------- MODULE MCPowerLoss -----------------------------
(* Instances of PowerLoss for TLC.                                         *)
EXTENDS PowerLoss

MCFileSystems == {{"replace"}, {"create", "replace"}}
=============================================================================
