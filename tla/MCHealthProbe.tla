----------------------------- MODULE MCHealthProbe -----------------------------
(* Instances of HealthProbe for TLC.                                          *)
EXTENDS HealthProbe

ThreePeers == <<"a", "b", "c">>

=============================================================================
