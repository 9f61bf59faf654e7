-------------------------------- MODULE MCWorker --------------------------------
(* Instances of Worker for TLC.                                                *)
EXTENDS Worker, TLC

TwoPeers == <<"a", "b">>

Requests == Permutations(Request)

=============================================================================
