---------------------------- MODULE MCProxyUpstream ----------------------------
(* Instances of ProxyUpstream for TLC.                                        *)
EXTENDS ProxyUpstream, TLC

ThreePeers == <<"a", "b", "c">>
TwoPeers == <<"a", "b">>

Requests == Permutations(Request)

=============================================================================
