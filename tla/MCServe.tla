------------------------------- MODULE MCServe --------------------------------
(* Instances of Serve for TLC, on the sites of MCHttpServer.                  *)
EXTENDS Serve, MCHttpServer

\* One server with a log and a certificate that listens with and without TLS.
OneServer == <<[log |-> TRUE, tls |-> TRUE, listeners |-> <<TRUE, FALSE>>]>>

=============================================================================
