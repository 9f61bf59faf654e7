-------------------------------- MODULE Serve ---------------------------------
(***************************************************************************)
(* A worker from its start to its end: run() of server/mod.rs with         *)
(* stream::serve and listen::bind_reuseport, the loops that accept         *)
(* connections, the relay of a stream, and HttpServer on the connections   *)
(* of HTTP clients.  All of them share one thread and the descriptors the  *)
(* process may have.                                                       *)
(*                                                                         *)
(* Start-up has no await that suspends: the kernel completes connections   *)
(* to the listeners that are bound already, but none is accepted before    *)
(* all is done, and all are reset if a later step fails.                   *)
(***************************************************************************)
EXTENDS HttpServer, FiniteSets

CONSTANTS
    StreamClient,  \* clients of stream servers; those of HTTP are Request
    Streams,       \* number of stream servers
    Servers,       \* the HTTP servers' access log, TLS files and listeners
    MaxFds         \* descriptors left for connections

ASSUME ServeAssumption ==
    /\ Request \cap StreamClient = {}
    /\ Streams \in Nat
    /\ Servers \in Seq([log : BOOLEAN, tls : BOOLEAN, listeners : Seq(BOOLEAN)])
    /\ \A i \in 1..Len(Servers) : \A j \in 1..Len(Servers[i].listeners) :
         Servers[i].listeners[j] => Servers[i].tls  \* Config: LoadedCanRun
    /\ Streams > 0 \/ \E i \in 1..Len(Servers) : Servers[i].listeners # <<>>  \* the same
    /\ MaxFds \in Nat

VARIABLES
    step,   \* start-up: the step that comes next, or how run() ended
    conn,   \* per client: its connection, and the step that bound its listener
    relay   \* per client of a stream: the task that relays it

serveVars == <<step, conn, relay>>
allVars == <<serveVars, httpVars>>

Client == Request \cup StreamClient

\* What run() does at start, in this order: the listeners of the streams,
\* then for each server its log, its certificate and key, its listeners.
Bind(kind) == [do |-> "bind", kind |-> kind]
ServerSteps(s) ==
    (IF s.log THEN <<[do |-> "open_log", kind |-> "none"]>> ELSE <<>>)
      \o (IF s.tls THEN <<[do |-> "load_tls", kind |-> "none"]>> ELSE <<>>)
      \o [j \in 1..Len(s.listeners) |-> Bind(IF s.listeners[j] THEN "https" ELSE "http")]

\* The same with the first n servers, for each n.
StartUpOf ==
    LET steps[n \in 0..Len(Servers)] ==
          IF n = 0 THEN [i \in 1..Streams |-> Bind("stream")]
          ELSE steps[n - 1] \o ServerSteps(Servers[n])
    IN steps

StartUp == StartUpOf[Len(Servers)]

Listener == {i \in 1..Len(StartUp) : StartUp[i].do = "bind"}

Serving == Len(StartUp) + 1
Failed == Len(StartUp) + 2
Killed == Len(StartUp) + 3

NoConn == [state |-> "none", listener |-> 0]

ServeTypeOK ==
    /\ step \in 1..Killed
    /\ conn \in [Client ->
         [state : {"none", "queued", "handshake", "open", "closed", "reset"},
          listener : Listener \cup {0}]]
    /\ relay \in [StreamClient -> {"none", "accepted", "connecting", "relaying",
                                   "client_done", "peer_done"}]

ServeInit ==
    /\ step = 1
    /\ conn = [c \in Client |-> NoConn]
    /\ relay = [c \in StreamClient |-> "none"]
    /\ HttpInit

-----------------------------------------------------------------------------
(* Descriptors.                                                             *)

Accepted(c) == conn[c].state \in {"handshake", "open"}

\* The connection to the peer of a relay or of a CONNECT.
HasPeer(c) ==
    IF c \in StreamClient THEN relay[c] \notin {"none", "accepted"}
    ELSE tunnel[c] \notin {"none", "closed"} \/ req[c].pc = "connecting"

Fds == Cardinality({c \in Client : Accepted(c)}) + Cardinality({c \in Client : HasPeer(c)})

-----------------------------------------------------------------------------
(* Start and end of the worker.                                             *)

\* All that the process had is gone; connections are reset by the kernel.
Dies(how) ==
    /\ step' = how
    /\ conn' = [c \in Client |-> IF Accepted(c) \/ conn[c].state = "queued"
                                   THEN [conn[c] EXCEPT !.state = "reset"] ELSE conn[c]]
    /\ relay' = [c \in StreamClient |-> "none"]
    /\ req' = [r \in Request |-> IF req[r].pc = "idle" THEN req[r]
                                  ELSE [req[r] EXCEPT !.pc = "gone"]]
    /\ tunnel' = [r \in Request |-> IF tunnel[r] = "none" THEN "none" ELSE "closed"]
    /\ UNCHANGED <<answer, asked>>

\* Mutant of StepDone: there is no last step.
StepDoneAlways ==
    /\ step' = step + 1
    /\ UNCHANGED <<conn, relay, httpVars>>

\* A step succeeds.  The check that something was bound at all (n == 0) never
\* fails on a configuration that was loaded (Config: LoadedCanRun).
StepDone ==
    /\ step < Serving
    /\ step' = step + 1
    /\ UNCHANGED <<conn, relay, httpVars>>

\* An address in use, a log that cannot be opened, a missing certificate.
StepFails == step < Serving /\ Dies(Failed)

\* SIGKILL by the master.
Kill == step <= Serving /\ Dies(Killed)

-----------------------------------------------------------------------------
(* Connections.                                                             *)

KindOf(c) == StartUp[conn[c].listener].kind

\* The kernel completes a connection to a listener that is bound (external).
Connect(c, l) ==
    /\ conn[c].state = "none"
    /\ l < step /\ step <= Serving
    /\ (StartUp[l].kind = "stream") = (c \in StreamClient)
    /\ conn' = [conn EXCEPT ![c] = [state |-> "queued", listener |-> l]]
    /\ UNCHANGED <<step, relay, httpVars>>

\* The loop of a listener accepts the connection and spawns its task.  With
\* no descriptor left accept() fails, and is called again.
Accept(c) ==
    /\ conn[c].state = "queued" /\ step = Serving
    /\ Fds < MaxFds
    /\ conn' = [conn EXCEPT ![c].state = IF KindOf(c) = "https" THEN "handshake" ELSE "open"]
    /\ relay' = IF c \in StreamClient THEN [relay EXCEPT ![c] = "accepted"] ELSE relay
    /\ UNCHANGED <<step, httpVars>>

\* The TLS handshake of a client; if it fails the connection is dropped.
Handshake(r) ==
    /\ conn[r].state = "handshake"
    /\ \E s \in {"open", "closed"} : conn' = [conn EXCEPT ![r].state = s]
    /\ UNCHANGED <<step, relay, httpVars>>

\* A client that has sent no request goes away.
LeaveIdle(r) ==
    /\ Accepted(r) /\ req[r].pc = "idle"
    /\ conn' = [conn EXCEPT ![r].state = "closed"]
    /\ UNCHANGED <<step, relay, httpVars>>

\* hyper closes the connection when the client is gone, or leaves it to the
\* tunnel's task, which closes it when it ends.
Over(r) ==
    \/ req'[r].pc = "gone" /\ tunnel'[r] \in {"none", "upgrading", "closed"}
    \/ tunnel[r] # "none" /\ tunnel'[r] = "closed"

CloseIfOver(r) ==
    /\ conn' = IF Over(r) THEN [conn EXCEPT ![r].state = "closed"] ELSE conn
    /\ UNCHANGED <<step, relay>>

\* HttpServer on a connection that is open.
HttpArrive(r) ==
    /\ conn[r].state = "open" /\ tunnel[r] = "none"
    /\ Arrive(r) /\ CloseIfOver(r)

\* Mutant of HttpResume: descriptors are not counted.
HttpResumeUncounted(r) == Resume(r) /\ CloseIfOver(r)

\* The connect of a CONNECT takes a descriptor, or fails at once.
HttpResume(r) ==
    /\ Resume(r) /\ CloseIfOver(r)
    /\ req'[r].pc = "connecting" => Fds < MaxFds

HttpDeliver(r) == Deliver(r) /\ CloseIfOver(r)

HttpHangUp(r) == HangUp(r) /\ CloseIfOver(r)

HttpTunnel(r) == Tunnel(r) /\ CloseIfOver(r)

Http(r) ==
    HttpArrive(r) \/ HttpResume(r) \/ HttpDeliver(r) \/ HttpHangUp(r) \/ HttpTunnel(r)

-----------------------------------------------------------------------------
(* relay_tcp.                                                               *)

\* Mutant of Drop: the connection to the peer is kept.
DropClientOnly(c) ==
    /\ UNCHANGED relay
    /\ conn' = [conn EXCEPT ![c].state = "closed"]

\* The task ends, and drops both connections.
Drop(c) ==
    /\ relay' = [relay EXCEPT ![c] = "none"]
    /\ conn' = [conn EXCEPT ![c].state = "closed"]

\* Mutant of RelayConnect: it waits for a descriptor.
RelayConnectWaits(c) ==
    /\ relay[c] = "accepted"
    /\ Fds < MaxFds
    /\ relay' = [relay EXCEPT ![c] = "connecting"] /\ UNCHANGED conn
    /\ UNCHANGED <<step, httpVars>>

\* TcpStream::connect takes a descriptor, or fails at once.
RelayConnect(c) ==
    /\ relay[c] = "accepted"
    /\ IF Fds < MaxFds THEN relay' = [relay EXCEPT ![c] = "connecting"] /\ UNCHANGED conn
                       ELSE Drop(c)
    /\ UNCHANGED <<step, httpVars>>

RelayConnected(c) ==
    /\ relay[c] = "connecting"
    /\ (relay' = [relay EXCEPT ![c] = "relaying"] /\ UNCHANGED conn) \/ Drop(c)
    /\ UNCHANGED <<step, httpVars>>

\* copy_bidirectional, as in a tunnel: it passes the end of one side on, and
\* ends with both, or with an error of either.
RelayClientEnds(c) ==
    /\ relay[c] \in {"relaying", "peer_done"}
    /\ IF relay[c] = "peer_done" THEN Drop(c)
       ELSE relay' = [relay EXCEPT ![c] = "client_done"] /\ UNCHANGED conn
    /\ UNCHANGED <<step, httpVars>>

RelayPeerEnds(c) ==
    /\ relay[c] \in {"relaying", "client_done"}
    /\ IF relay[c] = "client_done" THEN Drop(c)
       ELSE relay' = [relay EXCEPT ![c] = "peer_done"] /\ UNCHANGED conn
    /\ UNCHANGED <<step, httpVars>>

RelayBreaks(c) ==
    /\ relay[c] \in {"relaying", "client_done", "peer_done"}
    /\ Drop(c)
    /\ UNCHANGED <<step, httpVars>>

Relay(c) ==
    \/ RelayConnect(c) \/ RelayConnected(c) \/ RelayBreaks(c)
    \/ RelayClientEnds(c) \/ RelayPeerEnds(c)

ServeNext ==
    \/ StepDone \/ StepFails \/ Kill
    \/ \E c \in Client : Accept(c) \/ \E l \in Listener : Connect(c, l)
    \/ \E r \in Request : Handshake(r) \/ LeaveIdle(r) \/ Http(r)
    \/ \E c \in StreamClient : Relay(c)

ServeSpec == ServeInit /\ [][ServeNext]_allVars

\* run() goes on until it is done or fails; the runtime polls what is ready,
\* the loops of the listeners included, which give way to the others between
\* two calls of accept(); connects end in the kernel's time.  For tunnels as
\* in HttpFairSpec, and for relays the same: a peer that is told of the end of
\* its client ends too.
ServeFairSpec ==
    /\ ServeSpec
    /\ WF_allVars(StepDone \/ StepFails)
    /\ \A c \in Client : WF_allVars(Accept(c))
    /\ \A r \in Request :
         /\ WF_allVars(UpgradeEnds(r) /\ CloseIfOver(r))
         /\ WF_allVars(req[r].pc = "gone" /\ ClientEnds(r) /\ CloseIfOver(r))
         /\ WF_allVars(tunnel[r] = "client_done" /\ PeerEnds(r) /\ CloseIfOver(r))
    /\ \A c \in StreamClient :
         /\ WF_allVars(RelayConnect(c)) /\ WF_allVars(RelayConnected(c))
         /\ WF_allVars(relay[c] = "client_done" /\ RelayPeerEnds(c))

-----------------------------------------------------------------------------
(* Properties.                                                              *)

\* No handler and no connection to a peer outlives the connection of the client
\* it is for, however that ends, but for a CONNECT whose client goes away before
\* the upgrade: its peer is kept until the task learns that the upgrade failed.
\* A worker that has not come up, or has ended, has none of either (run,
\* relay_tcp, forward_connect).
HeldForClients ==
    /\ \A r \in Request : req[r].pc \in AtAwait \cup {"answered"} => conn[r].state = "open"
    /\ \A c \in Client : HasPeer(c) =>
         Accepted(c) \/ (c \in Request /\ tunnel[c] = "upgrading" /\ req[c].pc = "gone")
    /\ step # Serving => \A c \in Client : ~Accepted(c) /\ ~HasPeer(c)

\* The promise to those who connect: who is let in has a descriptor.
WorkerStage ==
    IF step < Serving THEN "starting" ELSE IF step = Serving THEN "serving" ELSE "down"

Stage(c) ==
    CASE conn[c].state = "none" -> "out"
      [] Accepted(c) -> "in"
      [] conn[c].state = "closed" -> "left"
      [] OTHER -> conn[c].state

Promise == INSTANCE Admission WITH
    Capacity <- MaxFds, worker <- WorkerStage,
    client <- [c \in Client |-> Stage(c)], peer <- [c \in Client |-> HasPeer(c)]

\* Whatever the handlers, tunnels and relays of the clients do: a client is
\* let in, is given a peer and leaves as Admission has it, so that nobody is
\* taken from a queue but by a worker that serves, nobody in one is lost but
\* with the worker, and two descriptors are never one (run, stream::serve).
AdmissionKept == Promise!Spec

\* No client keeps its connection, or its half of a relay, for ever.
ClientsLeave ==
    /\ \A r \in Request : Accepted(r) ~> (~Accepted(r) \/ req[r].pc = "gone")
    /\ \A c \in StreamClient :
         relay[c] \in {"relaying", "peer_done"} ~> relay[c] \notin {"relaying", "peer_done"}

\* Although descriptors run out, and what is accepted needs a second one, a
\* client in the queue of a listener is accepted in the end, or reset with
\* the worker, if those that were accepted before do not stay for ever.
QueuedServed ==
    ClientsLeave =>
        \A c \in Client : conn[c].state = "queued" ~> conn[c].state # "queued"

=============================================================================
