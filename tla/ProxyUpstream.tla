---------------------------- MODULE ProxyUpstream ----------------------------
(***************************************************************************)
(* proxy_upstream of server/proxy.rs: the requests a worker is forwarding  *)
(* to one upstream block at the same time.  Each is buffered, sent to the  *)
(* peer the pool picks, and retried with the next pick while peers fail,   *)
(* up to as many attempts as the upstream has servers.                     *)
(*                                                                         *)
(* The handler awaits the client's body and each peer's reply, and nothing *)
(* else; what it does between two awaits is one action.  What the awaits   *)
(* yield is nondeterministic: the client's body may break off, a peer may  *)
(* reply or fail in any way or never, and hyper drops the handler where it *)
(* is when the client goes away.                                           *)
(***************************************************************************)
EXTENDS UpstreamPool

CONSTANT Request  \* requests that may be in progress at the same time

ASSUME RequestAssumption == Request # {} /\ IsFiniteSet(Request)

VARIABLE req  \* per request: where its handler is (pc), the slot it asked
              \* last (slot), how many picks it has made (attempt)

proxyVars == <<poolVars, req>>

\* What client.request() yields: a response whose status is 2xx, 502/503/504
\* or another, or an error of the transport.
Reply == {"success", "unavailable", "other_status", "transport_error"}

\* ForwardOutcome::PeerFailed: peer_failure_status, or no response at all.
PeerFailed(m) == m \in {"unavailable", "transport_error"}

Attempts == N

Fresh(pc) == [pc |-> pc, slot |-> NoSlot, attempt |-> 0]

\* A handler has picked nothing before its body is buffered, and waits for a
\* peer only after a pick.
Handlers ==
    {Fresh("idle"), Fresh("buffering")}
    \cup [pc : {"waiting", "served"}, slot : Slot, attempt : 1..Attempts]
    \cup [pc : {"refused"}, slot : Slot \cup {NoSlot}, attempt : 0..Attempts]

ProxyTypeOK == PoolTypeOK /\ req \in [Request -> Handlers]

ProxyInit == PoolInit /\ req = [r \in Request |-> Fresh("idle")]

-----------------------------------------------------------------------------
(* The handler.                                                             *)

\* The request is dispatched to proxy_upstream, which awaits its body.
Arrive(r) ==
    /\ req[r].pc \in {"idle", "served", "refused"}
    /\ req' = [req EXCEPT ![r] = Fresh("buffering")]
    /\ UNCHANGED poolVars

\* buffer_request returns None: 502 without asking any peer.
BodyFails(r) ==
    /\ req[r].pc = "buffering"
    /\ req' = [req EXCEPT ![r].pc = "refused"]
    /\ UNCHANGED poolVars

\* The top of the retry loop: pick a peer and ask it, or answer 502 when the
\* pool has none to offer.
AskNext(r, du) ==
    /\ Pick(du)
    /\ req' = [req EXCEPT ![r] =
                 IF Picked(du, next) = NoSlot
                   THEN [@ EXCEPT !.pc = "refused"]
                   ELSE [pc |-> "waiting", slot |-> Picked(du, next),
                         attempt |-> @.attempt + 1]]

BodyBuffered(r) ==
    /\ req[r].pc = "buffering"
    /\ AskNext(r, down_until)
    /\ UNCHANGED <<now, down_until, lastLog>>

\* The peer answered with a status that is not a peer failure.
PeerOk(r, m) ==
    /\ req[r].pc = "waiting" /\ ~PeerFailed(m)
    /\ MarkUp(Peers[req[r].slot])
    /\ req' = [req EXCEPT ![r].pc = "served"]
    /\ UNCHANGED <<now, next, bypassed>>

\* Mutant of PeerRetry: the next peer is picked before the failed one is
\* marked down.
RetryBeforeMark(r, m) ==
    /\ req[r].pc = "waiting" /\ PeerFailed(m) /\ req[r].attempt < Attempts
    /\ MarkDown(Peers[req[r].slot])
    /\ AskNext(r, down_until)
    /\ UNCHANGED now

\* Mutant of PeerRetry: when no peer is left the handler goes on waiting for
\* one instead of answering.
RetryNeverGivesUp(r, m) ==
    /\ req[r].pc = "waiting" /\ PeerFailed(m) /\ req[r].attempt < Attempts
    /\ MarkDown(Peers[req[r].slot])
    /\ Pick(down_until')
    /\ req' = IF Picked(down_until', next) = NoSlot THEN req
              ELSE [req EXCEPT ![r].slot = Picked(down_until', next),
                               ![r].attempt = @ + 1]
    /\ UNCHANGED now

\* Mutant of PeerRetry: the attempts are not limited.
RetryUncounted(r, m) ==
    /\ req[r].pc = "waiting" /\ PeerFailed(m)
    /\ MarkDown(Peers[req[r].slot])
    /\ AskNext(r, down_until')
    /\ UNCHANGED now

\* The peer failed and attempts are left: mark it down and go round the loop.
PeerRetry(r, m) ==
    /\ req[r].pc = "waiting" /\ PeerFailed(m) /\ req[r].attempt < Attempts
    /\ MarkDown(Peers[req[r].slot])
    /\ AskNext(r, down_until')
    /\ UNCHANGED now

\* Mutant of PeerExhausted: the loop is left before the mark.
ExhaustedUnmarked(r, m) ==
    /\ req[r].pc = "waiting" /\ PeerFailed(m) /\ req[r].attempt = Attempts
    /\ req' = [req EXCEPT ![r].pc = "refused"]
    /\ UNCHANGED poolVars

\* The peer failed at the last attempt: mark it down and answer 502.
PeerExhausted(r, m) ==
    /\ req[r].pc = "waiting" /\ PeerFailed(m) /\ req[r].attempt = Attempts
    /\ MarkDown(Peers[req[r].slot])
    /\ req' = [req EXCEPT ![r].pc = "refused"]
    /\ UNCHANGED <<now, next, bypassed>>

\* The client's connection ends: hyper drops the handler at its await, and
\* the peer asked is marked neither up nor down.
HangUp(r) ==
    /\ req[r].pc \in {"buffering", "waiting"}
    /\ req' = [req EXCEPT ![r] = Fresh("idle")]
    /\ UNCHANGED poolVars

ProxyClock == PoolClock /\ UNCHANGED req

\* The reply of the peer, whatever it is.
Replied(r) ==
    \E m \in Reply : PeerOk(r, m) \/ PeerRetry(r, m) \/ PeerExhausted(r, m)

Handler(r) ==
    \/ Arrive(r) \/ BodyFails(r) \/ BodyBuffered(r)
    \/ Replied(r) \/ HangUp(r)

ProxyNext == (\E r \in Request : Handler(r)) \/ ProxyClock

ProxySpec == ProxyInit /\ [][ProxyNext]_proxyVars

\* The runtime polls a handler whose await is over, and the clock runs.  That
\* a peer asked replies or fails at last nothing in the code makes so: Worker
\* assumes it apart.
HandlerFairness ==
    /\ \A r \in Request : WF_proxyVars(BodyBuffered(r) \/ BodyFails(r))
    /\ WF_proxyVars(ProxyClock)

ProxySpecSilentPeers == ProxySpec /\ HandlerFairness

-----------------------------------------------------------------------------
(* Properties.                                                              *)

\* A retry goes to another address than the peer that just failed, whatever
\* the other requests did to the counter and the deadlines meanwhile.
RetryMovesOn ==
    [][\A r \in Request :
         (/\ req[r].pc = "waiting" /\ req'[r].pc = "waiting"
          /\ req'[r].attempt # req[r].attempt)
           => Peers[req'[r].slot] # Peers[req[r].slot]]_proxyVars

\* The requests that wait for the peer i, and the latest moment at which it may
\* come back: its deadline, put off by each of them that fails just before.
InFlight(i) == {r \in Request : req[r].pc = "waiting" /\ req[r].slot = i}

LatestReturn(i) ==
    down_until[i] + Cardinality(InFlight(i)) * (FAIL_TIMEOUT - 1)

\* An outage has its end in sight from its start.  The requests that were in
\* flight when a peer went down may put its return off, one after the other, as
\* they fail; but marks do not add up, and nobody else is sent to it, so that
\* the latest moment of its return never moves away (mark_down, pick).
OutageBounded ==
    [][\A i \in Slot :
         ~IsHealthy(down_until, i) => LatestReturn(i)' <= LatestReturn(i)]_proxyVars

\* The promise to the clients, in terms of the rotation.
Promise == INSTANCE Failover WITH
    Peer <- Slot, MaxTries <- Attempts, NoPeer <- NoSlot,
    rotation <- Rotation(down_until), request <- req

\* Clients see the failover they are promised: every step of a handler or of
\* the clock is one that Failover allows, or changes nothing it can see.
FailoverKept == Promise!Spec

\* A request whose body arrives is answered, or its client goes away, if the
\* peers reply: the retries come to an end although any number of other
\* requests may bring peers back into rotation meanwhile.
Answered ==
    \A r \in Request :
        req[r].pc \in {"buffering", "waiting"}
          ~> req[r].pc \in {"served", "refused", "idle"}

\* wiki/config.md: timeout errors mark the peer down and the next is tried.
\* So a handler that waits for a peer goes on at last, reply or not.
SilentPeerTimesOut ==
    \A r \in Request : req[r].pc = "waiting" ~> req[r].pc # "waiting"

=============================================================================
