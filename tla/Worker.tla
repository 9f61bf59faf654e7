-------------------------------- MODULE Worker --------------------------------
(***************************************************************************)
(* One worker's upstream block: the requests being forwarded to it and its *)
(* health probe, which share the pool (WorkerHttp.upstreams).  Each worker *)
(* is a process with a pool of its own, so one worker is the whole of what *)
(* interacts through it.                                                   *)
(***************************************************************************)
EXTENDS ProxyUpstream, HealthProbe

workerVars == <<poolVars, req, probing, ticker>>

WorkerInit == ProxyInit /\ ProbeInit

WorkerHandler(r) == Handler(r) /\ UNCHANGED <<probing, ticker>>

WorkerProbe == ProbeStep /\ UNCHANGED req

WorkerClock == ProbeClock /\ UNCHANGED req

WorkerNext ==
    \/ \E r \in Request : WorkerHandler(r)
    \/ WorkerProbe
    \/ WorkerClock

WorkerSpec == WorkerInit /\ [][WorkerNext]_workerVars

\* Requests are polled and replied to; the probe may hang for ever.
WorkerFairSpec ==
    /\ WorkerSpec
    /\ \A r \in Request :
         /\ WF_workerVars(WorkerHandler(r) /\ (BodyBuffered(r) \/ BodyFails(r)))
         /\ WF_workerVars(WorkerHandler(r) /\ Replied(r))

-----------------------------------------------------------------------------
(* Properties.                                                              *)

\* Between them the handlers and the probe do to the pool only what PoolSpec
\* allows: a retry stays one step although the probe may mark peers while
\* its request waits, so what holds of PoolSpec holds in the worker.
PoolKept == PoolSpec

\* Clients see the failover they are promised while the probe judges peers too
\* and the clock is set: a request still goes, and goes on, to a peer that is
\* in rotation at that moment, and is refused only when none is or its tries
\* are used up.
SharedFailoverKept == Promise!SharedSpec

=============================================================================
