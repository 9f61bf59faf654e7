------------------------------ MODULE HealthProbe ------------------------------
(***************************************************************************)
(* probe_loop of server/health_probe.rs: the task that probes the peers of *)
(* one upstream block, one after the other, at every tick of its interval, *)
(* and marks them in the pool that the requests use.                       *)
(*                                                                         *)
(* The loop awaits the ticker and the reply to each probe; a mark and the  *)
(* sending of the next probe happen in one step.  The ticker runs on the   *)
(* monotonic clock, the pool's deadlines on the wall clock, so setting the *)
(* wall clock back does not touch it.                                      *)
(***************************************************************************)
EXTENDS UpstreamPool

CONSTANTS
    Interval,   \* health_check interval, in clock units
    RoundTime,  \* how long a round of probes may take, if rounds end in time
    RoundsEnd   \* whether they do; if not a probe may be slow, or hang

ASSUME ProbeAssumption ==
    /\ Interval \in Nat \ {0}
    /\ RoundTime \in 0..Interval
    /\ RoundsEnd \in BOOLEAN

VARIABLES
    probing,  \* the slot being probed, NoSlot while the loop awaits the tick
    ticker    \* clock units left to the next tick

probeVars == <<poolVars, probing, ticker>>

\* What client.request() yields for the probe's GET.
ProbeReply == {"success", "other_status", "transport_error"}

ProbeTypeOK ==
    /\ PoolTypeOK
    /\ probing \in Slot \cup {NoSlot}
    /\ ticker \in 0..Interval

\* tokio's interval ticks at once the first time.
ProbeInit ==
    /\ PoolInit
    /\ probing = NoSlot /\ ticker = 0

-----------------------------------------------------------------------------

\* Mutant of NextAddr: the loop ends the round one address early.
NextAddrShort == probing' = IF probing + 1 < N THEN probing + 1 ELSE NoSlot

\* Mutant of NextAddr: the round runs one address too far.
NextAddrPastEnd == probing' = IF probing <= N THEN probing + 1 ELSE NoSlot

\* The loop goes on to the next address, or to the ticker after the last.
NextAddr == probing' = IF probing < N THEN probing + 1 ELSE NoSlot

\* ticker.tick(): with MissedTickBehavior::Delay the next tick is due one
\* interval after this one, however late this one is.
Tick ==
    /\ probing = NoSlot /\ ticker = 0
    /\ probing' = 1 /\ ticker' = Interval
    /\ UNCHANGED poolVars

ProbeOk(m) ==
    /\ probing # NoSlot /\ m = "success"
    /\ MarkUp(Peers[probing])
    /\ NextAddr
    /\ UNCHANGED <<now, next, bypassed, ticker>>

\* Mutant of ProbeFailed: a peer already down is left alone, so that its
\* deadline is not moved.
ProbeFailedOnce(m) ==
    /\ probing # NoSlot /\ m # "success"
    /\ IF IsHealthy(down_until, Entry(Peers[probing]))
         THEN MarkDown(Peers[probing]) ELSE UNCHANGED <<down_until, lastLog>>
    /\ NextAddr
    /\ UNCHANGED <<now, next, bypassed, ticker>>

\* Any other status, or no response: a stricter test than peer_failure_status.
ProbeFailed(m) ==
    /\ probing # NoSlot /\ m # "success"
    /\ MarkDown(Peers[probing])
    /\ NextAddr
    /\ UNCHANGED <<now, next, bypassed, ticker>>

\* The time since the last tick, while less than an interval has passed.
Elapsed == Interval - ticker

\* Both clocks advance, or the wall clock alone is set back.  If rounds end in
\* time no more of it passes in one, and none when a tick is due.
ProbeClock ==
    /\ RoundsEnd => IF probing = NoSlot THEN ticker > 0 ELSE Elapsed < RoundTime
    /\ \/ /\ AdvanceClock
          /\ ticker' = IF ticker > 0 THEN ticker - 1 ELSE 0
       \/ SetClockBack /\ UNCHANGED ticker
    /\ UNCHANGED <<down_until, next, lastLog, bypassed, probing>>

ProbeStep == Tick \/ \E m \in ProbeReply : ProbeOk(m) \/ ProbeFailed(m)

\* Meanwhile requests pick peers, and mark them by what became of theirs, of
\* those too that were sent long before (which ones is for Worker to say).
Meanwhile ==
    /\ \/ PoolPick
       \/ \E a \in Addr : PoolMarkUp(a) \/ PoolMarkDown(a) \/ PoolRetry(a)
    /\ UNCHANGED <<probing, ticker>>

ProbeNext == ProbeStep \/ Meanwhile \/ ProbeClock

ProbeSpec == ProbeInit /\ [][ProbeNext]_probeVars

\* The runtime polls the loop when its await is over, peers reply to probes,
\* and the clock runs.
ProbeFairSpec ==
    /\ ProbeSpec
    /\ WF_probeVars(ProbeStep)
    /\ WF_probeVars(ProbeClock)

-----------------------------------------------------------------------------
(* Properties.                                                              *)

\* Where an upstream is probed no cooldown runs out: whoever marked a peer
\* down, a request or the loop, and whenever, a probe has judged it again by
\* then.  So a peer comes back into rotation by a success alone, of a probe or
\* of a request that was still in flight to it, and never for lack of news
\* (probe_loop, Peer::is_healthy).  It takes an interval and a round of probes
\* that are together shorter than FAIL_TIMEOUT.
OnlySuccessReturns ==
    \A i \in Slot : down_until[i] # 0 => ~IsHealthy(down_until, i)

\* No peer is forgotten: whatever the others reply, each is probed again
\* within an interval, so long as the clock has that much left to run.
EveryPeerProbed ==
    \A i \in Slot : (now + Interval <= MaxTime) ~> (probing = i)

=============================================================================
