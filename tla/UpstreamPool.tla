----------------------------- MODULE UpstreamPool -----------------------------
(***************************************************************************)
(* UpstreamPool and Peer of server/proxy.rs: the peers of one upstream     *)
(* block, the deadline until which each is out of rotation, and the        *)
(* counter from which pick() starts its scan.                              *)
(*                                                                         *)
(* A worker is one process running a current-thread runtime, so whatever   *)
(* its tasks do to the pool between two awaits is one atomic step.  Three  *)
(* such steps exist in the callers: a pick, a mark, and a mark followed at *)
(* once by a pick (the retry loop of proxy_upstream, which does not await  *)
(* between the two).  The operations are therefore written as partial      *)
(* actions on the variables they assign, for the callers' modules to       *)
(* combine; PoolSpec lets those steps occur in any order.                  *)
(***************************************************************************)
EXTENDS Naturals, Sequences, FiniteSetsExt

CONSTANTS
    Peers,          \* addresses in configuration order; may repeat
    FAIL_TIMEOUT,   \* cooldown of a failed peer, in clock units
    UsizeModulus,   \* 2^w for the counter's width w (see README, bounds)
    MaxTime,        \* bound: the wall clock is not advanced past it
    ClockStepsBack  \* whether the wall clock may be set back

N == Len(Peers)
Slot == 1..N
NoSlot == 0
Addr == {Peers[i] : i \in Slot}

\* No address is listed twice.  The parser does not see to it.
DistinctPeers == \A i, j \in Slot : Peers[i] = Peers[j] => i = j

ASSUME PoolAssumption ==
    /\ Peers \in Seq(Range(Peers)) /\ N >= 1
    /\ FAIL_TIMEOUT \in Nat \ {0}
    /\ UsizeModulus \in Nat \ {0}
    /\ MaxTime \in Nat
    /\ ClockStepsBack \in BOOLEAN

VARIABLES
    now,         \* the wall clock, as now_ms() reads it
    down_until,  \* per slot: Peer.down_until_ms, 0 if never down
    next,        \* UpstreamPool.next
    lastLog,     \* per slot: the last transition message logged
    bypassed     \* per slot: consecutive picks that found it healthy and
                 \* returned another peer (history, read by no action)

poolVars == <<now, down_until, next, lastLog, bypassed>>

PoolTypeOK ==
    /\ now \in Nat
    /\ down_until \in [Slot -> Nat]
    /\ next \in 0..(UsizeModulus - 1)
    /\ lastLog \in [Slot -> {"none", "down", "up"}]
    /\ bypassed \in [Slot -> Nat]

PoolInit ==
    /\ now = 0
    /\ down_until = [i \in Slot |-> 0]
    /\ next = 0
    /\ lastLog = [i \in Slot |-> "none"]
    /\ bypassed = [i \in Slot |-> 0]

-----------------------------------------------------------------------------
(* Operations of the pool.  They take the deadlines du as an argument so    *)
(* that a pick can follow a mark within one step.                           *)

IsHealthy(du, i) == du[i] = 0 \/ now >= du[i]

Rotation(du) == {i \in Slot : IsHealthy(du, i)}

\* peers.iter().find(|p| p.addr == addr): the first slot with the address.
Entry(a) ==
    CHOOSE i \in Slot : Peers[i] = a /\ \A j \in Slot : Peers[j] = a => i <= j

\* The slot pick() looks at with counter value s at offset off.
SlotAt(s, off) == (((s + off) % UsizeModulus) % N) + 1

\* Mutant of Picked: the scan starts one place late.
PickedLate(du, s) ==
    LET hits == {off \in 1..(N - 1) : IsHealthy(du, SlotAt(s, off))}
    IN  IF hits = {} THEN NoSlot ELSE SlotAt(s, Min(hits))

\* The slot pick() returns: the first healthy one in scan order.
Picked(du, s) ==
    LET hits == {off \in 0..(N - 1) : IsHealthy(du, SlotAt(s, off))}
    IN  IF hits = {} THEN NoSlot ELSE SlotAt(s, Min(hits))

\* Mutant of Pick: the counter is loaded, not fetch_add-ed.
PickNoAdvance(du) ==
    /\ next' = next
    /\ bypassed' = [i \in Slot |->
                      IF i = Picked(du, next) \/ ~IsHealthy(du, i)
                        THEN 0 ELSE bypassed[i] + 1]

\* UpstreamPool::pick on the deadlines du.
Pick(du) ==
    /\ next' = (next + 1) % UsizeModulus
    /\ bypassed' = [i \in Slot |->
                      IF i = Picked(du, next) \/ ~IsHealthy(du, i)
                        THEN 0 ELSE bypassed[i] + 1]

\* Mutant of MarkDown: the cooldown is added to what is left of the last one.
MarkDownStacks(a) ==
    /\ down_until' = [down_until EXCEPT
         ![Entry(a)] = Max({now, down_until[Entry(a)]}) + FAIL_TIMEOUT]
    /\ lastLog' = IF IsHealthy(down_until, Entry(a))
                    THEN [lastLog EXCEPT ![Entry(a)] = "down"] ELSE lastLog

\* Mutant of MarkDown: was_up is read after the store.
MarkDownLateRead(a) ==
    /\ down_until' = [down_until EXCEPT ![Entry(a)] = now + FAIL_TIMEOUT]
    /\ lastLog' = IF IsHealthy(down_until', Entry(a))
                    THEN [lastLog EXCEPT ![Entry(a)] = "down"] ELSE lastLog

\* UpstreamPool::mark_down: a warning only if the peer was healthy.
MarkDown(a) ==
    /\ down_until' = [down_until EXCEPT ![Entry(a)] = now + FAIL_TIMEOUT]
    /\ lastLog' = IF IsHealthy(down_until, Entry(a))
                    THEN [lastLog EXCEPT ![Entry(a)] = "down"] ELSE lastLog

\* UpstreamPool::mark_up: an info message only if the peer was not healthy.
MarkUp(a) ==
    /\ down_until' = [down_until EXCEPT ![Entry(a)] = 0]
    /\ lastLog' = IF IsHealthy(down_until, Entry(a))
                    THEN lastLog ELSE [lastLog EXCEPT ![Entry(a)] = "up"]

-----------------------------------------------------------------------------
(* The steps in which the callers use them.                                 *)

PoolPick == Pick(down_until) /\ UNCHANGED <<now, down_until, lastLog>>

PoolMarkUp(a) == MarkUp(a) /\ UNCHANGED <<now, next, bypassed>>

PoolMarkDown(a) == MarkDown(a) /\ UNCHANGED <<now, next, bypassed>>

\* mark_down of the failed peer, then the pick of the next attempt.
PoolRetry(a) == MarkDown(a) /\ Pick(down_until') /\ UNCHANGED now

\* SystemTime::now() moves on, or is set back by whoever sets the clock.
AdvanceClock == now < MaxTime /\ now' = now + 1

SetClockBack == ClockStepsBack /\ now' \in 0..(now - 1)

PoolClock ==
    /\ AdvanceClock \/ SetClockBack
    /\ UNCHANGED <<down_until, next, lastLog, bypassed>>

PoolNext ==
    \/ PoolPick
    \/ \E a \in Addr : PoolMarkUp(a) \/ PoolMarkDown(a) \/ PoolRetry(a)
    \/ PoolClock

PoolSpec == PoolInit /\ [][PoolNext]_poolVars

-----------------------------------------------------------------------------
(* Properties.                                                              *)

\* Bounded waiting of the round robin: a peer that stays healthy is returned
\* by at least one of any N consecutive picks, whatever happens to the other
\* peers meanwhile and although skipping them does not move the counter.
BoundedBypass == \A i \in Slot : bypassed[i] <= N - 1

\* No silent outage: the last message logged about a peer that pick() skips
\* is the warning that it went down, although mark_down warns only when it
\* finds the peer healthy and an expiry logs nothing.
QuarantineIsLogged ==
    \A i \in Slot : ~IsHealthy(down_until, i) => lastLog[i] = "down"

\* pick() returns None only when every peer is down: if some peer is healthy
\* when the counter advances, some healthy peer is the one returned.
PickServesSomeone ==
    [][(next' # next /\ Rotation(down_until') # {})
         => \E i \in Rotation(down_until') : bypassed'[i] = 0]_poolVars

=============================================================================
