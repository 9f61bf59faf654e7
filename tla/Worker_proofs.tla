----------------------------- MODULE Worker_proofs -----------------------------
(***************************************************************************)
(* Proofs about HealthProbe and Worker: where rounds of probes end in time *)
(* no cooldown runs out, so that a peer that went down comes back by a     *)
(* success alone; a worker uses the pool as PoolSpec allows, so the        *)
(* theorems about PoolSpec are theorems about a worker with any number of  *)
(* requests and peers, whether its probe is on time, late or hung; and it  *)
(* keeps the promise of Failover.                                          *)
(***************************************************************************)
EXTENDS Worker, ProxyUpstream_proofs

-----------------------------------------------------------------------------
(* The probe loop.                                                          *)

LEMMA ProbedAddress ==
  ASSUME ProbeTypeOK, NEW m \in ProbeReply, ProbeOk(m) \/ ProbeFailed(m)
  PROVE  probing \in Slot /\ Peers[probing] \in Addr
BY PoolConstants DEF ProbeOk, ProbeFailed, ProbeTypeOK, Addr

\* The loop changes the pool by marks alone.
LEMMA ProbeStepIsPoolStep ==
  ASSUME ProbeTypeOK, [ProbeNext]_probeVars
  PROVE  [PoolNext]_poolVars
<1>1. ASSUME NEW m \in ProbeReply, ProbeOk(m)
      PROVE  \E a \in Addr : PoolMarkUp(a)
  BY <1>1, ProbedAddress DEF ProbeOk, PoolMarkUp
<1>2. ASSUME NEW m \in ProbeReply, ProbeFailed(m)
      PROVE  \E a \in Addr : PoolMarkDown(a)
  BY <1>2, ProbedAddress DEF ProbeFailed, PoolMarkDown
<1>3. CASE Tick
  BY <1>3 DEF Tick
<1>4. CASE Meanwhile
  BY <1>4 DEF Meanwhile, PoolNext
<1>5. CASE ProbeClock
  BY <1>5 DEF ProbeClock, PoolClock, PoolNext
<1>6. CASE UNCHANGED probeVars
  BY <1>6 DEF probeVars, poolVars
<1> QED
  BY <1>1, <1>2, <1>3, <1>4, <1>5, <1>6 DEF ProbeNext, ProbeStep, PoolNext

LEMMA ProbeInitTyped == ProbeInit => ProbeTypeOK
BY PoolConstants, ProbeAssumption
DEF ProbeInit, ProbeTypeOK, PoolInit, PoolTypeOK

LEMMA ProbeStepTyped ==
  ASSUME ProbeTypeOK, [ProbeNext]_probeVars
  PROVE  ProbeTypeOK'
<1> DEFINE LoopTypeOK ==
             /\ probing \in Slot \cup {NoSlot}
             /\ ticker \in 0..Interval
<1>1. PoolTypeOK'
  BY ProbeStepIsPoolStep, PoolStepTyped DEF ProbeTypeOK
<1>2. LoopTypeOK'
  <2> USE PoolConstants, ProbeAssumption DEF ProbeTypeOK
  <2>1. CASE Tick
    BY <2>1 DEF Tick
  <2>2. ASSUME NEW m \in ProbeReply, ProbeOk(m) \/ ProbeFailed(m)
        PROVE  LoopTypeOK'
    BY <2>2, ProbedAddress DEF ProbeOk, ProbeFailed, NextAddr
  <2>3. CASE Meanwhile
    BY <2>3 DEF Meanwhile
  <2>4. CASE ProbeClock
    BY <2>4 DEF ProbeClock
  <2>5. CASE UNCHANGED probeVars
    BY <2>5 DEF probeVars
  <2> QED BY <2>1, <2>2, <2>3, <2>4, <2>5 DEF ProbeNext, ProbeStep
<1> QED BY <1>1, <1>2 DEF ProbeTypeOK

\* The type invariant of the probe loop.
THEOREM ProbeTypeCorrect == ProbeSpec => []ProbeTypeOK
<1>1. ProbeTypeOK /\ [ProbeNext]_probeVars => ProbeTypeOK'
  BY ProbeStepTyped
<1> QED BY <1>1, ProbeInitTyped, PTL DEF ProbeSpec

-----------------------------------------------------------------------------
(* Why an interval and a round that are together shorter than the cooldown  *)
(* are enough: a mark, whoever makes it, sets a deadline beyond the end of  *)
(* the next round, and the probe of that round comes first.                 *)

\* How long the loop may take to come to slot i: it is at slot p, or at none,
\* and t is left to the next tick.
TimeFrom(p, t, i) ==
    IF p # NoSlot /\ p <= i THEN RoundTime - (Interval - t) ELSE t + RoundTime

TimeToProbe(i) == TimeFrom(probing, ticker, i)

DeadlineOutlivesProbe ==
    \A i \in Slot : down_until[i] # 0 => down_until[i] > now + TimeToProbe(i)

\* A deadline is kept in the slot that marks and probes of its address use.
DeadlineIsProbed == \A i \in Slot : down_until[i] # 0 => Entry(Peers[i]) = i

RoundInTime == probing # NoSlot => Elapsed <= RoundTime

RenewalInv ==
    ProbeTypeOK /\ DeadlineOutlivesProbe /\ DeadlineIsProbed /\ RoundInTime

LEMMA EntryOfEntry ==
  ASSUME NEW a \in Addr
  PROVE  Entry(Peers[Entry(a)]) = Entry(a)
<1>1. \E i \in Slot : Peers[i] = a /\ \A j \in Slot : Peers[j] = a => i <= j
  <2> DEFINE S == {j \in Slot : Peers[j] = a}
  <2>1. S \subseteq Nat /\ S # {}
    BY PoolConstants DEF Addr
  <2>2. PICK i \in S : \A j \in S : i <= j
    BY <2>1, LeastElement
  <2> QED BY <2>2
<1>2. Peers[Entry(a)] = a
  BY <1>1, Zenon DEF Entry
<1> QED BY <1>2

LEMMA TimeFromTyped ==
  ASSUME NEW p \in Slot \cup {NoSlot}, NEW t \in 0..Interval, NEW i \in Slot
  PROVE  /\ TimeFrom(p, t, i) \in Int
         /\ TimeFrom(p, t, i) <= Interval + RoundTime
<1>1. CASE p # NoSlot /\ p <= i
  BY <1>1, ProbeAssumption DEF TimeFrom
<1>2. CASE ~(p # NoSlot /\ p <= i)
  BY <1>2, ProbeAssumption DEF TimeFrom
<1> QED BY <1>1, <1>2

LEMMA TimeFromNat ==
  ASSUME NEW p \in Slot \cup {NoSlot}, NEW t \in 0..Interval, NEW i \in Slot,
         p # NoSlot => Interval - t <= RoundTime
  PROVE  TimeFrom(p, t, i) \in Nat
<1>1. CASE p # NoSlot /\ p <= i
  BY <1>1, ProbeAssumption DEF TimeFrom
<1>2. CASE ~(p # NoSlot /\ p <= i)
  BY <1>2, ProbeAssumption DEF TimeFrom
<1> QED BY <1>1, <1>2

\* When a clock moves, the probe comes no later.
LEMMA TimeFromPasses ==
  ASSUME NEW p \in Slot \cup {NoSlot}, NEW i \in Slot,
         NEW t \in 0..Interval, NEW u \in 0..Interval, NEW n \in Nat, NEW m \in Nat,
         \/ m = n + 1 /\ u = t - 1
         \/ m < n /\ u = t
  PROVE  m + TimeFrom(p, u, i) <= n + TimeFrom(p, t, i)
<1>1. CASE p # NoSlot /\ p <= i
  BY <1>1, ProbeAssumption DEF TimeFrom
<1>2. CASE ~(p # NoSlot /\ p <= i)
  BY <1>2, ProbeAssumption DEF TimeFrom
<1> QED BY <1>1, <1>2

\* When the loop has done with slot p, no other slot's turn has moved.
LEMMA TimeFromNext ==
  ASSUME NEW p \in Slot, NEW t \in 0..Interval, NEW i \in Slot \ {p}
  PROVE  TimeFrom(IF p < N THEN p + 1 ELSE NoSlot, t, i) = TimeFrom(p, t, i)
BY PoolConstants DEF TimeFrom, NoSlot

LEMMA RenewalStep ==
  ASSUME RoundsEnd, Interval + RoundTime < FAIL_TIMEOUT, RenewalInv,
         [ProbeNext]_probeVars
  PROVE  RenewalInv'
<1>0. ProbeTypeOK /\ ProbeTypeOK'
  BY ProbeStepTyped DEF RenewalInv
<1> DEFINE Rest == DeadlineOutlivesProbe /\ DeadlineIsProbed /\ RoundInTime
<1> SUFFICES Rest'
  BY <1>0 DEF RenewalInv
<1>a. /\ now \in Nat /\ now' \in Nat
      /\ down_until \in [Slot -> Nat] /\ down_until' \in [Slot -> Nat]
      /\ probing \in Slot \cup {NoSlot} /\ probing' \in Slot \cup {NoSlot}
      /\ ticker \in 0..Interval /\ ticker' \in 0..Interval
      /\ N \in Nat \ {0} /\ Slot = 1..N /\ FAIL_TIMEOUT \in Nat \ {0}
      /\ Interval \in Nat \ {0} /\ RoundTime \in 0..Interval
  BY <1>0, PoolConstants, ProbeAssumption DEF ProbeTypeOK, PoolTypeOK
<1>n. /\ now \in Nat /\ now' \in Nat /\ ticker \in Nat /\ ticker' \in Nat
      /\ FAIL_TIMEOUT \in Nat /\ Interval \in Nat /\ RoundTime \in Nat
  BY <1>a
<1>b. /\ \A i \in Slot : down_until[i] # 0
                       => down_until[i] > now + TimeFrom(probing, ticker, i)
      /\ \A i \in Slot : down_until[i] # 0 => Entry(Peers[i]) = i
      /\ probing # NoSlot => Interval - ticker <= RoundTime
  BY DEF RenewalInv, DeadlineOutlivesProbe, DeadlineIsProbed, RoundInTime,
         TimeToProbe, Elapsed
<1>c. ASSUME probing' # NoSlot => Interval - ticker' <= RoundTime,
             \A i \in Slot : down_until'[i] # 0 =>
                /\ Entry(Peers[i]) = i
                /\ \/ down_until'[i] = now' + FAIL_TIMEOUT
                   \/ down_until'[i] > now' + TimeFrom(probing', ticker', i)
      PROVE  Rest'
  <2>1. ASSUME NEW i \in Slot, down_until'[i] = now' + FAIL_TIMEOUT
        PROVE  down_until'[i] > now' + TimeFrom(probing', ticker', i)
    <3>1. /\ TimeFrom(probing', ticker', i) \in Int
          /\ TimeFrom(probing', ticker', i) <= Interval + RoundTime
      BY <1>a, TimeFromTyped, Zenon
    <3>2. now' + FAIL_TIMEOUT > now' + TimeFrom(probing', ticker', i)
      BY <1>n, <3>1
    <3> QED BY <2>1, <3>2
  <2>2. DeadlineOutlivesProbe'
    BY <1>c, <2>1 DEF DeadlineOutlivesProbe, TimeToProbe
  <2>3. DeadlineIsProbed'
    <3> SUFFICES ASSUME NEW i \in Slot, down_until'[i] # 0
                 PROVE  Entry(Peers[i]) = i
      BY DEF DeadlineIsProbed
    <3> QED BY <1>c
  <2> QED BY <1>c, <2>2, <2>3 DEF RoundInTime, Elapsed
<1> HIDE DEF Rest
<1>1. ASSUME NEW j \in Slot, Entry(Peers[j]) = j, UNCHANGED <<probing, ticker, now>>,
             \/ down_until' = [down_until EXCEPT ![j] = 0]
             \/ down_until' = [down_until EXCEPT ![j] = now + FAIL_TIMEOUT]
      PROVE  Rest'
  <2>1. \A i \in Slot : \/ i = j /\ down_until'[i] \in {0, now + FAIL_TIMEOUT}
                        \/ down_until'[i] = down_until[i]
    BY <1>a, <1>1
  <2> QED BY <1>b, <1>c, <1>1, <2>1
<1>2. ASSUME UNCHANGED <<down_until, now, probing, ticker>> PROVE Rest'
  BY <1>b, <1>c, <1>2
<1>3. CASE Meanwhile
  <2>1. ASSUME NEW a \in Addr, MarkUp(a) \/ MarkDown(a), now' = now,
               UNCHANGED <<probing, ticker>>
        PROVE  Rest'
    BY <1>1, <2>1, EntryInSlot, EntryOfEntry DEF MarkUp, MarkDown
  <2> QED
    BY <1>2, <1>3, <2>1
    DEF Meanwhile, PoolPick, PoolMarkUp, PoolMarkDown, PoolRetry
<1>4. CASE Tick
  <2>1. /\ probing = NoSlot /\ ticker = 0 /\ probing' = 1 /\ ticker' = Interval
        /\ UNCHANGED <<down_until, now>>
    BY <1>4 DEF Tick, poolVars
  <2>2. \A i \in Slot : TimeFrom(probing', ticker', i) = TimeFrom(probing, ticker, i)
    BY <1>a, <2>1 DEF TimeFrom, NoSlot
  <2>3. Interval - ticker' <= RoundTime
    BY <1>a, <2>1
  <2> QED BY <1>b, <1>c, <2>1, <2>2, <2>3
<1>5. ASSUME NEW m \in ProbeReply, ProbeOk(m) \/ ProbeFailed(m) PROVE Rest'
  <2> DEFINE j == Entry(Peers[probing])
  <2>1. /\ probing \in Slot /\ j \in Slot /\ Entry(Peers[j]) = j
        /\ now' = now /\ ticker' = ticker
        /\ probing' = IF probing < N THEN probing + 1 ELSE NoSlot
        /\ \/ down_until' = [down_until EXCEPT ![j] = 0]
           \/ down_until' = [down_until EXCEPT ![j] = now + FAIL_TIMEOUT]
    BY <1>0, <1>5, ProbedAddress, EntryInSlot, EntryOfEntry
    DEF ProbeOk, ProbeFailed, MarkUp, MarkDown, NextAddr
  <2>2. j = probing \/ down_until[probing] = 0
    BY <1>b, <2>1
  <2> HIDE DEF j
  <2>3. \A i \in Slot : \/ i = j /\ down_until'[i] \in {0, now + FAIL_TIMEOUT}
                        \/ i # j /\ down_until'[i] = down_until[i]
    BY <1>a, <2>1
  <2>4. \A i \in Slot \ {probing} :
           TimeFrom(probing', ticker', i) = TimeFrom(probing, ticker, i)
    BY <1>a, <2>1, TimeFromNext
  <2>5. probing # NoSlot
    BY <1>a, <2>1 DEF NoSlot
  <2>6. ASSUME NEW i \in Slot, down_until'[i] # 0
        PROVE  /\ Entry(Peers[i]) = i
               /\ \/ down_until'[i] = now' + FAIL_TIMEOUT
                  \/ down_until'[i] > now' + TimeFrom(probing', ticker', i)
    <3>1. CASE i = j
      BY <2>1, <2>3, <2>6, <3>1
    <3>2. CASE i # j
      <4>1. i # probing /\ down_until'[i] = down_until[i]
        BY <2>2, <2>3, <2>6, <3>2
      <4> QED BY <1>b, <2>1, <2>4, <2>6, <4>1
    <3> QED BY <3>1, <3>2
  <2> QED BY <1>b, <1>c, <2>1, <2>5, <2>6
<1>6. CASE ProbeClock
  <2>1. /\ UNCHANGED <<down_until, probing>>
        /\ IF probing = NoSlot THEN ticker > 0 ELSE Interval - ticker < RoundTime
        /\ \/ now' = now + 1 /\ ticker' = ticker - 1
           \/ now' < now /\ ticker' = ticker
    <3>1. /\ UNCHANGED <<down_until, probing>>
          /\ IF probing = NoSlot THEN ticker > 0 ELSE Interval - ticker < RoundTime
          /\ \/ now' = now + 1 /\ ticker' = IF ticker > 0 THEN ticker - 1 ELSE 0
             \/ now' \in 0..(now - 1) /\ ticker' = ticker
      BY <1>6 DEF ProbeClock, AdvanceClock, SetClockBack, Elapsed
    <3>2. ticker > 0
      BY <1>a, <3>1
    <3> QED BY <1>a, <3>1, <3>2
  <2>2. probing' # NoSlot => Interval - ticker' <= RoundTime
    <3>1. probing # NoSlot => Interval - ticker < RoundTime
      BY <2>1
    <3>2. ticker' = ticker - 1 \/ ticker' = ticker
      BY <2>1
    <3>3. ASSUME NEW I \in Int, NEW R \in Int, NEW t \in Int, NEW u \in Int,
                 I - t < R, u = t - 1 \/ u = t
          PROVE  I - u <= R
      BY <3>3
    <3>4. Interval \in Int /\ RoundTime \in Int /\ ticker \in Int /\ ticker' \in Int
      BY <1>n
    <3> QED BY <2>1, <3>1, <3>2, <3>3, <3>4, Zenon
  <2>3. ASSUME NEW i \in Slot, down_until'[i] # 0
        PROVE  down_until'[i] > now' + TimeFrom(probing', ticker', i)
    <3>1. /\ TimeFrom(probing, ticker, i) \in Int
          /\ TimeFrom(probing', ticker', i) \in Int
      BY <1>a, TimeFromTyped, Zenon
    <3>2. now' + TimeFrom(probing', ticker', i) <= now + TimeFrom(probing, ticker, i)
      BY <1>a, <2>1, TimeFromPasses
    <3>3. /\ down_until[i] > now + TimeFrom(probing, ticker, i)
          /\ down_until'[i] = down_until[i] /\ down_until[i] \in Nat
      BY <1>a, <1>b, <2>1, <2>3
    <3> QED BY <1>n, <3>1, <3>2, <3>3
  <2> QED BY <1>b, <1>c, <2>1, <2>2, <2>3
<1>7. CASE UNCHANGED probeVars
  BY <1>2, <1>7 DEF probeVars, poolVars
<1> QED
  BY <1>3, <1>4, <1>5, <1>6, <1>7 DEF ProbeNext, ProbeStep

LEMMA RenewalInitially == ProbeInit => RenewalInv
BY ProbeInitTyped, ProbeAssumption
DEF ProbeInit, RenewalInv, ProbeTypeOK, PoolInit, DeadlineOutlivesProbe,
    DeadlineIsProbed, RoundInTime

LEMMA RenewalIsEnough ==
  ASSUME RenewalInv
  PROVE  OnlySuccessReturns
<1>1. ASSUME NEW i \in Slot PROVE TimeToProbe(i) \in Nat
  BY TimeFromNat
  DEF RenewalInv, ProbeTypeOK, RoundInTime, TimeToProbe, Elapsed
<1> QED
  BY <1>1, PoolConstants
  DEF RenewalInv, DeadlineOutlivesProbe, ProbeTypeOK, PoolTypeOK,
      OnlySuccessReturns, IsHealthy

\* OnlySuccessReturns for every list of peers, also one that repeats an
\* address, and however the wall clock is set: an interval and a round that are
\* together shorter than the cooldown, whatever the requests mark meanwhile.
THEOREM OnlySuccessBringsBack ==
  ASSUME RoundsEnd, Interval + RoundTime < FAIL_TIMEOUT
  PROVE  ProbeSpec => []OnlySuccessReturns
<1>1. RenewalInv /\ [ProbeNext]_probeVars => RenewalInv'
  BY RenewalStep
<1>2. RenewalInv => OnlySuccessReturns
  BY RenewalIsEnough
<1> QED BY <1>1, <1>2, RenewalInitially, PTL DEF ProbeSpec

-----------------------------------------------------------------------------
(* The worker.                                                              *)

WorkerInv == ProxyTypeOK /\ ProbeTypeOK

\* A step of the worker is a step of its requests, or one of its probe.
LEMMA WorkerStep ==
  ASSUME [WorkerNext]_workerVars
  PROVE  \/ [ProxyNext]_proxyVars /\ UNCHANGED <<probing, ticker>>
         \/ [ProbeNext]_probeVars /\ UNCHANGED req
<1>1. ASSUME NEW r \in Request, WorkerHandler(r)
      PROVE  ProxyNext /\ UNCHANGED <<probing, ticker>>
  BY <1>1 DEF WorkerHandler, ProxyNext
<1>2. CASE WorkerProbe
  BY <1>2 DEF WorkerProbe, ProbeNext
<1>3. CASE WorkerClock
  BY <1>3 DEF WorkerClock, ProbeNext
<1>4. CASE UNCHANGED workerVars
  BY <1>4 DEF workerVars, proxyVars, probeVars
<1> QED BY <1>1, <1>2, <1>3, <1>4 DEF WorkerNext

\* Both halves keep their types: each leaves the other's variables alone and
\* the pool well typed.
LEMMA WorkerStepTyped ==
  ASSUME WorkerInv, [WorkerNext]_workerVars
  PROVE  WorkerInv' /\ [PoolNext]_poolVars
<1>1. CASE [ProxyNext]_proxyVars /\ UNCHANGED <<probing, ticker>>
  <2>1. ProxyTypeOK' /\ [PoolNext]_poolVars
    BY <1>1, ProxyStepTyped, ProxyStepIsPoolStep DEF WorkerInv
  <2>2. ProbeTypeOK'
    BY <1>1, <2>1 DEF WorkerInv, ProxyTypeOK, ProbeTypeOK
  <2> QED BY <2>1, <2>2 DEF WorkerInv
<1>2. CASE [ProbeNext]_probeVars /\ UNCHANGED req
  <2>1. ProbeTypeOK' /\ [PoolNext]_poolVars
    BY <1>2, ProbeStepTyped, ProbeStepIsPoolStep DEF WorkerInv
  <2>2. ProxyTypeOK'
    BY <1>2, <2>1 DEF WorkerInv, ProxyTypeOK, ProbeTypeOK
  <2> QED BY <2>1, <2>2 DEF WorkerInv
<1> QED BY <1>1, <1>2, WorkerStep

\* The type invariants of the requests and of the probe, together.
THEOREM WorkerTypeCorrect == WorkerSpec => []WorkerInv
<1>1. WorkerInit => WorkerInv
  BY ProxyInitTyped, ProbeInitTyped DEF WorkerInit, WorkerInv
<1>2. WorkerInv /\ [WorkerNext]_workerVars => WorkerInv'
  BY WorkerStepTyped
<1> QED BY <1>1, <1>2, PTL DEF WorkerSpec

\* PoolKept for every number of peers and requests: the requests and the
\* probe together use the pool as PoolSpec allows.
THEOREM WorkerUsesPool == WorkerSpec => PoolKept
<1>1. WorkerInit => PoolInit
  BY DEF WorkerInit, ProxyInit
<1>2. WorkerInv /\ [WorkerNext]_workerVars => [PoolNext]_poolVars
  BY WorkerStepTyped
<1> QED
  BY <1>1, <1>2, WorkerTypeCorrect, PTL DEF WorkerSpec, PoolKept, PoolSpec

\* For the probe a worker's requests are what goes on meanwhile.
LEMMA WorkerStepOfProbe ==
  ASSUME WorkerInv, [WorkerNext]_workerVars
  PROVE  [ProbeNext]_probeVars
<1>1. CASE WorkerProbe \/ WorkerClock
  BY <1>1 DEF WorkerProbe, WorkerClock, ProbeNext
<1>2. ASSUME NEW r \in Request, WorkerHandler(r) PROVE [ProbeNext]_probeVars
  <2>1. [PoolNext]_poolVars /\ now' = now /\ UNCHANGED <<probing, ticker>>
    BY <1>2, ProxyStepIsPoolStep
    DEF WorkerHandler, WorkerInv, ProxyNext, Handler, Replied, Arrive, BodyFails,
        BodyBuffered, HangUp, PeerOk, PeerRetry, PeerExhausted, poolVars
  <2>2. CASE PoolClock
    BY <2>1, <2>2 DEF PoolClock, probeVars, poolVars
  <2> QED BY <2>1, <2>2 DEF PoolNext, Meanwhile, ProbeNext, probeVars
<1>3. CASE UNCHANGED workerVars
  BY <1>3 DEF workerVars, probeVars
<1> QED BY <1>1, <1>2, <1>3 DEF WorkerNext

\* And so in a worker: a peer that failed comes back by a success, of a probe
\* or of one of the worker's own requests, and never because its cooldown ran out.
THEOREM WorkerBringsBackOnSuccess ==
  ASSUME RoundsEnd, Interval + RoundTime < FAIL_TIMEOUT
  PROVE  WorkerSpec => []OnlySuccessReturns
<1>1. WorkerInit => ProbeInit
  BY DEF WorkerInit
<1>2. WorkerInv /\ [WorkerNext]_workerVars => [ProbeNext]_probeVars
  BY WorkerStepOfProbe
<1>3. WorkerSpec => ProbeSpec
  BY <1>1, <1>2, WorkerTypeCorrect, PTL DEF WorkerSpec, ProbeSpec
<1> QED BY <1>3, OnlySuccessBringsBack

\* A step of the worker is one that is promised, or lets peers in or out.
LEMMA WorkerStepPromised ==
  ASSUME DistinctPeers, UsizeModulus % N = 0, WorkerInv, [WorkerNext]_workerVars
  PROVE  [Promise!Next \/ Promise!Expel]_<<Rotation(down_until), req>>
<1> DEFINE rot == Rotation(down_until)
<1>1. ASSUME NEW r \in Request, WorkerHandler(r) PROVE Promise!Next
  BY <1>1, HandlerKeepsPromise DEF WorkerHandler, WorkerInv, Promise!Next
<1>2. ASSUME NEW out \in SUBSET Slot, rot' = rot \ out, req' = req
      PROVE  Promise!Expel
  BY <1>2, Zenon DEF Promise!Expel
<1>3. ASSUME NEW back \in SUBSET Slot, rot' = rot \cup back, req' = req
      PROVE  Promise!Next
  BY <1>3, Zenon DEF Promise!Next, Promise!Rejoin
<1>4. ASSUME down_until' = down_until, now' = now PROVE rot' = rot
  BY <1>4 DEF Rotation, IsHealthy
<1>5. CASE WorkerProbe
  <2>1. CASE Tick
    <3>1. rot' = rot
      BY <1>4, <2>1 DEF Tick, poolVars
    <3> QED BY <1>5, <3>1 DEF WorkerProbe
  <2>2. ASSUME NEW m \in ProbeReply, ProbeOk(m) PROVE Promise!Next
    <3>1. probing \in Slot /\ PoolTypeOK /\ MarkUp(Peers[probing]) /\ now' = now
      BY <2>2, ProbedAddress DEF ProbeOk, WorkerInv, ProbeTypeOK
    <3>2. rot' = rot \cup {probing}
      BY <3>1, MarkBringsBack
    <3> QED BY <1>3, <1>5, <3>1, <3>2 DEF WorkerProbe
  <2>3. ASSUME NEW m \in ProbeReply, ProbeFailed(m) PROVE Promise!Expel
    <3>1. probing \in Slot /\ PoolTypeOK /\ MarkDown(Peers[probing]) /\ now' = now
      BY <2>3, ProbedAddress DEF ProbeFailed, WorkerInv, ProbeTypeOK
    <3>2. rot' = rot \ {probing}
      <4>1. Rotation(down_until') = rot \ {probing}
        BY <3>1, MarkTakesOut
      <4> QED BY <3>1, <4>1 DEF Rotation, IsHealthy
    <3> QED BY <1>2, <1>5, <3>1, <3>2 DEF WorkerProbe
  <2> QED BY <1>5, <2>1, <2>2, <2>3 DEF WorkerProbe, ProbeStep
<1>6. CASE WorkerClock
  <2>0. req' = req /\ down_until' = down_until /\ rot \in SUBSET Slot
    BY <1>6 DEF WorkerClock, ProbeClock, Rotation
  <2>1. CASE AdvanceClock
    <3>1. rot \subseteq rot' /\ rot' \subseteq Slot
      BY <2>0, <2>1
      DEF AdvanceClock, WorkerInv, ProbeTypeOK, PoolTypeOK, Rotation, IsHealthy
    <3>2. rot' \in SUBSET Slot /\ rot' = rot \cup rot'
      BY <3>1
    <3> QED BY <1>3, <2>0, <3>2
  <2>2. CASE SetClockBack
    <3>1. rot' \subseteq rot
      BY <2>0, <2>2
      DEF SetClockBack, WorkerInv, ProbeTypeOK, PoolTypeOK, Rotation, IsHealthy
    <3>2. rot \ rot' \in SUBSET Slot /\ rot' = rot \ (rot \ rot')
      BY <2>0, <3>1
    <3> QED BY <1>2, <2>0, <3>2
  <2> QED BY <1>6, <2>1, <2>2 DEF WorkerClock, ProbeClock
<1>7. CASE UNCHANGED workerVars
  BY <1>4, <1>7 DEF workerVars, poolVars
<1> QED BY <1>1, <1>5, <1>6, <1>7 DEF WorkerNext

\* SharedFailoverKept for every upstream that lists no address twice, if the
\* number of servers divides the counter's modulus: any number of requests,
\* a probe as late as it likes, and a clock that is set back as well.
THEOREM WorkerImplementsFailover ==
  ASSUME DistinctPeers, UsizeModulus % N = 0
  PROVE  WorkerSpec => SharedFailoverKept
<1> DEFINE rot == Rotation(down_until)
<1>1. WorkerInit => Promise!Init
  BY DEF WorkerInit, ProxyInit, PoolInit, Promise!Init, Promise!New, Fresh,
         Rotation, IsHealthy
<1>2. WorkerInv /\ [WorkerNext]_workerVars => [Promise!Next \/ Promise!Expel]_<<rot, req>>
  BY WorkerStepPromised
<1> QED
  BY <1>1, <1>2, WorkerTypeCorrect, PTL
  DEF WorkerSpec, SharedFailoverKept, Promise!SharedSpec, Promise!vars

\* RetryMovesOn in a worker: the probe may bring the peer that has just failed
\* back into rotation, and take the others out, but never between the mark and
\* the next pick.
THEOREM WorkerRetryGoesElsewhere ==
  ASSUME DistinctPeers
  PROVE  WorkerSpec => RetryMovesOn
<1> DEFINE A == \A r \in Request :
                  (/\ req[r].pc = "waiting" /\ req'[r].pc = "waiting"
                   /\ req'[r].attempt # req[r].attempt)
                    => Peers[req'[r].slot] # Peers[req[r].slot]
<1>1. WorkerInv /\ [WorkerNext]_workerVars => [A]_proxyVars
  <2>1. ASSUME WorkerInv, [ProxyNext]_proxyVars PROVE [A]_proxyVars
    BY <2>1, RetryAsksAnother DEF WorkerInv
  <2>2. ASSUME UNCHANGED req PROVE A
    BY <2>2
  <2> QED BY <2>1, <2>2, WorkerStep
<1> QED BY <1>1, WorkerTypeCorrect, PTL DEF WorkerSpec, RetryMovesOn

\* So no peer of a worker is out of rotation without its last message saying
\* that it is down, although requests and probe both mark and log.
COROLLARY WorkerQuarantineLogged == WorkerSpec => []QuarantineIsLogged
BY WorkerUsesPool, QuarantineAlwaysLogged DEF PoolKept

\* And a healthy peer is picked at least once in any N picks of a worker.
COROLLARY WorkerRoundRobinIsFair ==
  ASSUME UsizeModulus % N = 0
  PROVE  WorkerSpec => []BoundedBypass
BY WorkerUsesPool, RoundRobinIsFair DEF PoolKept

=============================================================================
