------------------------- MODULE ProxyUpstream_proofs -------------------------
(***************************************************************************)
(* Proofs about ProxyUpstream: it only does to the pool what PoolSpec      *)
(* allows, so that what is proved of the pool holds in it; its typing;     *)
(* that a retry moves on; that an outage has a bound; and that it          *)
(* implements Failover.                                                    *)
(***************************************************************************)
EXTENDS ProxyUpstream, UpstreamPool_proofs, FiniteSetTheorems

\* What pick() returns is in rotation, whatever the width of the counter.
LEMMA PickedInRotation ==
  ASSUME PoolTypeOK, NEW du, Picked(du, next) # NoSlot
  PROVE  Picked(du, next) \in Rotation(du)
<1> DEFINE hits == {off \in 0..(N - 1) : IsHealthy(du, SlotAt(next, off))}
<1>1. hits # {} /\ Picked(du, next) = SlotAt(next, Min(hits))
  BY DEF Picked
<1>2. hits \in SUBSET Nat
  BY PoolConstants
<1>3. \A off \in hits : off \in Nat /\ IsHealthy(du, SlotAt(next, off))
  BY PoolConstants
<1> HIDE DEF hits
<1>4. Min(hits) \in hits
  <2>1. \E x \in hits : \A y \in hits : x <= y
    BY <1>1, <1>2, LeastElement
  <2> QED BY <2>1, Zenon DEF Min
<1> QED BY <1>1, <1>3, <1>4, SlotAtInSlot DEF Rotation

-----------------------------------------------------------------------------
(* The pool under its callers.                                              *)

\* Whatever the requests do, the pool goes through a behaviour of PoolSpec:
\* no handler changes deadlines, counter or log in a way of its own.
LEMMA ProxyStepIsPoolStep ==
  ASSUME ProxyTypeOK, [ProxyNext]_proxyVars
  PROVE  [PoolNext]_poolVars
<1> USE DEF ProxyTypeOK, Handlers
<1>1. ASSUME NEW r \in Request, Arrive(r) \/ BodyFails(r) \/ HangUp(r)
      PROVE  UNCHANGED poolVars
  BY <1>1 DEF Arrive, BodyFails, HangUp
<1>2. ASSUME NEW r \in Request, BodyBuffered(r) PROVE PoolPick
  BY <1>2 DEF BodyBuffered, AskNext, PoolPick
<1>3. ASSUME NEW r \in Request, req[r].pc = "waiting"
      PROVE  Peers[req[r].slot] \in Addr
  BY <1>3 DEF Addr, Fresh
<1>4. ASSUME NEW r \in Request, NEW m \in Reply, PeerOk(r, m)
      PROVE  \E a \in Addr : PoolMarkUp(a)
  BY <1>3, <1>4 DEF PeerOk, PoolMarkUp
<1>5. ASSUME NEW r \in Request, NEW m \in Reply, PeerRetry(r, m)
      PROVE  \E a \in Addr : PoolRetry(a)
  BY <1>3, <1>5 DEF PeerRetry, AskNext, PoolRetry
<1>6. ASSUME NEW r \in Request, NEW m \in Reply, PeerExhausted(r, m)
      PROVE  \E a \in Addr : PoolMarkDown(a)
  BY <1>3, <1>6 DEF PeerExhausted, PoolMarkDown
<1>7. CASE ProxyClock
  BY <1>7 DEF ProxyClock, PoolNext
<1>8. CASE UNCHANGED proxyVars
  BY <1>8 DEF proxyVars, poolVars
<1> QED
  BY <1>1, <1>2, <1>4, <1>5, <1>6, <1>7, <1>8
  DEF ProxyNext, Handler, Replied, PoolNext

\* A request after AskNext.
LEMMA AskNextResult ==
  ASSUME ProxyTypeOK, NEW r \in Request, NEW du, AskNext(r, du),
         req[r].attempt < Attempts
  PROVE  /\ \A q \in Request \ {r} : req'[q] = req[q]
         /\ DOMAIN req' = Request /\ req' = [q \in Request |-> req'[q]]
         /\ \/ /\ Picked(du, next) = NoSlot
               /\ req'[r] = [req[r] EXCEPT !.pc = "refused"]
            \/ /\ Picked(du, next) \in Rotation(du)
               /\ req'[r] = [pc |-> "waiting", slot |-> Picked(du, next),
                             attempt |-> req[r].attempt + 1]
BY PickedInRotation DEF AskNext, ProxyTypeOK, Handlers

LEMMA ProxyInitTyped == ProxyInit => ProxyTypeOK
BY PoolConstants
DEF ProxyInit, ProxyTypeOK, Handlers, PoolInit, PoolTypeOK

LEMMA ProxyStepTyped ==
  ASSUME ProxyTypeOK, [ProxyNext]_proxyVars
  PROVE  ProxyTypeOK'
<1>1. PoolTypeOK'
  BY ProxyStepIsPoolStep, PoolStepTyped DEF ProxyTypeOK
<1>2. req' \in [Request -> Handlers]
  <2> USE DEF ProxyTypeOK, Handlers, Fresh, Attempts
  <2>1. ASSUME NEW r \in Request, Arrive(r) \/ BodyFails(r) \/ HangUp(r)
        PROVE  req' \in [Request -> Handlers]
    BY <2>1, PoolConstants DEF Arrive, BodyFails, HangUp
  <2>2. ASSUME NEW r \in Request, NEW du, AskNext(r, du),
               req[r].attempt < Attempts
        PROVE  req' \in [Request -> Handlers]
    <3>1. req'[r] \in Handlers
      <4>1. CASE req'[r] = [req[r] EXCEPT !.pc = "refused"]
        BY <2>2, <4>1, PoolConstants
      <4>2. ASSUME NEW i \in Slot,
                   req'[r] = [pc |-> "waiting", slot |-> i,
                              attempt |-> req[r].attempt + 1]
            PROVE  req'[r] \in Handlers
        <5>1. req[r].attempt \in Nat
          BY PoolConstants
        <5>2. req[r].attempt + 1 \in 1..Attempts
          BY <2>2, <5>1, PoolConstants
        <5> QED BY <4>2, <5>2
      <4> QED BY <2>2, <4>1, <4>2, AskNextResult DEF Rotation
    <3> QED BY <2>2, <3>1, AskNextResult
  <2>3. ASSUME NEW r \in Request, BodyBuffered(r)
        PROVE  req[r].attempt < Attempts
    BY <2>3, PoolConstants DEF BodyBuffered
  <2>4. ASSUME NEW r \in Request, NEW m \in Reply,
               PeerOk(r, m) \/ PeerExhausted(r, m)
        PROVE  req' \in [Request -> Handlers]
    <3>1. /\ req[r].pc = "waiting"
          /\ \E pc \in {"served", "refused"} : req' = [req EXCEPT ![r].pc = pc]
      BY <2>4 DEF PeerOk, PeerExhausted
    <3>2. PICK pc \in {"served", "refused"} : req' = [req EXCEPT ![r].pc = pc]
      BY <3>1
    <3>3. req[r].slot \in Slot /\ req[r].attempt \in 1..Attempts
      BY <3>1
    <3>4. [req[r] EXCEPT !.pc = pc] \in Handlers
      BY <3>1, <3>3
    <3> QED BY <3>2, <3>4
  <2>5. CASE UNCHANGED req
    BY <2>5
  <2> HIDE DEF ProxyTypeOK, Handlers, Fresh, Attempts
  <2>6. ASSUME NEW r \in Request, BodyBuffered(r)
        PROVE  req' \in [Request -> Handlers]
    <3>1. AskNext(r, down_until)
      BY <2>6 DEF BodyBuffered
    <3> QED BY <2>2, <2>3, <2>6, <3>1
  <2>7. ASSUME NEW r \in Request, NEW m \in Reply, PeerRetry(r, m)
        PROVE  req' \in [Request -> Handlers]
    <3>1. AskNext(r, down_until') /\ req[r].attempt < Attempts
      BY <2>7 DEF PeerRetry
    <3> QED BY <2>2, <3>1
  <2>8. CASE \E r \in Request : Handler(r)
    BY <2>1, <2>4, <2>6, <2>7, <2>8 DEF Handler, Replied
  <2>9. CASE ProxyClock \/ UNCHANGED proxyVars
    BY <2>5, <2>9 DEF ProxyClock, proxyVars
  <2> QED BY <2>8, <2>9 DEF ProxyNext
<1> QED BY <1>1, <1>2 DEF ProxyTypeOK, Handlers

\* The typing of the handlers: in particular none makes more attempts than
\* the upstream has servers.
THEOREM ProxyTypeCorrect == ProxySpec => []ProxyTypeOK
<1>1. ProxyTypeOK /\ [ProxyNext]_proxyVars => ProxyTypeOK'
  BY ProxyStepTyped
<1> QED BY <1>1, ProxyInitTyped, PTL DEF ProxySpec

\* The pool under its requests is a pool: what UpstreamPool_proofs proves of
\* PoolSpec holds of every worker's requests, however many there are.
THEOREM ProxyUsesPool == ProxySpec => PoolSpec
<1>1. ProxyInit => PoolInit
  BY DEF ProxyInit
<1>2. ProxyTypeOK /\ [ProxyNext]_proxyVars => [PoolNext]_poolVars
  BY ProxyStepIsPoolStep
<1> QED BY <1>1, <1>2, ProxyTypeCorrect, PTL DEF ProxySpec, PoolSpec

-----------------------------------------------------------------------------
(* Marks, and the retry after one.                                          *)

\* With no address listed twice, a mark takes the peer itself out.
LEMMA MarkTakesOut ==
  ASSUME PoolTypeOK, NEW i \in Slot, DistinctPeers, MarkDown(Peers[i])
  PROVE  /\ Rotation(down_until') = Rotation(down_until) \ {i}
         /\ i \notin Rotation(down_until')
<1>1. Entry(Peers[i]) = i
  BY PoolConstants DEF Entry, DistinctPeers
<1>2. down_until' = [down_until EXCEPT ![i] = now + FAIL_TIMEOUT]
  BY <1>1 DEF MarkDown
<1>3. ~(now + FAIL_TIMEOUT = 0 \/ now >= now + FAIL_TIMEOUT)
  BY PoolConstants DEF PoolTypeOK
<1> QED BY <1>2, <1>3 DEF PoolTypeOK, Rotation, IsHealthy

LEMMA MarkBringsBack ==
  ASSUME PoolTypeOK, NEW i \in Slot, DistinctPeers, MarkUp(Peers[i]), now' = now
  PROVE  Rotation(down_until)' = Rotation(down_until) \cup {i}
<1>1. Entry(Peers[i]) = i
  BY PoolConstants DEF Entry, DistinctPeers
<1>2. down_until' = [down_until EXCEPT ![i] = 0]
  BY <1>1 DEF MarkUp
<1> QED BY <1>2 DEF PoolTypeOK, Rotation, IsHealthy

\* A handler that is waiting again, after another pick, waits for another peer.
LEMMA RetryAsksAnother ==
  ASSUME DistinctPeers, ProxyTypeOK, ProxyNext, NEW r \in Request,
         req[r].pc = "waiting", req'[r].pc = "waiting",
         req'[r].attempt # req[r].attempt
  PROVE  Peers[req'[r].slot] # Peers[req[r].slot]
<1>1. req \in [Request -> Handlers]
  BY DEF ProxyTypeOK
<1>2. PICK q \in Request : Handler(q)
  BY DEF ProxyNext, ProxyClock
<1>3. q = r
  <2>1. ASSUME q # r, NEW x, req' = [req EXCEPT ![q] = x] PROVE FALSE
    BY <1>1, <2>1
  <2>2. ASSUME q # r, NEW du, AskNext(q, du) PROVE FALSE
    BY <2>1, <2>2 DEF AskNext
  <2>3. ASSUME q # r, Arrive(q) \/ BodyFails(q) \/ HangUp(q) PROVE FALSE
    BY <1>1, <2>3 DEF Arrive, BodyFails, HangUp
  <2>4. ASSUME q # r, NEW m \in Reply, PeerOk(q, m) PROVE FALSE
    <3>1. req' = [req EXCEPT ![q] = [req[q] EXCEPT !.pc = "served"]]
      BY <1>1, <2>4, Zenon DEF PeerOk
    <3> QED BY <2>1, <2>4, <3>1
  <2>5. ASSUME q # r, NEW m \in Reply, PeerExhausted(q, m) PROVE FALSE
    <3>1. req' = [req EXCEPT ![q] = [req[q] EXCEPT !.pc = "refused"]]
      BY <1>1, <2>5, Zenon DEF PeerExhausted
    <3> QED BY <2>1, <2>5, <3>1
  <2> QED BY <1>2, <2>2, <2>3, <2>4, <2>5 DEF Handler, Replied, BodyBuffered, PeerRetry
<1>4. ~(Arrive(r) \/ BodyFails(r) \/ BodyBuffered(r) \/ HangUp(r))
  <2>1. ~(Arrive(r) \/ BodyFails(r) \/ BodyBuffered(r))
    BY DEF Arrive, BodyFails, BodyBuffered
  <2>2. ~HangUp(r)
    BY <1>1 DEF HangUp, Fresh
  <2> QED BY <2>1, <2>2
<1>5. ASSUME NEW m \in Reply PROVE ~(PeerOk(r, m) \/ PeerExhausted(r, m))
  <2>1. ~PeerOk(r, m)
    BY <1>1 DEF PeerOk, Handlers, Fresh
  <2>2. ~PeerExhausted(r, m)
    BY <1>1 DEF PeerExhausted, Handlers, Fresh
  <2> QED BY <2>1, <2>2
<1>6. PICK m \in Reply : PeerRetry(r, m)
  BY <1>2, <1>3, <1>4, <1>5 DEF Handler, Replied
<1>7. req[r].slot \in Slot
  BY DEF ProxyTypeOK, Handlers, Fresh
<1>8. req[r].slot \notin Rotation(down_until')
  BY <1>6, <1>7, MarkTakesOut DEF PeerRetry, ProxyTypeOK
<1>9. req'[r].slot \in Rotation(down_until')
  <2>1. AskNext(r, down_until') /\ req[r].attempt < Attempts
    BY <1>6 DEF PeerRetry
  <2>2. Picked(down_until', next) # NoSlot
    BY <2>1 DEF AskNext, ProxyTypeOK, Handlers, Fresh
  <2>3. req'[r].slot = Picked(down_until', next)
    BY <2>1, <2>2 DEF AskNext, ProxyTypeOK
  <2> QED BY <2>2, <2>3, PickedInRotation DEF ProxyTypeOK
<1> QED BY <1>7, <1>8, <1>9 DEF DistinctPeers, Rotation

\* RetryMovesOn for every upstream that lists no address twice, however the
\* counter wraps and the clock is set.
THEOREM RetryGoesElsewhere ==
  ASSUME DistinctPeers
  PROVE  ProxySpec => RetryMovesOn
<1> DEFINE A == \A r \in Request :
                  (/\ req[r].pc = "waiting" /\ req'[r].pc = "waiting"
                   /\ req'[r].attempt # req[r].attempt)
                    => Peers[req'[r].slot] # Peers[req[r].slot]
<1>1. ProxyTypeOK /\ [ProxyNext]_proxyVars => [A]_proxyVars
  BY RetryAsksAnother
<1> QED BY <1>1, ProxyTypeCorrect, PTL DEF ProxySpec, RetryMovesOn

-----------------------------------------------------------------------------
(* How long an outage lasts.                                                *)

LEMMA InFlightCounted ==
  ASSUME NEW i \in Slot
  PROVE  IsFiniteSet(InFlight(i)) /\ Cardinality(InFlight(i)) \in Nat
<1>1. InFlight(i) \subseteq Request
  BY DEF InFlight
<1> QED BY <1>1, RequestAssumption, FS_Subset, FS_CardinalityType

\* Each failure put off the return by less than it takes out of the count.
LEMMA PutOffByLess ==
  ASSUME NEW F \in Nat \ {0}, NEW d \in Nat, NEW e \in Nat,
         NEW m \in Nat, NEW n \in Nat,
         \/ m <= n /\ e <= d
         \/ m + 1 <= n /\ e <= d + (F - 1)
  PROVE  e + m * (F - 1) <= d + n * (F - 1)
<1>1. F - 1 \in Nat
  OBVIOUS
<1>2. ASSUME NEW a \in Nat, NEW b \in Nat, NEW g \in Nat, a <= b
      PROVE  a * g <= b * g
  BY <1>2
<1>3. (m + 1) * (F - 1) = m * (F - 1) + (F - 1)
  BY <1>1
<1>4. m * (F - 1) \in Nat /\ n * (F - 1) \in Nat
  BY <1>1
<1>5. CASE m <= n /\ e <= d
  <2>1. m * (F - 1) <= n * (F - 1)
    BY <1>1, <1>2, <1>5
  <2> QED BY <1>4, <1>5, <2>1
<1>6. CASE m + 1 <= n /\ e <= d + (F - 1)
  <2>1. (m + 1) * (F - 1) <= n * (F - 1)
    BY <1>1, <1>2, <1>6
  <2> QED BY <1>1, <1>3, <1>4, <1>6, <2>1
<1> QED BY <1>5, <1>6

\* A peer that is down keeps its deadline or loses it while those that wait
\* for it get no more, or fails one of them and gets a new deadline.
LEMMA OutageStep ==
  ASSUME DistinctPeers, ProxyTypeOK, ProxyNext,
         NEW i \in Slot, ~IsHealthy(down_until, i)
  PROVE  \/ /\ InFlight(i)' \subseteq InFlight(i)
            /\ down_until'[i] \in {down_until[i], 0}
         \/ \E r \in InFlight(i) : /\ InFlight(i)' \subseteq InFlight(i) \ {r}
                                   /\ down_until'[i] = now + FAIL_TIMEOUT
<1> DEFINE Kept(r) == \A q \in Request \ {r} : req'[q] = req[q]
           Left(r) == ~(req'[r].pc = "waiting" /\ req'[r].slot = i)
<1>1. ASSUME NEW r \in Request, Kept(r), Left(r)
      PROVE  InFlight(i)' \subseteq InFlight(i) \ {r}
  BY <1>1 DEF InFlight
<1>2. ASSUME NEW r \in Request, NEW x, req' = [req EXCEPT ![r] = x],
             x.pc # "waiting"
      PROVE  Kept(r) /\ Left(r)
  BY <1>2 DEF ProxyTypeOK
<1>3. ASSUME NEW r \in Request, NEW du, AskNext(r, du), ~IsHealthy(du, i)
      PROVE  Kept(r) /\ Left(r)
  <2>1. Kept(r)
    BY <1>3 DEF AskNext, ProxyTypeOK
  <2>2. CASE Picked(du, next) = NoSlot
    <3>1. req'[r] = [req[r] EXCEPT !.pc = "refused"] /\ req[r] \in Handlers
      BY <1>3, <2>2 DEF AskNext, ProxyTypeOK
    <3> QED BY <2>1, <3>1 DEF Handlers, Fresh
  <2>3. CASE Picked(du, next) # NoSlot
    <3>1. Picked(du, next) \in Rotation(du) /\ i \notin Rotation(du)
      BY <1>3, <2>3, PickedInRotation DEF ProxyTypeOK, Rotation
    <3>2. req'[r].slot = Picked(du, next)
      BY <1>3, <2>3 DEF AskNext, ProxyTypeOK
    <3> QED BY <2>1, <3>1, <3>2
  <2> QED BY <2>2, <2>3
<1>4. ASSUME NEW s \in Slot PROVE Entry(Peers[s]) = s
  BY <1>4 DEF Entry, DistinctPeers
<1>5. ASSUME NEW r \in Request, req[r].pc = "waiting" PROVE req[r].slot \in Slot
  BY <1>5 DEF ProxyTypeOK, Handlers, Fresh
<1> DEFINE Goal ==
      \/ /\ InFlight(i)' \subseteq InFlight(i)
         /\ down_until'[i] \in {down_until[i], 0}
      \/ \E r \in InFlight(i) : /\ InFlight(i)' \subseteq InFlight(i) \ {r}
                                /\ down_until'[i] = now + FAIL_TIMEOUT
<1>6. ASSUME NEW r \in Request, Kept(r), Left(r), req[r].pc = "waiting",
             MarkDown(Peers[req[r].slot])
      PROVE  Goal
  <2>1. down_until' = [down_until EXCEPT ![req[r].slot] = now + FAIL_TIMEOUT]
    BY <1>4, <1>5, <1>6 DEF MarkDown
  <2>2. CASE req[r].slot = i
    <3>1. down_until'[i] = now + FAIL_TIMEOUT
      BY <2>1, <2>2 DEF ProxyTypeOK, PoolTypeOK
    <3>2. r \in InFlight(i)
      BY <1>6, <2>2 DEF InFlight
    <3> QED BY <1>1, <1>6, <3>1, <3>2
  <2>3. CASE req[r].slot # i
    <3>1. down_until'[i] = down_until[i]
      BY <2>1, <2>3 DEF ProxyTypeOK, PoolTypeOK
    <3> QED BY <1>1, <1>6, <3>1
  <2> QED BY <2>2, <2>3
<1>7. ASSUME NEW r \in Request, Kept(r), Left(r), down_until' = down_until
      PROVE  Goal
  BY <1>1, <1>7
<1>8. ASSUME NEW r \in Request, Arrive(r) \/ BodyFails(r) \/ HangUp(r)
      PROVE  Goal
  <2>1. \E x : req' = [req EXCEPT ![r] = x] /\ x.pc # "waiting"
    <3>1. CASE Arrive(r)
      <4>1. req' = [req EXCEPT ![r] = Fresh("buffering")]
        BY <3>1, Zenon DEF Arrive
      <4>2. Fresh("buffering").pc # "waiting"
        BY DEF Fresh
      <4> QED BY <4>1, <4>2, Zenon
    <3>2. CASE HangUp(r)
      <4>1. req' = [req EXCEPT ![r] = Fresh("idle")]
        BY <3>2, Zenon DEF HangUp
      <4>2. Fresh("idle").pc # "waiting"
        BY DEF Fresh
      <4> QED BY <4>1, <4>2, Zenon
    <3>3. CASE BodyFails(r)
      <4>1. req' = [req EXCEPT ![r] = [req[r] EXCEPT !.pc = "refused"]]
        BY <3>3, Zenon DEF BodyFails, ProxyTypeOK
      <4>2. [req[r] EXCEPT !.pc = "refused"].pc # "waiting"
        BY DEF ProxyTypeOK, Handlers, Fresh
      <4> QED BY <4>1, <4>2, Zenon
    <3> QED BY <1>8, <3>1, <3>2, <3>3
  <2>2. down_until' = down_until
    BY <1>8 DEF Arrive, BodyFails, HangUp, poolVars
  <2> QED BY <1>2, <1>7, <2>1, <2>2
<1>9. ASSUME NEW r \in Request, BodyBuffered(r) PROVE Goal
  <2>1. AskNext(r, down_until) /\ down_until' = down_until
    BY <1>9 DEF BodyBuffered
  <2> QED BY <1>3, <1>7, <2>1
<1>10. ASSUME NEW r \in Request, NEW pc \in {"served", "refused"},
              req[r].pc = "waiting", req' = [req EXCEPT ![r].pc = pc]
       PROVE  Kept(r) /\ Left(r)
  BY <1>10 DEF ProxyTypeOK, Handlers, Fresh
<1>11. ASSUME NEW r \in Request, NEW m \in Reply, PeerOk(r, m) PROVE Goal
  <2>1. /\ req[r].pc = "waiting" /\ req' = [req EXCEPT ![r].pc = "served"]
        /\ MarkUp(Peers[req[r].slot])
    BY <1>11 DEF PeerOk
  <2>2. down_until' = [down_until EXCEPT ![req[r].slot] = 0]
    BY <1>4, <1>5, <2>1 DEF MarkUp
  <2>3. down_until'[i] \in {down_until[i], 0}
    BY <2>2 DEF ProxyTypeOK, PoolTypeOK
  <2> QED BY <1>1, <1>10, <2>1, <2>3
<1>12. ASSUME NEW r \in Request, NEW m \in Reply, PeerExhausted(r, m) PROVE Goal
  <2>1. /\ req[r].pc = "waiting" /\ req' = [req EXCEPT ![r].pc = "refused"]
        /\ MarkDown(Peers[req[r].slot])
    BY <1>12 DEF PeerExhausted
  <2> QED BY <1>6, <1>10, <2>1
<1>13. ASSUME NEW r \in Request, NEW m \in Reply, PeerRetry(r, m) PROVE Goal
  <2>1. /\ req[r].pc = "waiting" /\ MarkDown(Peers[req[r].slot])
        /\ AskNext(r, down_until')
    BY <1>13 DEF PeerRetry
  <2>2. ~IsHealthy(down_until', i)
    <3>1. i \notin Rotation(down_until)
      BY DEF Rotation
    <3>2. i \notin Rotation(down_until')
      BY <1>5, <2>1, <3>1, MarkTakesOut DEF ProxyTypeOK
    <3> QED BY <3>2 DEF Rotation
  <2> QED BY <1>3, <1>6, <2>1, <2>2
<1>14. CASE ProxyClock
  BY <1>14 DEF ProxyClock, PoolClock, InFlight
<1> QED
  BY <1>8, <1>9, <1>11, <1>12, <1>13, <1>14 DEF ProxyNext, Handler, Replied

\* OutageBounded for every upstream that lists no address twice, any number of
\* requests in flight, and however the clock is set: a peer that is down stays
\* out at most as long as the requests already sent to it can put off.
THEOREM OutagesEnd ==
  ASSUME DistinctPeers
  PROVE  ProxySpec => OutageBounded
<1> DEFINE A == \A i \in Slot :
                  ~IsHealthy(down_until, i)
                    => LatestReturn(i)' <= LatestReturn(i)
<1>1. ASSUME ProxyTypeOK, ProxyNext, NEW i \in Slot, ~IsHealthy(down_until, i)
      PROVE  LatestReturn(i)' <= LatestReturn(i)
  <2> DEFINE d == down_until[i]      e == down_until'[i]
             F == FAIL_TIMEOUT
             n == Cardinality(InFlight(i))   m == Cardinality(InFlight(i)')
  <2>1. d \in Nat /\ e \in Nat /\ n \in Nat /\ m \in Nat /\ F \in Nat \ {0}
    <3>1. ProxyTypeOK'
      BY <1>1, ProxyStepTyped
    <3>2. InFlight(i)' \subseteq Request
      BY DEF InFlight
    <3>3. m \in Nat
      BY <3>2, RequestAssumption, FS_Subset, FS_CardinalityType
    <3> QED
      BY <1>1, <3>1, <3>3, InFlightCounted, PoolConstants
      DEF ProxyTypeOK, PoolTypeOK
  <2>2. CASE InFlight(i)' \subseteq InFlight(i) /\ e \in {d, 0}
    <3>1. m <= n
      BY <2>2, InFlightCounted, FS_Subset
    <3>2. e <= d
      BY <2>1, <2>2
    <3> HIDE DEF d, e, F, m, n
    <3>3. e + m * (F - 1) <= d + n * (F - 1)
      BY <2>1, <3>1, <3>2, PutOffByLess
    <3> QED BY <3>3 DEF d, e, F, m, n, LatestReturn
  <2>3. ASSUME NEW r \in InFlight(i), InFlight(i)' \subseteq InFlight(i) \ {r},
               e = now + F
        PROVE  LatestReturn(i)' <= LatestReturn(i)
    <3>1. m + 1 <= n
      <4>1. /\ IsFiniteSet(InFlight(i) \ {r})
            /\ Cardinality(InFlight(i) \ {r}) = n - 1
        BY InFlightCounted, FS_RemoveElement
      <4>2. m <= Cardinality(InFlight(i) \ {r})
        BY <2>3, <4>1, FS_Subset
      <4> QED BY <2>1, <4>1, <4>2
    <3>2. e <= d + (F - 1)
      BY <1>1, <2>1, <2>3 DEF IsHealthy, ProxyTypeOK, PoolTypeOK
    <3> HIDE DEF d, e, F, m, n
    <3>3. e + m * (F - 1) <= d + n * (F - 1)
      BY <2>1, <3>1, <3>2, PutOffByLess
    <3> QED BY <3>3 DEF d, e, F, m, n, LatestReturn
  <2> QED BY <1>1, <2>2, <2>3, OutageStep
<1>2. ProxyTypeOK /\ [ProxyNext]_proxyVars => [A]_proxyVars
  BY <1>1
<1> QED BY <1>2, ProxyTypeCorrect, PTL DEF ProxySpec, OutageBounded

-----------------------------------------------------------------------------
(* The promise to the clients.                                              *)

\* With no address listed twice and a counter that never skips a peer, every
\* step of a handler is one that is promised.
LEMMA HandlerKeepsPromise ==
  ASSUME DistinctPeers, UsizeModulus % N = 0, ProxyTypeOK,
         NEW q \in Request, Handler(q)
  PROVE  \/ Promise!Submit(q) \/ Promise!Reject(q) \/ Promise!Send(q)
         \/ Promise!Fail(q) \/ Promise!Serve(q) \/ Promise!Abandon(q)
<1> DEFINE rot == Rotation(down_until)
<1>1. ASSUME down_until' = down_until, now' = now PROVE UNCHANGED rot
  BY <1>1 DEF Rotation, IsHealthy
<1>2. ASSUME NEW r \in Request, Arrive(r) PROVE Promise!Submit(r)
  BY <1>1, <1>2 DEF Arrive, Promise!Submit, Fresh, Promise!New, poolVars
<1>3. ASSUME NEW r \in Request, BodyFails(r) PROVE Promise!Reject(r)
  BY <1>1, <1>3 DEF BodyFails, Promise!Reject, poolVars
<1>4. ASSUME NEW r \in Request, HangUp(r) PROVE Promise!Abandon(r)
  BY <1>1, <1>4 DEF HangUp, Promise!Abandon, Fresh, Promise!New, poolVars
<1>5. ASSUME NEW r \in Request, NEW du, AskNext(r, du), req[r].attempt < Attempts
      PROVE  Promise!Try(r, Rotation(du))
  <2>1. CASE Picked(du, next) = NoSlot
    <3>1. Rotation(du) = {}
      BY <2>1, PickedIsHealthy, PoolConstants
      DEF ProxyTypeOK, Rotation, NoSlot
    <3> QED BY <1>5, <2>1, <3>1 DEF Promise!Try, AskNext
  <2>2. CASE Picked(du, next) # NoSlot
    <3>1. Picked(du, next) \in Rotation(du)
      BY <2>2, PickedInRotation DEF ProxyTypeOK
    <3> QED BY <1>5, <2>2, <3>1 DEF Promise!Try, AskNext
  <2> QED BY <2>1, <2>2
<1>6. ASSUME NEW r \in Request, BodyBuffered(r) PROVE Promise!Send(r)
  <2>1. req[r].attempt < Attempts
    BY <1>6, PoolConstants
    DEF BodyBuffered, ProxyTypeOK, Handlers, Fresh, Attempts
  <2>2. AskNext(r, down_until)
    BY <1>6 DEF BodyBuffered
  <2>3. Promise!Try(r, rot)
    BY <1>5, <2>1, <2>2
  <2>4. req[r].pc = "buffering" /\ UNCHANGED rot
    BY <1>1, <1>6 DEF BodyBuffered
  <2> QED BY <2>3, <2>4, Zenon DEF Promise!Send
<1>7. ASSUME NEW r \in Request, req[r].pc = "waiting" PROVE req[r].slot \in Slot
  BY <1>7 DEF ProxyTypeOK, Handlers, Fresh
<1>8. ASSUME NEW r \in Request, NEW m \in Reply, PeerRetry(r, m)
      PROVE  Promise!Fail(r)
  <2>1. rot' = rot \ {req[r].slot} /\ rot' = Rotation(down_until')
    <3>1. MarkDown(Peers[req[r].slot]) /\ req[r].slot \in Slot /\ now' = now
      BY <1>7, <1>8 DEF PeerRetry
    <3>2. Rotation(down_until') = rot \ {req[r].slot}
      BY <3>1, MarkTakesOut DEF ProxyTypeOK
    <3>3. rot' = Rotation(down_until')
      BY <3>1 DEF Rotation, IsHealthy
    <3> QED BY <3>2, <3>3
  <2>2. AskNext(r, down_until') /\ req[r].attempt < Attempts
    BY <1>8 DEF PeerRetry
  <2>3. Promise!Try(r, Rotation(down_until'))
    BY <1>5, <2>2
  <2>4. Promise!Try(r, rot')
    BY <2>1, <2>3
  <2>5. req[r].pc = "waiting"
    BY <1>8 DEF PeerRetry
  <2> QED BY <2>1, <2>4, <2>5, Zenon DEF Promise!Fail
<1>9. ASSUME NEW r \in Request, NEW m \in Reply, PeerExhausted(r, m)
      PROVE  Promise!Fail(r)
  <2>1. /\ MarkDown(Peers[req[r].slot]) /\ req[r].slot \in Slot /\ now' = now
        /\ req[r].pc = "waiting" /\ req[r].attempt = Attempts
        /\ req' = [req EXCEPT ![r].pc = "refused"]
    BY <1>7, <1>9 DEF PeerExhausted
  <2>2. Rotation(down_until') = rot \ {req[r].slot}
    BY <2>1, MarkTakesOut DEF ProxyTypeOK
  <2>3. rot' = Rotation(down_until')
    BY <2>1 DEF Rotation, IsHealthy
  <2>4. rot' = rot \ {req[r].slot}
    BY <2>2, <2>3
  <2>5. Promise!Try(r, rot')
    BY <2>1 DEF Promise!Try
  <2> QED BY <2>1, <2>4, <2>5, Zenon DEF Promise!Fail
<1>10. ASSUME NEW r \in Request, NEW m \in Reply, PeerOk(r, m)
       PROVE  Promise!Serve(r)
  <2>1. /\ MarkUp(Peers[req[r].slot]) /\ req[r].slot \in Slot /\ now' = now
        /\ req[r].pc = "waiting"
        /\ req' = [req EXCEPT ![r].pc = "served"]
    BY <1>7, <1>10 DEF PeerOk
  <2>2. rot' = rot \cup {req[r].slot}
    BY <2>1, MarkBringsBack DEF ProxyTypeOK
  <2> QED BY <2>1, <2>2, Zenon DEF Promise!Serve
<1> QED
  BY <1>2, <1>3, <1>4, <1>6, <1>8, <1>9, <1>10 DEF Handler, Replied

\* FailoverKept for every upstream that lists no address twice, if the
\* number of servers divides the counter's modulus and nobody sets the clock
\* back.
THEOREM ProxyImplementsFailover ==
  ASSUME DistinctPeers, UsizeModulus % N = 0, ~ClockStepsBack
  PROVE  ProxySpec => FailoverKept
<1> DEFINE rot == Rotation(down_until)
<1>1. ProxyInit => Promise!Init
  BY DEF ProxyInit, PoolInit, Promise!Init, Promise!New, Fresh, Rotation, IsHealthy
<1>2. ProxyTypeOK /\ [ProxyNext]_proxyVars => [Promise!Next]_<<rot, req>>
  <2> SUFFICES ASSUME ProxyTypeOK, [ProxyNext]_proxyVars
               PROVE  [Promise!Next]_<<rot, req>>
    OBVIOUS
  <2>1. ASSUME NEW r \in Request, Handler(r) PROVE Promise!Next
    BY <2>1, HandlerKeepsPromise DEF Promise!Next
  <2>2. CASE ProxyClock
    <3>1. rot \subseteq rot' /\ rot' \subseteq Slot /\ req' = req
      BY <2>2
      DEF ProxyClock, PoolClock, AdvanceClock, SetClockBack, ProxyTypeOK,
          PoolTypeOK, Rotation, IsHealthy
    <3>2. rot' \in SUBSET Slot /\ rot' = rot \cup rot'
      BY <3>1
    <3>3. Promise!Rejoin
      BY <3>1, <3>2, Zenon DEF Promise!Rejoin
    <3> QED BY <3>3 DEF Promise!Next
  <2>3. CASE UNCHANGED proxyVars
    BY <2>3 DEF proxyVars, poolVars, Rotation, IsHealthy
  <2> QED BY <2>1, <2>2, <2>3 DEF ProxyNext
<1> QED
  BY <1>1, <1>2, ProxyTypeCorrect, PTL
  DEF ProxySpec, FailoverKept, Promise!Spec, Promise!vars

=============================================================================
