-------------------------- MODULE UpstreamPool_proofs --------------------------
(***************************************************************************)
(* Proofs about UpstreamPool: typing, the message invariant, bounded       *)
(* waiting of the round robin, and that a pick finds a healthy peer        *)
(* whenever there is one.                                                  *)
(***************************************************************************)
EXTENDS UpstreamPool, WellFoundedInduction, TLAPS

-----------------------------------------------------------------------------
(* Arithmetic of the ring of slots.                                         *)

\* Quotient and remainder exist.
LEMMA DivMod ==
  ASSUME NEW n \in Nat \ {0}, NEW x \in Nat
  PROVE  \E q \in Nat : \E r \in 0..(n - 1) : x = n * q + r /\ x % n = r
<1>1. x = n * (x \div n) + (x % n) /\ x % n \in 0..(n - 1) /\ x \div n \in Nat
  OBVIOUS
<1> QED BY <1>1, Zenon

\* The remainder is unique.
LEMMA ModUnique ==
  ASSUME NEW n \in Nat \ {0}, NEW x \in Nat, NEW q \in Nat,
         NEW r \in 0..(n - 1), x = n * q + r
  PROVE  x % n = r
OBVIOUS

\* The slot after slot x % n.
LEMMA ModSucc ==
  ASSUME NEW n \in Nat \ {0}, NEW x \in Nat
  PROVE  (x + 1) % n = IF (x % n) + 1 = n THEN 0 ELSE (x % n) + 1
<1>1. PICK q \in Nat, r \in 0..(n - 1) : x = n * q + r /\ x % n = r
  BY DivMod
<1>2. CASE r + 1 = n
  <2>1. /\ x + 1 = n * (q + 1) + 0
        /\ x + 1 \in Nat /\ q + 1 \in Nat /\ 0 \in 0..(n - 1)
    BY <1>1, <1>2
  <2>2. (x + 1) % n = 0
    BY <2>1, ModUnique, Zenon
  <2> QED BY <1>1, <1>2, <2>2
<1>3. CASE r + 1 # n
  <2>1. x + 1 = n * q + (r + 1) /\ x + 1 \in Nat /\ r + 1 \in 0..(n - 1)
    BY <1>1, <1>3
  <2>2. (x + 1) % n = r + 1
    BY <2>1, ModUnique, Zenon
  <2> QED BY <1>1, <1>3, <2>2
<1> QED BY <1>2, <1>3

\* When n divides the counter's modulus m, the counter's wrap does not move
\* the ring: its next value designates the next slot.
LEMMA WrapSucc ==
  ASSUME NEW n \in Nat \ {0}, NEW m \in Nat \ {0}, m % n = 0, NEW x \in 0..(m - 1)
  PROVE  ((x + 1) % m) % n = IF (x % n) + 1 = n THEN 0 ELSE (x % n) + 1
<1>1. x \in Nat
  OBVIOUS
<1>2. (x + 1) % n = IF (x % n) + 1 = n THEN 0 ELSE (x % n) + 1
  BY <1>1, ModSucc, Zenon
<1>3. CASE x + 1 = m
  <2>1. (x + 1) % m = 0
    BY <1>3
  <2>2. 0 % n = 0
    OBVIOUS
  <2>3. (x + 1) % n = 0 BY <1>3
  <2> QED BY <1>2, <2>1, <2>2, <2>3, Zenon
<1>4. CASE x + 1 # m
  <2>1. (x + 1) % m = x + 1
    BY <1>4
  <2> QED BY <2>1, <1>2, Zenon
<1> QED BY <1>3, <1>4

\* A nonempty set of naturals has a least element: what Entry and Min choose.
LEMMA LeastElement ==
  ASSUME NEW S \in SUBSET Nat, S # {}
  PROVE  \E i \in S : \A j \in S : i <= j
<1> DEFINE R == {ss \in Nat \X Nat : ss[1] < ss[2]}
<1>1. IsWellFoundedOn(R, Nat)
  BY NatLessThanWellFounded DEF OpToRel
<1> HIDE DEF R
<1>2. PICK i \in S : \A j \in S : ~(<<j, i>> \in R)
  BY <1>1, WFMin, S \subseteq Nat, Zenon
<1>3. ASSUME NEW j \in S PROVE i <= j
  <2>1. i \in Nat /\ j \in Nat
    OBVIOUS
  <2>2. <<j, i>> \in R <=> j < i
    BY <2>1 DEF R
  <2> QED BY <1>2, <2>1, <2>2
<1> QED BY <1>3

-----------------------------------------------------------------------------
(* Typing.                                                                  *)

LEMMA PoolConstants ==
  /\ N \in Nat \ {0}
  /\ Slot = 1..N
  /\ FAIL_TIMEOUT \in Nat \ {0}
  /\ UsizeModulus \in Nat \ {0}
  /\ MaxTime \in Nat
BY PoolAssumption DEF N, Slot

\* mark_down and mark_up touch an existing entry.
LEMMA EntryInSlot ==
  ASSUME NEW a \in Addr
  PROVE  Entry(a) \in Slot
<1>1. \E i \in Slot : Peers[i] = a /\ \A j \in Slot : Peers[j] = a => i <= j
  <2> DEFINE S == {j \in Slot : Peers[j] = a}
  <2>1. S \subseteq Nat /\ S # {}
    BY PoolConstants DEF Addr
  <2>2. PICK i \in S : \A j \in S : i <= j
    BY <2>1, LeastElement
  <2> QED BY <2>2
<1> QED BY <1>1, Zenon DEF Entry

LEMMA PoolStepTyped ==
  ASSUME PoolTypeOK, [PoolNext]_poolVars
  PROVE  PoolTypeOK'
<1> USE PoolConstants, EntryInSlot DEF PoolTypeOK
<1>1. CASE PoolPick
  BY <1>1 DEF PoolPick, Pick
<1>2. ASSUME NEW a \in Addr, PoolMarkUp(a) PROVE PoolTypeOK'
  BY <1>2 DEF PoolMarkUp, MarkUp
<1>3. ASSUME NEW a \in Addr, PoolMarkDown(a) PROVE PoolTypeOK'
  BY <1>3 DEF PoolMarkDown, MarkDown
<1>4. ASSUME NEW a \in Addr, PoolRetry(a) PROVE PoolTypeOK'
  <2>1. /\ down_until' \in [Slot -> Nat] /\ now' \in Nat
        /\ lastLog' \in [Slot -> {"none", "down", "up"}]
    BY <1>4 DEF PoolRetry, MarkDown
  <2>2. next' \in 0..(UsizeModulus - 1) /\ bypassed' \in [Slot -> Nat]
    BY <1>4 DEF PoolRetry, Pick
  <2> QED BY <2>1, <2>2
<1>5. CASE PoolClock
  BY <1>5 DEF PoolClock, AdvanceClock, SetClockBack
<1>6. CASE UNCHANGED poolVars
  BY <1>6 DEF poolVars
<1> QED BY <1>1, <1>2, <1>3, <1>4, <1>5, <1>6 DEF PoolNext

\* The pool's type invariant, for every list of peers, cooldown and width.
THEOREM PoolTypeCorrect == PoolSpec => []PoolTypeOK
<1>1. PoolInit => PoolTypeOK
  BY PoolConstants DEF PoolInit, PoolTypeOK
<1>2. PoolTypeOK /\ [PoolNext]_poolVars => PoolTypeOK'
  BY PoolStepTyped
<1> QED BY <1>1, <1>2, PTL DEF PoolSpec

-----------------------------------------------------------------------------
(* Safety.                                                                  *)

\* A slot that has a deadline has been warned about last.
DownIsLogged == \A i \in Slot : down_until[i] # 0 => lastLog[i] = "down"

\* QuarantineIsLogged for every list of peers and however the clock is set:
\* mark_down and mark_up keep the log in step with the deadlines although
\* each writes its message only when it sees the state change.
THEOREM QuarantineAlwaysLogged == PoolSpec => []QuarantineIsLogged
<1>1. PoolInit => DownIsLogged
  BY PoolConstants DEF PoolInit, DownIsLogged
<1>2. PoolTypeOK /\ DownIsLogged /\ [PoolNext]_poolVars => DownIsLogged'
  <2> SUFFICES ASSUME PoolTypeOK, DownIsLogged, [PoolNext]_poolVars
               PROVE  DownIsLogged'
    OBVIOUS
  <2> USE PoolConstants, EntryInSlot DEF PoolTypeOK, DownIsLogged
  <2>1. CASE PoolPick
    BY <2>1 DEF PoolPick
  <2>2. ASSUME NEW a \in Addr, PoolMarkUp(a) PROVE DownIsLogged'
    BY <2>2 DEF PoolMarkUp, MarkUp, IsHealthy
  <2>3. ASSUME NEW a \in Addr, MarkDown(a) PROVE DownIsLogged'
    BY <2>3 DEF MarkDown, IsHealthy
  <2>4. CASE PoolClock
    BY <2>4 DEF PoolClock
  <2>5. CASE UNCHANGED poolVars
    BY <2>5 DEF poolVars
  <2> QED
    BY <2>1, <2>2, <2>3, <2>4, <2>5 DEF PoolNext, PoolMarkDown, PoolRetry
<1>3. PoolTypeOK /\ DownIsLogged => QuarantineIsLogged
  BY DEF DownIsLogged, QuarantineIsLogged, IsHealthy
<1> QED BY <1>1, <1>2, <1>3, PoolTypeCorrect, PTL DEF PoolSpec

-----------------------------------------------------------------------------
(* The round robin.                                                         *)

\* The ring position the next pick starts from, and how many picks ago it
\* started from slot i.
Start == next % N
Turn(i) == IF Start >= i THEN Start - i ELSE Start + N - i

TurnBoundsBypass == \A i \in Slot : bypassed[i] <= Turn(i)

LEMMA StartInRing == PoolTypeOK => Start \in 0..(N - 1)
BY PoolConstants DEF PoolTypeOK, Start

LEMMA TurnInRing ==
  ASSUME PoolTypeOK, NEW i \in Slot
  PROVE  Turn(i) \in 0..(N - 1)
<1>1. Start \in 0..(N - 1) /\ N \in Nat \ {0} /\ i \in 1..N
  BY StartInRing, PoolConstants
<1> QED BY <1>1 DEF Turn

LEMMA FirstSlotLookedAt == PoolTypeOK => SlotAt(next, 0) = Start + 1
<1> SUFFICES ASSUME PoolTypeOK PROVE SlotAt(next, 0) = Start + 1
  OBVIOUS
<1>1. next + 0 = next /\ next % UsizeModulus = next
  <2>1. /\ next \in Nat /\ 0 \in Nat /\ UsizeModulus \in Nat \ {0}
        /\ next \in 0..(UsizeModulus - 1)
        /\ next = UsizeModulus * 0 + next /\ next + 0 = next
    BY PoolConstants DEF PoolTypeOK
  <2> QED BY <2>1, ModUnique, Zenon
<1> QED BY <1>1, Zenon DEF SlotAt, Start

\* A healthy slot whose turn it is is the one picked.
LEMMA TurnIsHonoured ==
  ASSUME PoolTypeOK, NEW du, IsHealthy(du, Start + 1)
  PROVE  Picked(du, next) = Start + 1
<1> DEFINE hits == {off \in 0..(N - 1) : IsHealthy(du, SlotAt(next, off))}
<1>1. 0 \in hits /\ hits \subseteq Nat
  BY FirstSlotLookedAt, PoolConstants
<1> HIDE DEF hits
<1>2. Min(hits) = 0
  <2>1. \E x \in hits : \A y \in hits : x <= y
    BY <1>1
  <2>2. Min(hits) \in hits /\ \A y \in hits : Min(hits) <= y
    BY <2>1, Zenon DEF Min
  <2>3. \A m \in hits : (\A y \in hits : m <= y) => m = 0
    BY <1>1
  <2> QED BY <2>2, <2>3, Zenon
<1>3. hits # {}
  BY <1>1
<1>4. Picked(du, next) = SlotAt(next, Min(hits))
  BY <1>3 DEF Picked, hits
<1> QED BY <1>2, <1>4, FirstSlotLookedAt

\* A pick moves every slot's turn by one.
LEMMA TurnAdvances ==
  ASSUME PoolTypeOK, UsizeModulus % N = 0, next' = (next + 1) % UsizeModulus,
         NEW i \in Slot
  PROVE  Turn(i)' = IF i = Start + 1 THEN 0 ELSE Turn(i) + 1
<1>1. next \in 0..(UsizeModulus - 1)
  BY DEF PoolTypeOK
<1>2. Start' = IF Start + 1 = N THEN 0 ELSE Start + 1
  <2>0. N \in Nat \ {0} /\ UsizeModulus \in Nat \ {0}
    BY PoolConstants
  <2>1. ((next + 1) % UsizeModulus) % N
          = IF (next % N) + 1 = N THEN 0 ELSE (next % N) + 1
    BY <1>1, <2>0, UsizeModulus % N = 0, WrapSucc, Zenon
  <2> QED BY <2>1, Zenon DEF Start
<1> QED BY <1>2, StartInRing, PoolConstants DEF Turn

LEMMA PickKeepsTurns ==
  ASSUME PoolTypeOK, TurnBoundsBypass, UsizeModulus % N = 0,
         NEW du, Pick(du)
  PROVE  TurnBoundsBypass'
<1> SUFFICES ASSUME NEW i \in Slot PROVE bypassed'[i] <= Turn(i)'
  BY PoolConstants DEF TurnBoundsBypass
<1> USE PoolConstants
<1>1. Turn(i)' = IF i = Start + 1 THEN 0 ELSE Turn(i) + 1
  BY TurnAdvances DEF Pick
<1>2. /\ bypassed[i] <= Turn(i) /\ bypassed[i] \in Nat
      /\ Turn(i) \in Nat
  <2>1. Turn(i) \in Nat
    BY TurnInRing
  <2> QED BY <2>1 DEF TurnBoundsBypass, PoolTypeOK
<1>3. bypassed'[i] = IF i = Picked(du, next) \/ ~IsHealthy(du, i)
                       THEN 0 ELSE bypassed[i] + 1
  BY DEF Pick
<1>4. CASE i = Start + 1
  BY <1>1, <1>3, <1>4, TurnIsHonoured
<1>5. CASE i # Start + 1
  BY <1>1, <1>2, <1>3, <1>5
<1> QED BY <1>4, <1>5

\* BoundedBypass for every number of peers that divides the counter's
\* modulus, whatever happens to the other peers and to the clock.
THEOREM RoundRobinIsFair ==
  ASSUME UsizeModulus % N = 0
  PROVE  PoolSpec => []BoundedBypass
<1>1. PoolInit => TurnBoundsBypass
  BY PoolConstants DEF PoolInit, TurnBoundsBypass, Turn, Start
<1>2. PoolTypeOK /\ TurnBoundsBypass /\ [PoolNext]_poolVars => TurnBoundsBypass'
  <2> SUFFICES ASSUME PoolTypeOK, TurnBoundsBypass, [PoolNext]_poolVars
               PROVE  TurnBoundsBypass'
    OBVIOUS
  <2>1. ASSUME NEW du, Pick(du) PROVE TurnBoundsBypass'
    BY <2>1, PickKeepsTurns
  <2>2. CASE UNCHANGED <<next, bypassed>>
    BY <2>2 DEF TurnBoundsBypass, Turn, Start
  <2> QED
    BY <2>1, <2>2 DEF PoolNext, PoolPick, PoolMarkUp, PoolMarkDown, PoolRetry,
                      PoolClock, poolVars
<1>3. PoolTypeOK /\ TurnBoundsBypass => BoundedBypass
  <2> SUFFICES ASSUME PoolTypeOK, TurnBoundsBypass, NEW i \in Slot
               PROVE  bypassed[i] <= N - 1
    BY DEF BoundedBypass
  <2> QED BY TurnInRing, PoolConstants DEF TurnBoundsBypass, PoolTypeOK
<1> QED BY <1>1, <1>2, <1>3, PoolTypeCorrect, PTL DEF PoolSpec

-----------------------------------------------------------------------------
(* The scan.                                                                *)

\* Reducing by a multiple of n does not change the remainder.
LEMMA ModOfDifference ==
  ASSUME NEW n \in Nat \ {0}, NEW m \in Nat \ {0}, m % n = 0, NEW z \in Nat
  PROVE  z % n = (z + m) % n
<1>1. PICK q \in Nat, r \in 0..(n - 1) : z = n * q + r /\ z % n = r
  BY DivMod
<1>2. PICK k \in Nat, s \in 0..(n - 1) : m = n * k + s /\ m % n = s
  BY DivMod
<1>3. /\ z + m = n * (q + k) + r
      /\ z + m \in Nat /\ q + k \in Nat
  BY <1>1, <1>2
<1>4. (z + m) % n = r
  BY <1>3, ModUnique, Zenon
<1> QED BY <1>1, <1>4

\* A counter value up to twice the modulus, reduced by it, designates the
\* same ring position.
LEMMA ModOfWrapped ==
  ASSUME NEW n \in Nat \ {0}, NEW m \in Nat \ {0}, m % n = 0,
         NEW y \in Nat, y < 2 * m
  PROVE  (y % m) % n = y % n
<1>1. CASE y < m
  <2>1. /\ y = m * 0 + y /\ y \in 0..(m - 1) /\ 0 \in Nat
    BY <1>1
  <2>2. y % m = y
    BY <2>1, ModUnique, Zenon
  <2> QED BY <2>2, Zenon
<1>2. CASE ~(y < m)
  <2> DEFINE z == y - m
  <2>1. z \in Nat /\ z \in 0..(m - 1) /\ y = z + m /\ y = m * 1 + z /\ 1 \in Nat
    BY <1>2
  <2> HIDE DEF z
  <2>2. y % m = z
    BY <2>1, ModUnique, Zenon
  <2>3. z % n = (z + m) % n
    BY <2>1, m % n = 0, ModOfDifference, Zenon
  <2> QED BY <2>1, <2>2, <2>3, Zenon
<1> QED BY <1>1, <1>2, Zenon

\* A modulus that N divides is at least N.
LEMMA DivisorIsSmaller ==
  ASSUME NEW n \in Nat \ {0}, NEW m \in Nat \ {0}, m % n = 0
  PROVE  n <= m
<1>1. SUFFICES ASSUME m < n PROVE FALSE
  OBVIOUS
<1>2. m = n * 0 + m /\ m \in 0..(n - 1) /\ 0 \in Nat
  BY <1>1
<1>3. m % n = m
  BY <1>2, ModUnique, Zenon
<1> QED BY <1>3

\* The N steps of a scan look at every slot.
LEMMA ScanReaches ==
  ASSUME PoolTypeOK, UsizeModulus % N = 0, NEW j \in Slot
  PROVE  \E off \in 0..(N - 1) : SlotAt(next, off) = j
<1>1. /\ N \in Nat \ {0} /\ UsizeModulus \in Nat \ {0} /\ N <= UsizeModulus
      /\ next \in Nat /\ next < UsizeModulus /\ j \in 1..N
  <2>1. /\ N \in Nat \ {0} /\ UsizeModulus \in Nat \ {0}
        /\ next \in Nat /\ next < UsizeModulus /\ j \in 1..N
    BY PoolConstants DEF PoolTypeOK
  <2>2. N <= UsizeModulus
    BY <2>1, UsizeModulus % N = 0, DivisorIsSmaller, Zenon
  <2> QED BY <2>1, <2>2
<1>2. PICK q \in Nat, r \in 0..(N - 1) : next = N * q + r
  <2>1. \E q \in Nat : \E r \in 0..(N - 1) : next = N * q + r /\ next % N = r
    BY <1>1, DivMod, Zenon
  <2> QED BY <2>1
<1> DEFINE off == IF r <= j - 1 THEN j - 1 - r ELSE j - 1 + (N - r)
<1>3. off \in 0..(N - 1) /\ next + off \in Nat /\ next + off < 2 * UsizeModulus
  BY <1>1, <1>2
<1>4. (next + off) % N = j - 1
  <2>1. CASE r <= j - 1
    <3>1. next + off = N * q + (j - 1) /\ j - 1 \in 0..(N - 1)
      BY <1>1, <1>2, <2>1
    <3> HIDE DEF off
    <3> QED BY <1>1, <1>3, <3>1, ModUnique, Zenon
  <2>2. CASE ~(r <= j - 1)
    <3>1. /\ next + off = N * (q + 1) + (j - 1)
          /\ j - 1 \in 0..(N - 1) /\ q + 1 \in Nat
      BY <1>1, <1>2, <2>2
    <3> HIDE DEF off
    <3> QED BY <1>1, <1>3, <3>1, ModUnique, Zenon
  <2> QED BY <2>1, <2>2
<1> HIDE DEF off
<1>5. ((next + off) % UsizeModulus) % N = j - 1
  BY <1>1, <1>3, <1>4, UsizeModulus % N = 0, ModOfWrapped, Zenon
<1>6. SlotAt(next, off) = j
  <2>1. (j - 1) + 1 = j
    BY <1>1
  <2> QED BY <1>5, <2>1, Zenon DEF SlotAt
<1> QED BY <1>3, <1>6

LEMMA SlotAtInSlot ==
  ASSUME PoolTypeOK, NEW off \in Nat
  PROVE  SlotAt(next, off) \in Slot
<1> DEFINE y == (next + off) % UsizeModulus
<1>1. N \in Nat \ {0} /\ UsizeModulus \in Nat \ {0} /\ next + off \in Nat
  BY PoolConstants DEF PoolTypeOK
<1>2. y \in Nat
  BY <1>1
<1> HIDE DEF y
<1>3. y % N \in 0..(N - 1)
  BY <1>1, <1>2
<1>4. (y % N) + 1 \in Slot
  BY <1>1, <1>3, PoolConstants
<1> QED BY <1>4, Zenon DEF SlotAt, y

\* pick() returns a healthy peer whenever there is one.
LEMMA PickedIsHealthy ==
  ASSUME PoolTypeOK, UsizeModulus % N = 0, NEW du, Rotation(du) # {}
  PROVE  Picked(du, next) \in Rotation(du)
<1> DEFINE hits == {off \in 0..(N - 1) : IsHealthy(du, SlotAt(next, off))}
<1>1. PICK j \in Slot : IsHealthy(du, j)
  BY DEF Rotation
<1>2. PICK o \in 0..(N - 1) : SlotAt(next, o) = j
  BY ScanReaches
<1>3. hits # {} /\ hits \in SUBSET Nat
  BY <1>1, <1>2, PoolConstants
<1>4. \A off \in hits : off \in Nat /\ IsHealthy(du, SlotAt(next, off))
  BY PoolConstants
<1>5. Picked(du, next) = SlotAt(next, Min(hits))
  BY <1>3 DEF Picked
<1> HIDE DEF hits
<1>6. Min(hits) \in hits
  <2>1. \E x \in hits : \A y \in hits : x <= y
    BY <1>3, LeastElement
  <2> QED BY <2>1, Zenon DEF Min
<1> QED BY <1>4, <1>5, <1>6, SlotAtInSlot DEF Rotation

\* PickServesSomeone for every number of peers that divides the counter's
\* modulus: None means that every peer is down, so a 502 for lack of peers
\* is never given while one of them could have been asked.
THEOREM PickFindsHealthyPeer ==
  ASSUME UsizeModulus % N = 0
  PROVE  PoolSpec => PickServesSomeone
<1> DEFINE A == (next' # next /\ Rotation(down_until') # {})
                  => \E i \in Rotation(down_until') : bypassed'[i] = 0
<1>1. PoolTypeOK /\ [PoolNext]_poolVars => [A]_poolVars
  <2> SUFFICES ASSUME PoolTypeOK, [PoolNext]_poolVars, next' # next,
                      Rotation(down_until') # {}
               PROVE  \E i \in Rotation(down_until') : bypassed'[i] = 0
    OBVIOUS
  <2>1. Pick(down_until')
    <3>1. CASE PoolPick
      BY <3>1, Zenon DEF PoolPick
    <3>2. ASSUME NEW a \in Addr, PoolRetry(a) PROVE Pick(down_until')
      BY <3>2 DEF PoolRetry
    <3> QED
      BY <3>1, <3>2
      DEF PoolNext, PoolMarkUp, PoolMarkDown, PoolClock, poolVars
  <2>2. Picked(down_until', next) \in Rotation(down_until')
    BY PickedIsHealthy
  <2>3. bypassed'[Picked(down_until', next)] = 0
    BY <2>1, <2>2 DEF Pick, Rotation
  <2> QED BY <2>2, <2>3
<1>2. PoolSpec => [][A]_poolVars
  BY <1>1, PoolTypeCorrect, PTL DEF PoolSpec
<1> QED BY <1>2 DEF PickServesSomeone

=============================================================================
