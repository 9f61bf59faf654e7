----------------------------- MODULE Master_proofs -----------------------------
(***************************************************************************)
(* Proofs about Master: typing, and that a master that gets through its    *)
(* shutdown leaves no worker behind, for every number of workers.          *)
(***************************************************************************)
EXTENDS Master, TLAPS

\* Where each of the three loops has got to.
Spawned == {"starting", "serving", "dead"}

LoopInv ==
    /\ master = "spawning" =>
         \A w \in Worker : IF w < next THEN worker[w] \in Spawned
                                       ELSE worker[w] = "absent"
    /\ master \in {"starting_runtime", "waiting"} =>
         \A w \in Worker : worker[w] \in Spawned
    /\ master = "stopping" =>
         \A w \in Worker : worker[w] \in Spawned
                           /\ (w < next => worker[w] = "dead")
    /\ master = "reaping" =>
         \A w \in Worker : worker[w] = IF w < next THEN "reaped" ELSE "dead"
    /\ master = "exited" =>
         \A w \in Worker : worker[w] = "reaped"

MasterInv == MasterTypeOK /\ LoopInv

LEMMA MasterStepKeepsInv ==
  ASSUME MasterInv, [MasterNext]_masterVars
  PROVE  MasterInv'
<1> USE WorkersAssumption DEF MasterInv, MasterTypeOK, LoopInv, Worker, Running,
                              Spawned
<1>1. CASE Spawn
  BY <1>1 DEF Spawn
<1>2. CASE SpawnFails
  BY <1>2 DEF SpawnFails
<1>3. CASE AllSpawned
  BY <1>3 DEF AllSpawned
<1>4. CASE Listen
  BY <1>4 DEF Listen
<1>5. CASE Kill
  BY <1>5 DEF Kill
<1>6. CASE AllKilled
  BY <1>6 DEF AllKilled
<1>7. CASE Wait
  BY <1>7 DEF Wait
<1>8. CASE Exit
  BY <1>8 DEF Exit
<1>9. CASE Terminate
  BY <1>9 DEF Terminate
<1>10. CASE Interrupt
  BY <1>10 DEF Interrupt, Alive
<1>11. ASSUME NEW w \in Worker, WorkerServes(w) PROVE MasterInv'
  BY <1>11 DEF WorkerServes
<1>12. ASSUME NEW w \in Worker, WorkerDies(w) PROVE MasterInv'
  BY <1>12 DEF WorkerDies, Alive
<1>13. CASE UNCHANGED masterVars
  BY <1>13 DEF masterVars
<1> QED
  BY <1>1, <1>2, <1>3, <1>4, <1>5, <1>6, <1>7, <1>8, <1>9, <1>10, <1>11, <1>12,
     <1>13
  DEF MasterNext, MasterStep

\* run_master: at every point of its three loops, the master knows which
\* children it has spawned, killed and reaped.
THEOREM MasterLoops == MasterSpec => []MasterInv
<1>1. MasterInit => MasterInv
  <2> SUFFICES ASSUME MasterInit PROVE MasterInv
    OBVIOUS
  <2>1. MasterTypeOK
    <3>1. master \in Running /\ next \in 1..(Workers + 1)
      BY WorkersAssumption DEF MasterInit, Running
    <3>2. worker \in [Worker -> {"absent", "starting", "serving", "dead", "reaped"}]
      BY DEF MasterInit
    <3>3. termSent \in BOOLEAN
      BY Zenon DEF MasterInit
    <3> QED BY <3>1, <3>2, <3>3, Zenon DEF MasterTypeOK
  <2>2. LoopInv
    BY WorkersAssumption DEF MasterInit, LoopInv, Worker
  <2> QED BY <2>1, <2>2 DEF MasterInv
<1>2. MasterInv /\ [MasterNext]_masterVars => MasterInv'
  BY MasterStepKeepsInv
<1> QED BY <1>1, <1>2, PTL DEF MasterSpec

\* MasterTypeOK for every number of workers: no loop of the master runs past
\* its last child, and each child is in one of the states that Master names.
THEOREM MasterTypeCorrect == MasterSpec => []MasterTypeOK
<1>1. MasterInv => MasterTypeOK
  BY DEF MasterInv
<1> QED BY <1>1, MasterLoops, PTL

\* CleanExit for every number of workers, whichever of them die, and whenever
\* the signals come.
THEOREM ExitIsClean == MasterSpec => []CleanExit
<1>1. MasterInv => CleanExit
  BY DEF MasterInv, LoopInv, CleanExit
<1> QED BY <1>1, MasterLoops, PTL

\* ReapsOnlyDead for every number of workers: child.wait() never blocks on a
\* worker that goes on serving.
THEOREM ReapingDoesNotBlock == MasterSpec => []ReapsOnlyDead
<1>1. MasterInv => ReapsOnlyDead
  BY DEF MasterInv, LoopInv, ReapsOnlyDead, Alive
<1> QED BY <1>1, MasterLoops, PTL

=============================================================================
