-------------------------------- MODULE Master --------------------------------
(***************************************************************************)
(* run_master of qwewginx/src/main.rs: the master process spawns its       *)
(* workers one by one, waits for a signal, kills them all, reaps them all. *)
(*                                                                         *)
(* The operating system is external: spawn may fail, SIGTERM has its       *)
(* default action until the handler is installed, a child that died stays  *)
(* a zombie until it is waited for, and the children of a process that     *)
(* ends live on.                                                           *)
(***************************************************************************)
EXTENDS Naturals

CONSTANT Workers  \* worker_processes.max(1)

ASSUME WorkersAssumption == Workers \in Nat \ {0}

Worker == 1..Workers

VARIABLES
    master,   \* where run_master is, or how it ended
    next,     \* the loop's next child
    worker,   \* per child: absent, starting, serving, dead or reaped
    termSent  \* whether the operator has sent SIGTERM to the master

masterVars == <<master, next, worker, termSent>>

Alive(w) == worker[w] \in {"starting", "serving"}

\* spawning and starting_runtime come before the handler is installed.
Running == {"spawning", "starting_runtime", "waiting", "stopping", "reaping"}

MasterTypeOK ==
    /\ master \in Running \cup {"exited", "failed", "killed"}
    /\ next \in 1..(Workers + 1)
    /\ worker \in [Worker -> {"absent", "starting", "serving", "dead", "reaped"}]
    /\ termSent \in BOOLEAN

MasterInit ==
    /\ master = "spawning" /\ next = 1
    /\ worker = [w \in Worker |-> "absent"]
    /\ termSent = FALSE

-----------------------------------------------------------------------------
(* The master.                                                              *)

\* Mutant of Spawn: one child too many.
SpawnOneMore ==
    /\ master = "spawning" /\ next <= Workers + 1
    /\ worker' = [w \in Worker |-> IF w = next THEN "starting" ELSE worker[w]]
    /\ next' = next + 1
    /\ UNCHANGED <<master, termSent>>

Spawn ==
    /\ master = "spawning" /\ next <= Workers
    /\ worker' = [worker EXCEPT ![next] = "starting"]
    /\ next' = next + 1
    /\ UNCHANGED <<master, termSent>>

\* spawn()? returns from run_master; dropping a Child does not kill it.
SpawnFails ==
    /\ master = "spawning" /\ next <= Workers
    /\ master' = "failed"
    /\ UNCHANGED <<next, worker, termSent>>

AllSpawned ==
    /\ master = "spawning" /\ next > Workers
    /\ master' = "starting_runtime"
    /\ UNCHANGED <<next, worker, termSent>>

\* The runtime is built (or build()? returns) and the handlers installed.
Listen ==
    /\ master = "starting_runtime"
    /\ master' \in {"waiting", "failed"}
    /\ UNCHANGED <<next, worker, termSent>>

\* for child in &mut children { child.kill() }: SIGKILL; the error for a
\* child that is dead already is ignored.
Kill ==
    /\ master = "stopping" /\ next <= Workers
    /\ worker' = [worker EXCEPT ![next] = "dead"]
    /\ next' = next + 1
    /\ UNCHANGED <<master, termSent>>

\* Mutant of AllKilled: the kill loop leaves out the last child.
AllButOneKilled ==
    /\ master = "stopping" /\ next >= Workers
    /\ master' = "reaping" /\ next' = 1
    /\ UNCHANGED <<worker, termSent>>

\* Mutant of AllKilled: the children are not waited for.
KilledUnreaped ==
    /\ master = "stopping" /\ next > Workers
    /\ master' = "exited"
    /\ UNCHANGED <<next, worker, termSent>>

AllKilled ==
    /\ master = "stopping" /\ next > Workers
    /\ master' = "reaping" /\ next' = 1
    /\ UNCHANGED <<worker, termSent>>

\* for mut child in children { child.wait() }: blocks until the child is dead.
Wait ==
    /\ master = "reaping" /\ next <= Workers
    /\ worker[next] = "dead"
    /\ worker' = [worker EXCEPT ![next] = "reaped"]
    /\ next' = next + 1
    /\ UNCHANGED <<master, termSent>>

Exit ==
    /\ master = "reaping" /\ next > Workers
    /\ master' = "exited"
    /\ UNCHANGED <<next, worker, termSent>>

-----------------------------------------------------------------------------
(* Its surroundings.                                                        *)

\* kill -TERM <master-pid>, once.
Terminate ==
    /\ master \in Running /\ ~termSent
    /\ termSent' = TRUE
    /\ \/ /\ master \in {"spawning", "starting_runtime"}
          /\ master' = "killed" /\ UNCHANGED next
       \/ /\ master = "waiting"
          /\ master' = "stopping" /\ next' = 1
       \/ /\ master \in {"stopping", "reaping"}
          /\ UNCHANGED <<master, next>>
    /\ UNCHANGED worker

\* ctrl-c in the terminal: SIGINT to the master and, as they are in its
\* process group and handle no signal, to the workers.
Interrupt ==
    /\ master \in Running
    /\ \/ /\ master \in {"spawning", "starting_runtime"}
          /\ master' = "killed" /\ UNCHANGED next
       \/ /\ master = "waiting"
          /\ master' = "stopping" /\ next' = 1
       \/ /\ master \in {"stopping", "reaping"}
          /\ UNCHANGED <<master, next>>
    /\ worker' = [w \in Worker |-> IF Alive(w) THEN "dead" ELSE worker[w]]
    /\ UNCHANGED termSent

\* server::run binds every listener of the worker without yielding, so that
\* the worker accepts on all of them or ends with an error.
WorkerServes(w) ==
    /\ worker[w] = "starting"
    /\ worker' = [worker EXCEPT ![w] = "serving"]
    /\ UNCHANGED <<master, next, termSent>>

\* A bind, a certificate or a log file fails, or the process dies later on.
\* Nobody notices: the master looks at its children only to stop them.
WorkerDies(w) ==
    /\ Alive(w)
    /\ worker' = [worker EXCEPT ![w] = "dead"]
    /\ UNCHANGED <<master, next, termSent>>

MasterStep ==
    \/ Spawn \/ SpawnFails \/ AllSpawned \/ Listen
    \/ Kill \/ AllKilled \/ Wait \/ Exit

MasterNext ==
    \/ MasterStep
    \/ Terminate \/ Interrupt
    \/ \E w \in Worker : WorkerServes(w) \/ WorkerDies(w)

MasterSpec == MasterInit /\ [][MasterNext]_masterVars

\* The master runs; a worker starts or dies as it likes.
MasterFairSpec == MasterSpec /\ WF_masterVars(MasterStep)

-----------------------------------------------------------------------------
(* Properties.                                                              *)

\* A master that got through its shutdown leaves no worker behind, alive or
\* zombie, whichever of them died before or during it.
CleanExit == master = "exited" => \A w \in Worker : worker[w] = "reaped"

\* No worker is waited for before it was sent a kill or died: the reaping
\* loop never blocks on one that goes on serving.
ReapsOnlyDead == master = "reaping" => \A w \in Worker : ~Alive(w)

\* Once the signal has been received the shutdown comes to its end: the two
\* loops block on no child.
ShutdownEnds == master = "stopping" ~> master = "exited"

\* wiki/features.md: kill -TERM <master-pid> stops workers.
TermStopsWorkers == termSent ~> \A w \in Worker : ~Alive(w)

=============================================================================
