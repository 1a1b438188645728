-------------------------- MODULE MethaneProcesses --------------------------
(***************************************************************************)
(* as5: main() forks ATOM_COUNT atoms of random kind, each of which runs   *)
(* the program carbon or hydrogen, adds the hydrogens that are missing,    *)
(* waits for the children and removes the shared memory and the            *)
(* semaphores.  The atoms follow MethaneBarrier; once the semaphores are   *)
(* gone their semop calls fail, which my_sem_wait and my_sem_sig ignore.   *)
(*                                                                         *)
(* The decimal ids that main passes to the atoms are taken to arrive       *)
(* intact.                                                                 *)
(***************************************************************************)
EXTENDS MethaneBarrier

CONSTANTS
  ATOM_COUNT,        \* atoms of the first loop: 25 in the code
  ForkMayFail,       \* whether fork can fail
  MaxExecFailures    \* bound: atoms whose execl fails

\* The atoms bound the draws: rand() may be odd while there is a carbon left.
ASSUME ProcessAssumption ==
  /\ ATOM_COUNT \in Nat
  /\ Cardinality(Carbon) + Cardinality(Hydrogen) >= ATOM_COUNT
  /\ Cardinality(Hydrogen) >= Valence * Cardinality(Carbon)
  /\ ForkMayFail \in BOOLEAN
  /\ MaxExecFailures \in Nat

VARIABLES
  main,         \* where main() is
  i,            \* its loop variable, which all three loops use
  carb_count,   \* carbons forked by the first loop
  hydro_count,  \* hydrogens forked by the first loop
  ipc           \* the IPC objects that exist

mainVars == <<main, i, carb_count, hydro_count, ipc>>
vars == <<barrierVars, mainVars>>

\* semget, semctl, shmget and shmat have succeeded: before the first fork a
\* failure just ends the program.
ProcInit ==
  /\ Init
  /\ main = "spawn"
  /\ i = 0
  /\ carb_count = 0
  /\ hydro_count = 0
  /\ ipc = {"shm", "sem"}

-----------------------------------------------------------------------------
(* main() *)

\* fork() succeeds: the next process id of kind K comes to life.
Fork(K) == At(K, {"unborn"}) # {} /\ Spawn(CHOOSE a \in At(K, {"unborn"}) : TRUE)

\* rand() is odd.
SpawnCarbon ==
  /\ main = "spawn" /\ i < ATOM_COUNT
  /\ Fork(Carbon)
  /\ i' = i + 1
  /\ carb_count' = carb_count + 1
  /\ UNCHANGED <<main, hydro_count, ipc>>

\* rand() is even.
SpawnHydrogen ==
  /\ main = "spawn" /\ i < ATOM_COUNT
  /\ Fork(Hydrogen)
  /\ i' = i + 1
  /\ hydro_count' = hydro_count + 1
  /\ UNCHANGED <<main, carb_count, ipc>>

num_hydro_left ==
  LET num_carb_satisfied == hydro_count \div Valence
      hydro_left_over    == hydro_count % Valence
      num_carb_left      == carb_count - num_carb_satisfied
  IN  num_carb_left * Valence - hydro_left_over

\* Mutant: forgets the extra hydrogens.
first_atom_count == ATOM_COUNT

total_atom_count == ATOM_COUNT + num_hydro_left

EndSpawning ==
  /\ main = "spawn" /\ i = ATOM_COUNT
  /\ main' = "compensate"
  /\ i' = 0
  /\ UNCHANGED <<barrierVars, carb_count, hydro_count, ipc>>

SpawnExtraHydrogen ==
  /\ main = "compensate" /\ i < num_hydro_left
  /\ Fork(Hydrogen)
  /\ i' = i + 1
  /\ UNCHANGED <<main, carb_count, hydro_count, ipc>>

EndCompensation ==
  /\ main = "compensate" /\ i >= num_hydro_left
  /\ main' = "reap"
  /\ i' = 0
  /\ UNCHANGED <<barrierVars, carb_count, hydro_count, ipc>>

\* fork() returns -1 in one of the two loops: exit(EXIT_FAILURE) at once.
ForkFails ==
  /\ ForkMayFail
  /\ \/ main = "spawn" /\ i < ATOM_COUNT
     \/ main = "compensate" /\ i < num_hydro_left
  /\ main' = "failed"
  /\ UNCHANGED <<barrierVars, i, carb_count, hydro_count, ipc>>

Ended == At(Atom, {"exit", "failed", "crashed", "expelled"})

\* wait(0) takes any child that has ended.  That it returns -1, where main would
\* exit before the removal (as5.c:145-148), cannot be: it does so only without
\* children, and main never waits for more of them than it forked.
Reap ==
  /\ main = "reap" /\ i < total_atom_count
  /\ i < Cardinality(Ended)
  /\ i' = i + 1
  /\ UNCHANGED <<barrierVars, main, carb_count, hydro_count, ipc>>

EndReaping ==
  /\ main = "reap" /\ i >= total_atom_count
  /\ main' = "rmshm"
  /\ UNCHANGED <<barrierVars, i, carb_count, hydro_count, ipc>>

RemoveShm ==
  /\ main = "rmshm"
  /\ main' = "rmsem"
  /\ ipc' = ipc \ {"shm"}
  /\ UNCHANGED <<barrierVars, i, carb_count, hydro_count>>

\* Mutant: main ends without removing the semaphores.
KeepSem ==
  /\ main = "rmsem"
  /\ main' = "exited"
  /\ UNCHANGED <<barrierVars, i, carb_count, hydro_count, ipc>>

RemoveSem ==
  /\ main = "rmsem"
  /\ main' = "exited"
  /\ ipc' = ipc \ {"sem"}
  /\ UNCHANGED <<barrierVars, i, carb_count, hydro_count>>

MainStep ==
  \/ SpawnCarbon
  \/ SpawnHydrogen
  \/ EndSpawning
  \/ SpawnExtraHydrogen
  \/ EndCompensation
  \/ Reap
  \/ EndReaping
  \/ RemoveShm
  \/ RemoveSem

-----------------------------------------------------------------------------
(* The atoms *)

\* execl does not find the program: the child ends without having run.
ExecFails(a) ==
  /\ Count(Atom, {"failed"}) < MaxExecFailures
  /\ Goto(a, "entry", "failed")
  /\ UNCHANGED <<sem, waiting_c, waiting_h, signalled, molecules, mainVars>>

\* The steps of the barrier that call semop, while the semaphores exist.
SemStep(a) ==
  /\ "sem" \in ipc
  /\ \/ Lock(a)
     \/ HandH(a)
     \/ HandC(a)
     \/ Unlock(a)
     \/ UnlockWait(a)
     \/ Wake(a)
  /\ UNCHANGED mainVars

\* The steps that only touch the shared memory.
MemStep(a) ==
  /\ Bond(a) \/ Queue(a) \/ TakeH(a) \/ TakeC(a)
  /\ UNCHANGED mainVars

\* The semaphores are gone: semop fails, and the atom carries on as if the
\* wait or the signal had succeeded.  (Atoms can then run between wait(S) and
\* sig(S) together; what they would race on, nobody reads any more.)
LateStep(a) ==
  /\ "sem" \notin ipc
  /\ \/ /\ \/ Goto(a, "entry", "check")
           \/ Goto(a, "handC", "takeC")
           \/ Goto(a, "unlock", "exit")
           \/ Goto(a, "unlockwait", "wait")
           \/ Goto(a, "wait", "expelled")
        /\ UNCHANGED signalled
     \/ /\ pc[a] = "hand" /\ signalled[a] < Partners(a)
        /\ signalled' = [signalled EXCEPT ![a] = @ + 1]
        /\ UNCHANGED pc
  /\ UNCHANGED <<sem, waiting_c, waiting_h, molecules, mainVars>>

\* main has exited before the atom attached the shared memory: shmat returns
\* -1, which the test for < 0 of a pointer lets through.
LateAttach(a) ==
  /\ main = "exited"
  /\ Goto(a, "entry", "crashed")
  /\ UNCHANGED <<sem, waiting_c, waiting_h, signalled, molecules, mainVars>>

ProcessStep(a) == SemStep(a) \/ MemStep(a) \/ LateStep(a) \/ LateAttach(a)

ProcNext ==
  \/ MainStep
  \/ ForkFails
  \/ \E a \in Atom : ExecFails(a) \/ ProcessStep(a)

ProcSpec == ProcInit /\ [][ProcNext]_vars

\* main and the atoms are processes of a fair scheduler; failures may but need
\* not happen.
ProcFairSpec ==
  ProcSpec /\ WF_vars(MainStep) /\ \A a \in Atom : WF_vars(ProcessStep(a))

-----------------------------------------------------------------------------
(* Properties *)

Spawned == {a \in Atom : pc[a] # "unborn"}
Failed == main = "failed" \/ At(Atom, {"failed"}) # {}

\* The mutex and the tokens stay sound as long as the semaphores exist, and
\* they are removed only when every carbon has crossed with its hydrogens: the
\* number of children waited for counts whole molecules, even for a draw with
\* too many hydrogens.
RemovedOnlyWhenBonded ==
  ipc # {"shm", "sem"} /\ ~ Failed =>
    /\ Spawned \cap Carbon \subseteq At(Carbon, {"exit"})
    /\ Count(Hydrogen, {"exit"}) = Valence * carb_count

SoundWhileSemaphoresExist ==
  "sem" \in ipc => MutualExclusion /\ TokensMatchWaiters /\ NoMissedMolecule

\* Where main is over, or wait(0) blocks it for want of a child that has ended.
MainWaits ==
  \/ main \in {"exited", "failed"}
  \/ main = "reap" /\ i < total_atom_count /\ i >= Cardinality(Ended)

\* Nobody goes on but by a failure: every process is over or blocked.  Semaphores
\* that are gone block nobody.
Stuck == MainWaits /\ \A a \in Spawned \ Ended : "sem" \in ipc /\ Blocked(a)

\* Only a failed fork or execl can leave processes blocked for good, and then
\* no whole molecule is among the blocked ones.
StuckOnlyByFailure ==
  Stuck =>
    \/ main = "exited" /\ Spawned = Ended
    \/ /\ Failed
       /\ sem["SC"] = 0 /\ sem["SH"] = 0
       /\ waiting_c = 0 \/ waiting_h < Valence

\* Whatever the draw, main and every atom end if no fork or execl fails; surplus
\* hydrogens are let go by the removal of the semaphores (as5.c:141-165).  After
\* a failure everybody goes on until nobody can.
EverybodyEnds ==
  <>(\/ main = "exited" /\ Spawned = Ended
     \/ Failed /\ Stuck)

=============================================================================
