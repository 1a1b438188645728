----------------------- MODULE MethaneProcessesProofs -----------------------
(***************************************************************************)
(* Proofs about main of as5, for any finite number of atoms, any valence   *)
(* and any draw, forks and execs failing or not.  While the semaphores     *)
(* exist the barrier keeps its invariant, whatever main does; what main    *)
(* has counted when it removes the IPC objects adds up to whole molecules, *)
(* and the atoms that are late then cannot spoil them.  Nobody is left     *)
(* blocked for good unless a fork or an exec failed.                       *)
(***************************************************************************)
EXTENDS MethaneProcesses, MethaneBarrierProofs

-----------------------------------------------------------------------------
(* The inductive invariant *)

PhaseInv ==
  /\ main \in {"spawn", "compensate", "reap", "rmshm", "rmsem", "exited", "failed"}
  /\ ipc \subseteq {"shm", "sem"}
  /\ "shm" \in ipc <=> main \notin {"rmsem", "exited"}
  /\ "sem" \in ipc <=> main # "exited"
  /\ i \in Nat /\ carb_count \in Nat /\ hydro_count \in Nat
  /\ pc \in [Atom -> Stage]

\* Until the semaphores are removed, no atom dies in its main or is expelled.
SemInv ==
  "sem" \in ipc => BarrierInv /\ At(Atom, {"crashed", "expelled"}) = {}

\* main has counted what it forked.
DrawInv ==
  /\ Count(Carbon, Alive) = carb_count
  /\ main = "spawn" => carb_count + hydro_count = i
  /\ main \notin {"spawn", "failed"} => carb_count + hydro_count = ATOM_COUNT

\* When main starts to wait, it has forked the hydrogens that its carbons need.
HydroInv ==
  /\ main = "spawn" => Count(Hydrogen, Alive) = hydro_count
  /\ main = "compensate" => Count(Hydrogen, Alive) = hydro_count + i
  /\ main = "reap" => Count(Hydrogen, Alive) >= Valence * carb_count

\* As many children have ended as were reaped.
ReapInv ==
  /\ main \in {"reap", "rmshm", "rmsem", "exited"} => i <= Cardinality(Ended)
  /\ main \in {"rmshm", "rmsem", "exited"} => i >= total_atom_count

\* Nobody is left whom the atoms still under way could release.
LateInv ==
  main = "exited" /\ ~ Failed =>
    /\ \A a \in Atom : pc[a] \notin Bonding
    /\ \A a \in Carbon : pc[a] \in {"unborn", "exit"}
    /\ waiting_c = 0
    /\ Count(Hydrogen, {"exit"}) = Valence * carb_count

ProcInv == PhaseInv /\ SemInv /\ DrawInv /\ HydroInv /\ ReapInv /\ LateInv

-----------------------------------------------------------------------------
(* The steps as seen by the atoms *)

\* The stages an atom may be at after each stage.
Follows(from, to) ==
  /\ from \in Stage /\ to \in Stage
  /\ from # "unborn" => to # "unborn"
  /\ from \in {"exit", "failed", "crashed", "expelled"} => to = from

\* An atom that forks, runs, or dies moves alone.
LEMMA AtomMoves ==
  ASSUME PhaseInv, NEW a \in Atom, Spawn(a) \/ ExecFails(a) \/ ProcessStep(a)
  PROVE  \E to \in Stage :
           /\ pc' = [pc EXCEPT ![a] = to]
           /\ Follows(pc[a], to)
           /\ ExecFails(a) \/ ProcessStep(a) => pc[a] # "unborn"
<1> USE DEF PhaseInv, Stage, Goto, Follows
<1>1. CASE Spawn(a)
  BY <1>1 DEF Spawn, ExecFails, ProcessStep, SemStep, MemStep, LateStep, LateAttach,
     Lock, HandH, HandC, Unlock, UnlockWait, Wake, Bond, Queue, TakeH, TakeC
<1>2. CASE ExecFails(a) \/ LateAttach(a)
  BY <1>2 DEF ExecFails, LateAttach
<1>3. CASE SemStep(a)
  BY <1>3 DEF SemStep, Lock, HandH, HandC, Unlock, UnlockWait, Wake
<1>4. CASE MemStep(a)
  BY <1>4 DEF MemStep, Bond, Queue, TakeH, TakeC
<1>5. CASE LateStep(a)
  BY <1>5 DEF LateStep
<1> QED
  BY <1>1, <1>2, <1>3, <1>4, <1>5 DEF ProcessStep

\* The process that a successful fork starts.
LEMMA ForkSpawns ==
  ASSUME NEW K \in SUBSET Atom, Fork(K)
  PROVE  \E a \in K : Spawn(a)
BY DEF Fork, At

\* Every step of the system: a fork, a step of main alone, a step of an atom.
LEMMA ProcCases ==
  ASSUME [ProcNext]_vars
  PROVE  \/ SpawnCarbon /\ \E a \in Carbon : Spawn(a)
         \/ (SpawnHydrogen \/ SpawnExtraHydrogen) /\ \E a \in Hydrogen : Spawn(a)
         \/ /\ UNCHANGED barrierVars
            /\ \/ EndSpawning \/ EndCompensation \/ Reap \/ EndReaping \/ RemoveShm
               \/ RemoveSem \/ ForkFails \/ UNCHANGED mainVars
         \/ UNCHANGED mainVars /\ \E a \in Atom : ExecFails(a) \/ ProcessStep(a)
<1>1. SpawnCarbon => \E a \in Carbon : Spawn(a)
  BY ForkSpawns DEF SpawnCarbon, Atom
<1>2. SpawnHydrogen \/ SpawnExtraHydrogen => \E a \in Hydrogen : Spawn(a)
  BY ForkSpawns DEF SpawnHydrogen, SpawnExtraHydrogen, Atom
<1>3. EndSpawning \/ EndCompensation \/ Reap \/ EndReaping \/ RemoveShm \/ RemoveSem
        \/ ForkFails => UNCHANGED barrierVars
  BY DEF EndSpawning, EndCompensation, Reap, EndReaping, RemoveShm, RemoveSem, ForkFails
<1>4. ASSUME NEW a \in Atom, ExecFails(a) \/ ProcessStep(a)
      PROVE  UNCHANGED mainVars
  BY <1>4 DEF ExecFails, ProcessStep, SemStep, MemStep, LateStep, LateAttach, mainVars
<1> QED
  BY <1>1, <1>2, <1>3, <1>4 DEF ProcNext, MainStep, vars

\* What has ended stays so.
LEMMA EndedGrows ==
  ASSUME PhaseInv, [ProcNext]_vars
  PROVE  /\ Ended \subseteq Ended'
         /\ Cardinality(Ended) \in Nat /\ Cardinality(Ended)' \in Nat
         /\ Cardinality(Ended) <= Cardinality(Ended)'
         /\ At(Atom, {"failed"}) \subseteq At(Atom, {"failed"})'
<1>1. ASSUME NEW a \in Atom, Spawn(a) \/ ExecFails(a) \/ ProcessStep(a)
      PROVE  Ended \subseteq Ended' /\ At(Atom, {"failed"}) \subseteq At(Atom, {"failed"})'
  BY <1>1, AtomMoves DEF Ended, At, Follows, PhaseInv
<1>2. ASSUME UNCHANGED barrierVars
      PROVE  Ended \subseteq Ended' /\ At(Atom, {"failed"}) \subseteq At(Atom, {"failed"})'
  BY <1>2 DEF barrierVars, Ended, At
<1>3. \/ \E a \in Atom : Spawn(a) \/ ExecFails(a) \/ ProcessStep(a)
      \/ UNCHANGED barrierVars
  BY ProcCases DEF Atom
<1>4. Ended \subseteq Ended' /\ At(Atom, {"failed"}) \subseteq At(Atom, {"failed"})'
  BY <1>1, <1>2, <1>3
<1>5. IsFiniteSet(Ended) /\ IsFiniteSet(Ended')
  <2>1. IsFiniteSet(Atom)
    BY FS_Union, AtomAssumption DEF Atom
  <2> QED
    BY <2>1, FS_Subset DEF Ended, At
<1>6. Cardinality(Ended)' = Cardinality(Ended')
  BY DEF Cardinality
<1> QED
  BY <1>4, <1>5, <1>6, FS_Subset, FS_CardinalityType

-----------------------------------------------------------------------------
(* One conjunct at a time *)

LEMMA PhaseKept ==
  ASSUME PhaseInv, [ProcNext]_vars
  PROVE  PhaseInv'
<1>1. pc' \in [Atom -> Stage]
  <2>1. ASSUME NEW a \in Atom, Spawn(a) \/ ExecFails(a) \/ ProcessStep(a)
        PROVE  pc' \in [Atom -> Stage]
    BY <2>1, AtomMoves DEF PhaseInv
  <2> QED
    BY <2>1, ProcCases DEF PhaseInv, barrierVars, Atom
<1> USE DEF PhaseInv
<1>2. CASE SpawnCarbon
  BY <1>1, <1>2 DEF SpawnCarbon
<1>3. CASE SpawnHydrogen
  BY <1>1, <1>3 DEF SpawnHydrogen
<1>4. CASE SpawnExtraHydrogen
  BY <1>1, <1>4 DEF SpawnExtraHydrogen
<1>5. CASE EndSpawning
  BY <1>1, <1>5 DEF EndSpawning
<1>6. CASE EndCompensation
  BY <1>1, <1>6 DEF EndCompensation
<1>7. CASE Reap
  BY <1>1, <1>7 DEF Reap
<1>8. CASE EndReaping
  BY <1>1, <1>8 DEF EndReaping
<1>9. CASE ForkFails
  BY <1>1, <1>9 DEF ForkFails
<1>10. CASE RemoveShm \/ RemoveSem
  BY <1>1, <1>10 DEF RemoveShm, RemoveSem
<1>11. CASE UNCHANGED mainVars
  BY <1>1, <1>11 DEF mainVars
<1> QED
  BY <1>2, <1>3, <1>4, <1>5, <1>6, <1>7, <1>8, <1>9, <1>10, <1>11,
     ProcCases

\* An atom whose exec fails was not at the barrier, which does not notice.
LEMMA ExecKeepsBarrier ==
  ASSUME BarrierInv, NEW a \in Atom, ExecFails(a)
  PROVE  BarrierInv'
<1>1. /\ pc[a] = "entry" /\ pc' = [pc EXCEPT ![a] = "failed"]
      /\ UNCHANGED <<sem, waiting_c, waiting_h, signalled, molecules>>
  BY DEF ExecFails, Goto
<1>2. pc \in [Atom -> Stage]
  BY DEF BarrierInv, TypeOK
<1>3. ASSUME NEW K \in SUBSET Atom, NEW T, "entry" \notin T, "failed" \notin T
      PROVE  At(K, T)' = At(K, T) /\ Count(K, T)' = Count(K, T)
  BY <1>1, <1>2, <1>3 DEF At, Count
<1>4. /\ Carbon \in SUBSET Atom /\ Hydrogen \in SUBSET Atom
      /\ \A T \in {Holding, Bonding, Queued} : "entry" \notin T /\ "failed" \notin T
  BY DEF Atom, Holding, Bonding, Queued
<1>5. TypeOK'
  BY <1>1 DEF BarrierInv, TypeOK, Stage
<1>6. MutualExclusion'
  BY <1>1, <1>3, <1>4 DEF BarrierInv, MutualExclusion
<1>7. LoopInv' /\ BonderInv' /\ NoMissedMolecule'
  BY <1>1, <1>2 DEF BarrierInv, LoopInv, BonderInv, Enough, Atom, NoMissedMolecule
<1>8. TokenInv'
  <2>1. /\ At(Atom, {"hand"})' = At(Atom, {"hand"})
        /\ Count(Hydrogen, Queued)' = Count(Hydrogen, Queued)
        /\ Count(Carbon, Queued)' = Count(Carbon, Queued)
        /\ Count(Hydrogen, {"takeC"})' = Count(Hydrogen, {"takeC"})
    BY <1>3, <1>4
  <2> QED
    BY <1>1, <2>1 DEF BarrierInv, TokenInv
<1>9. MoleculeInv'
  <2>1. /\ At(Atom, {"hand"})' = At(Atom, {"hand"})
        /\ Count(Hydrogen, {"hand", "handC", "takeC"})' = Count(Hydrogen, {"hand", "handC", "takeC"})
        /\ Tested(Hydrogen)' = Tested(Hydrogen) /\ Tested(Carbon)' = Tested(Carbon)
    BY <1>3, <1>4 DEF Tested
  <2> QED
    BY <1>1, <2>1 DEF BarrierInv, MoleculeInv
<1> QED
  BY <1>5, <1>6, <1>7, <1>8, <1>9 DEF BarrierInv

\* While there are semaphores the atoms follow the barrier, or never started.
LEMMA SemKept ==
  ASSUME PhaseInv, SemInv, [ProcNext]_vars
  PROVE  SemInv'
<1> SUFFICES ASSUME "sem" \in ipc'
             PROVE  BarrierInv' /\ At(Atom, {"crashed", "expelled"})' = {}
  BY DEF SemInv
<1>1. "sem" \in ipc /\ main # "exited"
  BY ProcCases DEF PhaseInv, SpawnCarbon, SpawnHydrogen, SpawnExtraHydrogen, EndSpawning,
     EndCompensation, Reap, EndReaping, RemoveShm, RemoveSem, ForkFails, mainVars
<1>2. BarrierInv /\ \A a \in Atom : pc[a] \notin {"crashed", "expelled"}
  BY <1>1 DEF SemInv, At
<1>3. CASE UNCHANGED barrierVars
  BY <1>2, <1>3, BarrierStutter DEF barrierVars, At
<1>4. ASSUME NEW a \in Atom, Spawn(a)
      PROVE  BarrierInv' /\ At(Atom, {"crashed", "expelled"})' = {}
  BY <1>2, <1>4, BarrierStep DEF Spawn, Goto, At, PhaseInv
<1>5. ASSUME NEW a \in Atom, ExecFails(a)
      PROVE  BarrierInv' /\ At(Atom, {"crashed", "expelled"})' = {}
  BY <1>2, <1>5, ExecKeepsBarrier DEF ExecFails, Goto, At, PhaseInv
<1>6. ASSUME NEW a \in Atom, ProcessStep(a)
      PROVE  BarrierInv' /\ At(Atom, {"crashed", "expelled"})' = {}
  <2>1. AtomStep(a)
    BY <1>1, <1>6 DEF ProcessStep, SemStep, MemStep, LateStep, LateAttach, AtomStep
  <2>2. At(Atom, {"crashed", "expelled"})' = {}
    BY <1>2, <2>1 DEF At, AtomStep, Goto, Lock, Bond, Queue, HandH, TakeH, HandC, TakeC,
       Unlock, UnlockWait, Wake, PhaseInv
  <2> QED
    BY <1>2, <2>1, <2>2, BarrierStep
<1> QED
  BY <1>3, <1>4, <1>5, <1>6, ProcCases DEF Atom

-----------------------------------------------------------------------------
(* What main has counted *)

LEMMA MissingHydrogens ==
  ASSUME PhaseInv
  PROVE  num_hydro_left = Valence * carb_count - hydro_count
BY LeftOver DEF PhaseInv, num_hydro_left

LEMMA DrawKept ==
  ASSUME PhaseInv, DrawInv, [ProcNext]_vars
  PROVE  DrawInv'
<1> DEFINE n == Count(Carbon, Alive)
<1>1. /\ n \in Nat /\ Carbon \in SUBSET Atom
      /\ n = CountIn(pc, Carbon, Alive) /\ n' = CountIn(pc', Carbon, Alive)
  BY CountType, CountInState DEF Atom
<1>2. ASSUME NEW a \in Atom, Spawn(a)
      PROVE  n' = IF a \in Carbon THEN n + 1 ELSE n
  <2>1. /\ pc[a] = "unborn" /\ pc' = [pc EXCEPT ![a] = "entry"]
        /\ "unborn" \notin Alive /\ "entry" \in Alive
    BY <1>2 DEF Spawn, Goto, Alive, Stage
  <2>2. Moved(a, pc[a], "entry")
    BY <2>1, CountMovePc DEF PhaseInv
  <2> QED
    BY <1>1, <2>1, <2>2 DEF Moved
<1>3. ASSUME NEW a \in Atom, ExecFails(a) \/ ProcessStep(a)
      PROVE  n' = n
  <2>1. PICK to \in Stage : /\ pc' = [pc EXCEPT ![a] = to]
                            /\ pc[a] \in Alive /\ to \in Alive
    BY <1>3, AtomMoves DEF Alive, Follows
  <2>2. Moved(a, pc[a], to)
    BY <2>1, CountMovePc DEF PhaseInv
  <2> QED
    BY <1>1, <2>1, <2>2 DEF Moved
<1>4. UNCHANGED barrierVars => n' = n
  BY CountStays DEF barrierVars
<1>5. /\ n = carb_count
      /\ main = "spawn" => carb_count + hydro_count = i
      /\ main \notin {"spawn", "failed"} => carb_count + hydro_count = ATOM_COUNT
  BY DEF DrawInv
<1>6. DrawInv' <=> /\ n' = carb_count'
                   /\ main' = "spawn" => carb_count' + hydro_count' = i'
                   /\ main' \notin {"spawn", "failed"} => carb_count' + hydro_count' = ATOM_COUNT
  BY DEF DrawInv
<1>7. i \in Nat /\ carb_count \in Nat /\ hydro_count \in Nat
  BY DEF PhaseInv
<1> HIDE DEF n
<1>8. CASE SpawnCarbon /\ \E a \in Carbon : Spawn(a)
  <2>1. n' = n + 1
    BY <1>1, <1>2, <1>8
  <2> QED
    BY <1>5, <1>6, <1>7, <1>8, <2>1 DEF SpawnCarbon
<1>9. ASSUME NEW a \in Hydrogen, Spawn(a)
      PROVE  n' = n
  BY <1>2, <1>9, AtomAssumption DEF Atom
<1>10. CASE SpawnHydrogen /\ \E a \in Hydrogen : Spawn(a)
  BY <1>9, <1>5, <1>6, <1>7, <1>10 DEF SpawnHydrogen
<1>11. CASE SpawnExtraHydrogen /\ \E a \in Hydrogen : Spawn(a)
  BY <1>9, <1>5, <1>6, <1>7, <1>11 DEF SpawnExtraHydrogen
<1>12. CASE EndSpawning
  BY <1>4, <1>5, <1>6, <1>7, <1>12 DEF EndSpawning
<1>13. CASE EndCompensation
  BY <1>4, <1>5, <1>6, <1>7, <1>13 DEF EndCompensation
<1>14. CASE Reap
  BY <1>4, <1>5, <1>6, <1>7, <1>14 DEF Reap
<1>15. CASE EndReaping
  BY <1>4, <1>5, <1>6, <1>7, <1>15 DEF EndReaping
<1>16. CASE ForkFails
  BY <1>4, <1>5, <1>6, <1>7, <1>16 DEF ForkFails
<1>17. CASE RemoveShm
  BY <1>4, <1>5, <1>6, <1>7, <1>17 DEF RemoveShm
<1>18. CASE RemoveSem
  BY <1>4, <1>5, <1>6, <1>7, <1>18 DEF RemoveSem
<1>19. CASE UNCHANGED mainVars /\ n' = n
  BY <1>5, <1>6, <1>19 DEF mainVars
<1> QED
  BY <1>3, <1>4, <1>8, <1>10, <1>11, <1>12, <1>13, <1>14, <1>15, <1>16, <1>17, <1>18, <1>19,
     ProcCases

\* The hydrogens are forked by both loops, the second of which runs until none
\* is missing.
LEMMA HydroKept ==
  ASSUME PhaseInv, HydroInv, [ProcNext]_vars
  PROVE  HydroInv'
<1> DEFINE n == Count(Hydrogen, Alive)
           v == Valence * carb_count
<1>1. /\ n \in Nat /\ Hydrogen \in SUBSET Atom
      /\ n = CountIn(pc, Hydrogen, Alive) /\ n' = CountIn(pc', Hydrogen, Alive)
  BY CountType, CountInState DEF Atom
<1>2. ASSUME NEW a \in Atom, Spawn(a)
      PROVE  n' = IF a \in Hydrogen THEN n + 1 ELSE n
  <2>1. /\ pc[a] = "unborn" /\ pc' = [pc EXCEPT ![a] = "entry"]
        /\ "unborn" \notin Alive /\ "entry" \in Alive
    BY <1>2 DEF Spawn, Goto, Alive, Stage
  <2>2. Moved(a, pc[a], "entry")
    BY <2>1, CountMovePc DEF PhaseInv
  <2> QED
    BY <1>1, <2>1, <2>2 DEF Moved
<1>3. ASSUME NEW a \in Atom, ExecFails(a) \/ ProcessStep(a)
      PROVE  n' = n
  <2>1. PICK to \in Stage : /\ pc' = [pc EXCEPT ![a] = to]
                            /\ pc[a] \in Alive /\ to \in Alive
    BY <1>3, AtomMoves DEF Alive, Follows
  <2>2. Moved(a, pc[a], to)
    BY <2>1, CountMovePc DEF PhaseInv
  <2> QED
    BY <1>1, <2>1, <2>2 DEF Moved
<1>4. UNCHANGED barrierVars => n' = n
  BY CountStays DEF barrierVars
<1>5. /\ main = "spawn" => n = hydro_count
      /\ main = "compensate" => n = hydro_count + i
      /\ main = "reap" => n >= v
  BY DEF HydroInv
<1>6. HydroInv' <=> /\ main' = "spawn" => n' = hydro_count'
                    /\ main' = "compensate" => n' = hydro_count' + i'
                    /\ main' = "reap" => n' >= v'
  BY DEF HydroInv
<1>7. i \in Nat /\ carb_count \in Nat /\ hydro_count \in Nat /\ v \in Nat
  BY AtomAssumption DEF PhaseInv
<1>8. UNCHANGED carb_count => v' = v
  OBVIOUS
<1>9. num_hydro_left = v - hydro_count
  BY MissingHydrogens
<1> HIDE DEF n, v
<1>10. CASE SpawnCarbon /\ \E a \in Carbon : Spawn(a)
  <2>1. n' = n
    BY <1>2, <1>10, AtomAssumption DEF Atom
  <2> QED
    BY <1>5, <1>6, <1>10, <2>1 DEF SpawnCarbon
<1>11. ASSUME NEW a \in Hydrogen, Spawn(a)
       PROVE  n' = n + 1
  BY <1>1, <1>2, <1>11
<1>12. CASE SpawnHydrogen /\ \E a \in Hydrogen : Spawn(a)
  BY <1>5, <1>6, <1>7, <1>11, <1>12 DEF SpawnHydrogen
<1>13. CASE SpawnExtraHydrogen /\ \E a \in Hydrogen : Spawn(a)
  BY <1>1, <1>5, <1>6, <1>7, <1>11, <1>13 DEF SpawnExtraHydrogen
<1>14. CASE EndSpawning
  BY <1>4, <1>5, <1>6, <1>7, <1>14 DEF EndSpawning
<1>15. CASE EndCompensation
  <2>1. n' = n /\ v' = v /\ main' = "reap" /\ n = hydro_count + i /\ i >= num_hydro_left
    BY <1>4, <1>5, <1>8, <1>15 DEF EndCompensation
  <2>2. n >= v
    BY <1>7, <1>9, <2>1
  <2> QED
    BY <1>6, <2>1, <2>2
<1>16. CASE Reap
  BY <1>4, <1>5, <1>6, <1>8, <1>16 DEF Reap
<1>17. CASE EndReaping \/ RemoveShm \/ RemoveSem \/ ForkFails
  BY <1>6, <1>17 DEF EndReaping, RemoveShm, RemoveSem, ForkFails
<1>18. CASE UNCHANGED mainVars /\ n' = n
  BY <1>5, <1>6, <1>8, <1>18 DEF mainVars
<1> QED
  BY <1>3, <1>4, <1>10, <1>12, <1>13, <1>14, <1>15, <1>16, <1>17, <1>18, ProcCases

\* The loop of the reaper counts children that have ended, and is left when it
\* has counted all it waits for.
LEMMA ReapKept ==
  ASSUME PhaseInv, DrawInv, ReapInv, [ProcNext]_vars
  PROVE  ReapInv'
<1> DEFINE e == Cardinality(Ended)
<1>1. e \in Nat /\ e' \in Nat /\ e <= e'
  BY EndedGrows
<1> USE DEF PhaseInv, ReapInv
<1> HIDE DEF e
<1>2. ReapInv' <=> /\ main' \in {"reap", "rmshm", "rmsem", "exited"} => i' <= e'
                   /\ main' \in {"rmshm", "rmsem", "exited"} => i' >= total_atom_count'
  BY DEF e
<1>3. main \in {"reap", "rmshm", "rmsem", "exited"} => i <= e
  BY DEF e
<1>4. UNCHANGED <<carb_count, hydro_count>> => total_atom_count' = total_atom_count
  BY DEF total_atom_count, num_hydro_left
<1> HIDE DEF ReapInv
<1>5. CASE SpawnCarbon \/ SpawnHydrogen \/ SpawnExtraHydrogen
  BY <1>2, <1>5 DEF SpawnCarbon, SpawnHydrogen, SpawnExtraHydrogen
<1>6. CASE EndSpawning \/ ForkFails
  BY <1>2, <1>6 DEF EndSpawning, ForkFails
<1>7. CASE EndCompensation
  BY <1>1, <1>2, <1>7 DEF EndCompensation
<1>8. CASE Reap
  BY <1>1, <1>2, <1>8 DEF Reap, e
<1>9. CASE EndReaping
  BY <1>1, <1>2, <1>3, <1>4, <1>9 DEF EndReaping
<1>10. CASE RemoveShm \/ RemoveSem
  BY <1>1, <1>2, <1>3, <1>4, <1>10 DEF RemoveShm, RemoveSem, ReapInv
<1>11. CASE UNCHANGED mainVars
  BY <1>1, <1>2, <1>3, <1>4, <1>11 DEF mainVars, ReapInv
<1> QED
  BY <1>5, <1>6, <1>7, <1>8, <1>9, <1>10, <1>11, ProcCases

-----------------------------------------------------------------------------
(* Removal *)

\* Molecules are made of carbons that main has forked.
LEMMA MoleculesOfCarbons ==
  ASSUME PhaseInv, DrawInv, IInv
  PROVE  /\ Tested(Carbon) \in Nat
         /\ molecules <= Tested(Carbon)
         /\ Tested(Carbon) <= carb_count
<1> DEFINE B == {"hand", "handC", "takeC"}
           b == Count(Hydrogen, B)
           t == Tested(Carbon)
<1>1. Carbon \in SUBSET Atom /\ Hydrogen \in SUBSET Atom
  BY DEF Atom
<1>2. t \in Nat
  BY <1>1, CountType DEF Tested
<1>3. t <= carb_count
  <2>1. Arrived \cap Carbon \in SUBSET At(Carbon, Alive)
    BY <1>1 DEF Arrived, At, Bonding, Queued, Alive, Stage
  <2>2. IsFiniteSet(At(Carbon, Alive))
    BY <1>1, CountType
  <2>3. Cardinality(Arrived \cap Carbon) = t
    BY <1>1, ArrivedCount DEF IInv, BarrierInv
  <2> QED
    BY <2>1, <2>2, <2>3, FS_Subset DEF DrawInv, Count
<1>4. b <= waiting_c
  <2>1. CASE At(Hydrogen, B) = {}
    BY <2>1, FS_EmptySet DEF Count, IInv, BarrierInv, TypeOK
  <2>2. ASSUME NEW a \in At(Hydrogen, B)
        PROVE  b <= waiting_c
    <3>1. At(Hydrogen, B) = {a}
      BY <1>1, <2>2, Alone DEF At, Holding, Bonding, IInv
    <3>2. b = 1
      BY <3>1, FS_Singleton DEF Count
    <3>3. waiting_c >= 1
      BY <1>1, <2>2 DEF At, IInv, BarrierInv, BonderInv, Enough
    <3> QED
      BY <3>2, <3>3 DEF IInv, BarrierInv, TypeOK
  <2> QED
    BY <2>1, <2>2
<1>5. t = waiting_c + molecules - b
  BY DEF IInv, BarrierInv, MoleculeInv
<1>6. waiting_c \in Nat /\ molecules \in Nat /\ b \in Nat
  BY <1>1, CountType DEF IInv, BarrierInv, TypeOK
<1> HIDE DEF b, t
<1>7. molecules <= t
  BY <1>2, <1>4, <1>5, <1>6
<1> QED
  BY <1>2, <1>3, <1>7 DEF t

\* If nobody is lost, those who have ended have crossed.
LEMMA EndedExits ==
  ASSUME At(Atom, {"failed", "crashed", "expelled"}) = {}
  PROVE  Cardinality(Ended) = Count(Carbon, {"exit"}) + Count(Hydrogen, {"exit"})
<1> DEFINE C == At(Carbon, {"exit"})  H == At(Hydrogen, {"exit"})
<1>1. Ended = C \cup H
  BY DEF Ended, At, Atom
<1>2. C \cap H = {}
  BY AtomAssumption DEF At
<1>3. IsFiniteSet(C) /\ IsFiniteSet(H) /\ Cardinality(C) \in Nat /\ Cardinality(H) \in Nat
  BY CountType, FS_CardinalityType DEF Atom
<1> HIDE DEF C, H
<1>4. Cardinality(C \cup H) = Cardinality(C) + Cardinality(H) - Cardinality(C \cap H)
  BY <1>3, FS_Union
<1>5. Cardinality(C \cap H) = 0
  BY <1>2, FS_EmptySet
<1>6. Cardinality(C \cup H) = Cardinality(C) + Cardinality(H)
  BY <1>3, <1>4, <1>5
<1> QED
  BY <1>1, <1>6 DEF C, H, Count

\* When as many children have ended as the carbons and their hydrogens are, these
\* are the ones that have ended, and nobody is releasing anybody.
LEMMA RemovedWhenBonded ==
  ASSUME ProcInv, main \in {"rmshm", "rmsem"}, ~ Failed
  PROVE  /\ \A a \in Atom : pc[a] \notin Bonding
         /\ \A a \in Carbon : pc[a] \in {"unborn", "exit"}
         /\ waiting_c = 0
         /\ Count(Hydrogen, {"exit"}) = Valence * carb_count
<1> DEFINE ec == Count(Carbon, {"exit"})  eh == Count(Hydrogen, {"exit"})
           bc == Count(Carbon, Bonding)   bh == Count(Hydrogen, Bonding)
           vc == Valence * carb_count     vm == Valence * molecules
<1>1. Carbon \in SUBSET Atom /\ Hydrogen \in SUBSET Atom
  BY DEF Atom
<1>2. PhaseInv /\ DrawInv /\ ReapInv /\ IInv
  BY DEF ProcInv, PhaseInv, SemInv, IInv, NobodyLost, Failed, At
<1>3. /\ ec \in Nat /\ eh \in Nat /\ bc \in Nat /\ bh \in Nat
      /\ Valence \in Nat \ {0} /\ carb_count \in Nat /\ molecules \in Nat
      /\ hydro_count \in Nat /\ ATOM_COUNT \in Nat
  BY <1>1, <1>2, CountType, AtomAssumption, ProcessAssumption
     DEF PhaseInv, IInv, BarrierInv, TypeOK
<1>4. vc \in Nat /\ vm \in Nat
  BY <1>3
<1>5. total_atom_count = carb_count + vc
  <2>1. carb_count + hydro_count = ATOM_COUNT
    BY <1>2 DEF DrawInv
  <2>2. num_hydro_left = vc - hydro_count
    BY <1>2, MissingHydrogens
  <2> HIDE DEF vc
  <2> QED
    BY <1>3, <1>4, <2>1, <2>2 DEF total_atom_count
<1>6. Cardinality(Ended) = ec + eh
  BY <1>2, EndedExits DEF IInv, NobodyLost
<1>7. ec + eh >= carb_count + vc
  <2>1. i \in Nat /\ i <= ec + eh /\ i >= carb_count + vc
    BY <1>2, <1>5, <1>6 DEF ReapInv, PhaseInv
  <2> HIDE DEF ec, eh, vc
  <2> QED
    BY <1>3, <1>4, <2>1
<1>8. molecules <= carb_count
  BY <1>2, <1>3, MoleculesOfCarbons
<1>9. vm <= vc
  BY <1>3, <1>8
<1>10. bh + eh <= vm /\ bc + ec <= molecules
  BY <1>2, PlacesInMolecules DEF IInv
<1>11. eh = vc /\ ec = carb_count /\ bh = 0 /\ bc = 0 /\ molecules = carb_count
  <2> HIDE DEF ec, eh, bc, bh, vc, vm
  <2> QED
    BY <1>3, <1>4, <1>7, <1>8, <1>9, <1>10
<1>12. \A a \in Atom : pc[a] \notin Bonding
  <2>1. At(Carbon, Bonding) = {} /\ At(Hydrogen, Bonding) = {}
    BY <1>1, <1>11, CountType, FS_EmptySet DEF Count
  <2> QED
    BY <2>1 DEF At, Atom
<1>13. \A a \in Carbon : pc[a] \in {"unborn", "exit"}
  <2>1. At(Carbon, {"exit"}) \in SUBSET At(Carbon, Alive)
    BY DEF At, Alive, Stage
  <2>2. /\ IsFiniteSet(At(Carbon, Alive))
        /\ Cardinality(At(Carbon, Alive)) = Cardinality(At(Carbon, {"exit"}))
    <3>1. Count(Carbon, Alive) = Count(Carbon, {"exit"})
      BY <1>2, <1>11 DEF DrawInv
    <3> QED
      BY <1>1, <3>1, CountType DEF Count
  <2>3. At(Carbon, {"exit"}) = At(Carbon, Alive)
    BY <2>1, <2>2, FS_Subset
  <2> QED
    BY <1>2, <2>3 DEF At, Alive, PhaseInv, Atom
<1>14. waiting_c = 0
  <2>1. At(Carbon, Queued) = {} /\ At(Hydrogen, {"takeC"}) = {}
    BY <1>12, <1>13 DEF At, Queued, Bonding, Atom
  <2>2. Count(Carbon, Queued) = 0 /\ Count(Hydrogen, {"takeC"}) = 0
    BY <2>1, FS_EmptySet DEF Count
  <2>3. sem["SC"] \in Nat /\ waiting_c \in Nat
    BY <1>2 DEF IInv, BarrierInv, TypeOK, Semaphore
  <2>4. Count(Carbon, Queued) = sem["SC"] + waiting_c - Count(Hydrogen, {"takeC"})
    BY <1>2 DEF IInv, BarrierInv, TokenInv
  <2> QED
    BY <2>2, <2>3, <2>4
<1> QED
  BY <1>11, <1>12, <1>13, <1>14

\* After the removal the atoms still under way are hydrogens on their way out,
\* none of which can cross any more.
LEMMA LateKept ==
  ASSUME ProcInv, [ProcNext]_vars
  PROVE  LateInv'
<1> SUFFICES ASSUME main' = "exited", ~ Failed'
             PROVE  /\ \A a \in Atom : pc'[a] \notin Bonding
                    /\ \A a \in Carbon : pc'[a] \in {"unborn", "exit"}
                    /\ waiting_c' = 0
                    /\ Count(Hydrogen, {"exit"})' = Valence * carb_count'
  BY DEF LateInv
<1>1. PhaseInv /\ PhaseInv'
  BY PhaseKept DEF ProcInv
<1>2. At(Atom, {"failed"})' = {}
  BY DEF Failed
<1>3. main \in {"rmsem", "exited"} /\ ~ Failed
  <2>1. At(Atom, {"failed"}) = {}
    BY <1>1, <1>2, EndedGrows
  <2>2. main \in {"rmsem", "exited"}
    BY ProcCases DEF SpawnCarbon, SpawnHydrogen, SpawnExtraHydrogen, EndSpawning,
       EndCompensation, Reap, EndReaping, RemoveShm, RemoveSem, ForkFails, mainVars
  <2> QED
    BY <2>1, <2>2 DEF Failed
<1>4. /\ \A a \in Atom : pc[a] \notin Bonding
      /\ \A a \in Carbon : pc[a] \in {"unborn", "exit"}
      /\ waiting_c = 0
      /\ Count(Hydrogen, {"exit"}) = Valence * carb_count
  BY <1>3, RemovedWhenBonded DEF ProcInv, LateInv
<1>5. CASE UNCHANGED barrierVars /\ UNCHANGED carb_count
  BY <1>4, <1>5, CountStays DEF barrierVars
<1>6. ASSUME NEW a \in Atom, ExecFails(a) \/ ProcessStep(a), UNCHANGED mainVars
      PROVE  /\ a \in Hydrogen /\ waiting_c' = waiting_c
             /\ pc[a] \in {"entry", "check", "unlockwait", "wait"}
             /\ \E to \in {"check", "unlockwait", "wait", "expelled", "crashed"} :
                  pc' = [pc EXCEPT ![a] = to]
  <2>1. "sem" \notin ipc
    BY <1>1, <1>6 DEF PhaseInv, mainVars
  <2>2. ~ ExecFails(a)
    BY <1>1, <1>2 DEF ExecFails, Goto, At, PhaseInv
  <2>3. MemStep(a) \/ LateStep(a) \/ LateAttach(a)
    BY <1>6, <2>1, <2>2 DEF ProcessStep, SemStep
  <2>4. pc[a] \in {"entry", "check", "unlockwait", "wait"}
    BY <1>4, <2>3 DEF MemStep, LateStep, LateAttach, Bond, Queue, TakeH, TakeC, Goto, Bonding
  <2>5. a \in Hydrogen /\ a \notin Carbon
    BY <1>4, <2>4 DEF Atom
  <2>6. CASE Bond(a)
    BY <1>4, <2>5, <2>6 DEF Bond, Enough
  <2>7. CASE Queue(a)
    BY <2>4, <2>5, <2>7 DEF Queue, Goto
  <2>8. CASE TakeH(a) \/ TakeC(a)
    BY <2>4, <2>8 DEF TakeH, TakeC, Goto
  <2>9. CASE LateStep(a) \/ LateAttach(a)
    BY <2>4, <2>5, <2>9 DEF LateStep, LateAttach, Goto
  <2> QED
    BY <2>3, <2>6, <2>7, <2>8, <2>9 DEF MemStep
<1>7. ASSUME NEW a \in Atom, ExecFails(a) \/ ProcessStep(a), UNCHANGED mainVars
      PROVE  /\ \A b \in Atom : pc'[b] \notin Bonding
             /\ \A b \in Carbon : pc'[b] \in {"unborn", "exit"}
             /\ waiting_c' = 0
             /\ Count(Hydrogen, {"exit"})' = Valence * carb_count'
  <2>1. PICK to \in {"check", "unlockwait", "wait", "expelled", "crashed"} :
           pc' = [pc EXCEPT ![a] = to]
    BY <1>6, <1>7
  <2>2. /\ a \in Hydrogen /\ a \notin Carbon /\ waiting_c' = waiting_c
        /\ pc[a] \in {"entry", "check", "unlockwait", "wait"}
    BY <1>6, <1>7, AtomAssumption
  <2>3. Count(Hydrogen, {"exit"})' = Count(Hydrogen, {"exit"})
    <3>1. Moved(a, pc[a], to)
      BY <1>1, <2>1, CountMovePc DEF PhaseInv
    <3>2. CountIn(pc', Hydrogen, {"exit"}) = CountIn(pc, Hydrogen, {"exit"})
      BY <2>1, <2>2, <3>1 DEF Moved, Atom
    <3> QED
      BY <3>2, CountInState
  <2>4. carb_count' = carb_count
    BY <1>7 DEF mainVars
  <2>5. \A b \in Atom : pc'[b] = IF b = a THEN to ELSE pc[b]
    BY <1>1, <2>1 DEF PhaseInv
  <2> QED
    BY <1>4, <2>2, <2>3, <2>4, <2>5 DEF Bonding, Atom
<1> QED
  BY <1>3, <1>5, <1>7, ProcCases DEF SpawnCarbon, SpawnHydrogen, SpawnExtraHydrogen,
     EndSpawning, EndCompensation, Reap, EndReaping, RemoveShm, RemoveSem, ForkFails, mainVars

\* ProcInv is inductive.
LEMMA NextProcInv == ProcInv /\ [ProcNext]_vars => ProcInv'
BY PhaseKept, SemKept, DrawKept, HydroKept, ReapKept, LateKept DEF ProcInv

LEMMA InitProcInv == ProcInit => ProcInv
<1> SUFFICES ASSUME ProcInit PROVE ProcInv
  OBVIOUS
<1>1. PhaseInv /\ SemInv
  <2>1. IInv
    BY InitIInv DEF ProcInit
  <2> QED
    BY <2>1 DEF ProcInit, Init, PhaseInv, SemInv, IInv, BarrierInv, TypeOK, NobodyLost, At
<1>2. DrawInv
  <2>1. At(Carbon, Alive) = {}
    BY DEF ProcInit, Init, At, Alive, Atom
  <2> QED
    BY <2>1, FS_EmptySet DEF ProcInit, DrawInv, Count
<1>3. HydroInv
  <2>1. At(Hydrogen, Alive) = {}
    BY DEF ProcInit, Init, At, Alive, Atom
  <2> QED
    BY <2>1, FS_EmptySet DEF ProcInit, HydroInv, Count
<1>4. ReapInv /\ LateInv
  BY DEF ProcInit, ReapInv, LateInv
<1> QED
  BY <1>1, <1>2, <1>3, <1>4 DEF ProcInv

THEOREM ProcInvHolds == ProcSpec => []ProcInv
BY InitProcInv, NextProcInv, PTL DEF ProcSpec

\* While the semaphores exist, mutex and tokens are sound and no molecule is
\* missed: neither surplus hydrogens nor failing forks disturb the barrier.
THEOREM BarrierSound == ProcSpec => []SoundWhileSemaphoresExist
<1>1. ProcInv => SoundWhileSemaphoresExist
  BY TokensByInv DEF ProcInv, SemInv, SoundWhileSemaphoresExist, BarrierInv
<1> QED
  BY <1>1, ProcInvHolds, PTL

\* When main removes an IPC object, after no failure, every carbon it forked has
\* crossed with its hydrogens, and so it stays.
THEOREM RemovedInTime == ProcSpec => []RemovedOnlyWhenBonded
<1>1. ProcInv => RemovedOnlyWhenBonded
  <2> SUFFICES ASSUME ProcInv, ipc # {"shm", "sem"}, ~ Failed
               PROVE  /\ Spawned \cap Carbon \subseteq At(Carbon, {"exit"})
                      /\ Count(Hydrogen, {"exit"}) = Valence * carb_count
    BY DEF RemovedOnlyWhenBonded
  <2>1. main \in {"rmsem", "exited"}
    BY DEF ProcInv, PhaseInv
  <2>2. /\ \A a \in Carbon : pc[a] \in {"unborn", "exit"}
        /\ Count(Hydrogen, {"exit"}) = Valence * carb_count
    BY <2>1, RemovedWhenBonded DEF ProcInv, LateInv
  <2> QED
    BY <2>2 DEF Spawned, At
<1> QED
  BY <1>1, ProcInvHolds, PTL

-----------------------------------------------------------------------------
(* When nobody can go on *)

\* Without a failure main does not wait for a child in vain: when every atom is
\* over or blocked, as many have crossed as main waits for.
LEMMA ReapsEverybody ==
  ASSUME ProcInv, main = "reap", Stuck, ~ Failed
  PROVE  FALSE
<1> DEFINE ec == Count(Carbon, {"exit"})  eh == Count(Hydrogen, {"exit"})
           vc == Valence * carb_count
<1>1. Carbon \in SUBSET Atom /\ Hydrogen \in SUBSET Atom
  BY DEF Atom
<1>2. /\ PhaseInv /\ DrawInv /\ HydroInv /\ BarrierInv
      /\ At(Atom, {"failed", "crashed", "expelled"}) = {}
  BY DEF ProcInv, PhaseInv, SemInv, Failed, At
<1>3. \A a \in Atom : pc[a] \in {"unborn", "exit"} \/ Blocked(a)
  BY <1>2 DEF Stuck, Spawned, Ended, At
<1>4. /\ Count(Carbon, Alive) = waiting_c + molecules
      /\ Count(Hydrogen, Alive) >= Valence * Count(Carbon, Alive) => waiting_c = 0
      /\ ec = molecules /\ eh = Valence * molecules
  BY <1>2, <1>3, NobodyMissing, AllBlocked
<1>5. waiting_c \in Nat /\ molecules \in Nat
  BY <1>2 DEF BarrierInv, TypeOK
<1>6. molecules = carb_count
  BY <1>2, <1>4, <1>5 DEF DrawInv, HydroInv
<1>7. total_atom_count = carb_count + vc
  <2>1. /\ carb_count + hydro_count = ATOM_COUNT /\ num_hydro_left = vc - hydro_count
        /\ carb_count \in Nat /\ hydro_count \in Nat /\ vc \in Nat
    BY <1>2, MissingHydrogens, AtomAssumption DEF DrawInv, PhaseInv
  <2> HIDE DEF vc
  <2> QED
    BY <2>1 DEF total_atom_count
<1>8. Cardinality(Ended) = ec + eh
  BY <1>2, EndedExits
<1>9. /\ i \in Nat /\ i < total_atom_count /\ i >= Cardinality(Ended)
      /\ carb_count \in Nat /\ vc \in Nat
  BY <1>2, AtomAssumption DEF Stuck, MainWaits, PhaseInv
<1>10. ec = carb_count /\ eh = vc
  BY <1>4, <1>6
<1> HIDE DEF ec, eh, vc
<1> QED
  BY <1>7, <1>8, <1>9, <1>10

\* Processes are left blocked for good only after a failed fork or exec, and then
\* they wait for partners that are not there: no token is unused, and no molecule
\* could be made of those that are counted as waiting.
THEOREM NobodyStuck == ProcSpec => []StuckOnlyByFailure
<1>1. ProcInv => StuckOnlyByFailure
  <2> SUFFICES ASSUME ProcInv, Stuck
               PROVE  \/ main = "exited" /\ Spawned = Ended
                      \/ /\ Failed
                         /\ sem["SC"] = 0 /\ sem["SH"] = 0
                         /\ waiting_c = 0 \/ waiting_h < Valence
    BY DEF StuckOnlyByFailure
  <2>1. CASE main = "exited"
    BY <2>1 DEF ProcInv, PhaseInv, Stuck, Spawned, Ended, At
  <2>2. CASE main # "exited"
    <3>1. BarrierInv /\ At(Atom, {"crashed", "expelled"}) = {}
      BY <2>2 DEF ProcInv, PhaseInv, SemInv
    <3>2. \A a \in Atom : pc[a] \in {"unborn", "exit", "failed"} \/ Blocked(a)
      BY <3>1 DEF Stuck, Spawned, Ended, At
    <3>3. sem["SC"] = 0 /\ sem["SH"] = 0
      BY <3>1, <3>2, AllBlocked
    <3>4. waiting_c = 0 \/ waiting_h < Valence
      BY <3>1 DEF BarrierInv, NoMissedMolecule
    <3>5. Failed
      BY <2>2, ReapsEverybody DEF Stuck, MainWaits, Failed
    <3> QED
      BY <3>3, <3>4, <3>5
  <2> QED
    BY <2>1, <2>2
<1> QED
  BY <1>1, ProcInvHolds, PTL
=============================================================================
