--------------------------- MODULE MethaneThreads ---------------------------
(***************************************************************************)
(* as6: the same barrier with threads and POSIX semaphores.  main()        *)
(* creates ATOM_COUNT threads of random kind and the missing hydrogens,    *)
(* joins them in the order of their creation, destroys the semaphores and  *)
(* returns, which ends the process and whatever threads it still has.      *)
(***************************************************************************)
EXTENDS MethaneBarrier, Sequences

CONSTANTS
  ATOM_COUNT,      \* threads of the first loop: 25 in the code
  CreateMayFail    \* whether pthread_create can fail

\* The atoms bound the draws: rand() may be odd while there is a carbon left.
ASSUME ThreadAssumption ==
  /\ ATOM_COUNT \in Nat
  /\ Cardinality(Carbon) + Cardinality(Hydrogen) >= ATOM_COUNT
  /\ Cardinality(Hydrogen) >= Valence * Cardinality(Carbon)
  /\ CreateMayFail \in BOOLEAN

VARIABLES
  main,             \* where main() is
  i,                \* its loop variable
  carb_count,       \* carbons created by the first loop
  hydro_count,      \* hydrogens created by the first loop
  initial_threads,  \* the threads of the first loop, in order
  extra_h_threads,  \* those of the second loop
  destroyed         \* semaphores destroyed and freed

mainVars == <<main, i, carb_count, hydro_count, initial_threads,
              extra_h_threads, destroyed>>
vars == <<barrierVars, mainVars>>

ThreadsInit ==
  /\ Init
  /\ main = "spawn"
  /\ i = 0
  /\ carb_count = 0
  /\ hydro_count = 0
  /\ initial_threads = <<>>
  /\ extra_h_threads = <<>>
  /\ destroyed = {}

-----------------------------------------------------------------------------
(* main() *)

\* The thread that the next pthread_create of kind K starts.
Unborn(K) == CHOOSE a \in At(K, {"unborn"}) : TRUE

SpawnInitial(K) ==
  /\ main = "spawn" /\ i < ATOM_COUNT
  /\ At(K, {"unborn"}) # {}
  /\ Spawn(Unborn(K))
  /\ initial_threads' = Append(initial_threads, Unborn(K))
  /\ i' = i + 1
  /\ UNCHANGED <<main, extra_h_threads, destroyed>>

\* rand() is odd.
SpawnCarbon ==
  /\ SpawnInitial(Carbon)
  /\ carb_count' = carb_count + 1
  /\ UNCHANGED hydro_count

\* rand() is even.
SpawnHydrogen ==
  /\ SpawnInitial(Hydrogen)
  /\ hydro_count' = hydro_count + 1
  /\ UNCHANGED carb_count

\* Mutant: forgets the hydrogens that are left over.
num_hydro_left_all == (carb_count - hydro_count \div Valence) * Valence

num_hydro_left ==
  LET num_carb_satisfied == hydro_count \div Valence
      hydro_left_over    == hydro_count % Valence
      num_carb_left      == carb_count - num_carb_satisfied
  IN  num_carb_left * Valence - hydro_left_over

\* Mutant: forgets the extra hydrogens.
first_atom_count == ATOM_COUNT

total_atom_count == ATOM_COUNT + num_hydro_left

EndSpawning ==
  /\ main = "spawn" /\ i = ATOM_COUNT
  /\ main' = "compensate"
  /\ i' = 0
  /\ UNCHANGED <<barrierVars, carb_count, hydro_count, initial_threads,
                 extra_h_threads, destroyed>>

SpawnExtraHydrogen ==
  /\ main = "compensate" /\ i < num_hydro_left
  /\ At(Hydrogen, {"unborn"}) # {}
  /\ Spawn(Unborn(Hydrogen))
  /\ extra_h_threads' = Append(extra_h_threads, Unborn(Hydrogen))
  /\ i' = i + 1
  /\ UNCHANGED <<main, carb_count, hydro_count, initial_threads, destroyed>>

EndCompensation ==
  /\ main = "compensate" /\ i >= num_hydro_left
  /\ main' = "join"
  /\ i' = 0
  /\ UNCHANGED <<barrierVars, carb_count, hydro_count, initial_threads,
                 extra_h_threads, destroyed>>

\* pthread_create fails in one of the two loops: main returns EXIT_FAILURE.
CreateFails ==
  /\ CreateMayFail
  /\ \/ main = "spawn" /\ i < ATOM_COUNT
     \/ main = "compensate" /\ i < num_hydro_left
  /\ main' = "failed"
  /\ UNCHANGED <<barrierVars, i, carb_count, hydro_count, initial_threads,
                 extra_h_threads, destroyed>>

\* The two arrays of main have a negative length when the draw has surplus
\* hydrogens: undefined behaviour, which can end the process by a signal from
\* there on, or go unnoticed.
NegativeArray ==
  /\ main \in {"compensate", "join", "destroy"}
  /\ num_hydro_left < 0
  /\ main' = "crashed"
  /\ UNCHANGED <<barrierVars, i, carb_count, hydro_count, initial_threads,
                 extra_h_threads, destroyed>>

\* The thread that iteration k of the last loop joins.
Joined(k) == IF k < ATOM_COUNT THEN initial_threads[k + 1]
             ELSE extra_h_threads[k - ATOM_COUNT + 1]

Join ==
  /\ main = "join" /\ i < total_atom_count
  /\ pc[Joined(i)] = "exit"
  /\ i' = i + 1
  /\ UNCHANGED <<barrierVars, main, carb_count, hydro_count, initial_threads,
                 extra_h_threads, destroyed>>

EndJoining ==
  /\ main = "join" /\ i >= total_atom_count
  /\ main' = "destroy"
  /\ UNCHANGED <<barrierVars, i, carb_count, hydro_count, initial_threads,
                 extra_h_threads, destroyed>>

\* destroy_sem and free, in the order S, SC, SH.
DestroySem(s) ==
  /\ main = "destroy"
  /\ destroyed = CASE s = "S"  -> {}
                   [] s = "SC" -> {"S"}
                   [] s = "SH" -> {"S", "SC"}
  /\ destroyed' = destroyed \cup {s}
  /\ UNCHANGED <<barrierVars, main, i, carb_count, hydro_count,
                 initial_threads, extra_h_threads>>

Return ==
  /\ main = "destroy" /\ destroyed = Semaphore
  /\ main' = "exited"
  /\ UNCHANGED <<barrierVars, i, carb_count, hydro_count, initial_threads,
                 extra_h_threads, destroyed>>

MainStep ==
  \/ SpawnCarbon
  \/ SpawnHydrogen
  \/ EndSpawning
  \/ SpawnExtraHydrogen
  \/ EndCompensation
  \/ Join
  \/ EndJoining
  \/ \E s \in Semaphore : DestroySem(s)
  \/ Return

-----------------------------------------------------------------------------
(* The threads *)

\* main has returned or the process was ended: its threads end with it.
ProcessEnd == {"exited", "failed", "crashed"}

carbon(a) ==
  /\ a \in Carbon
  /\ Lock(a) \/ Bond(a) \/ HandH(a) \/ TakeH(a) \/ Unlock(a)
       \/ Queue(a) \/ UnlockWait(a) \/ Wake(a)

hydrogen(a) ==
  /\ a \in Hydrogen
  /\ Lock(a) \/ Bond(a) \/ HandH(a) \/ TakeH(a) \/ HandC(a) \/ TakeC(a)
       \/ Unlock(a) \/ Queue(a) \/ UnlockWait(a) \/ Wake(a)

\* A semaphore that has been freed is still used as if it were there, as long
\* as its memory is not.
ThreadStep(a) ==
  /\ main \notin ProcessEnd
  /\ carbon(a) \/ hydrogen(a)
  /\ UNCHANGED mainVars

\* The semaphores a thread may still touch from its stage.
Touches(a) ==
  CASE pc[a] \in {"entry"} -> {"S"}
    [] pc[a] \in Holding   -> {"S", "SC", "SH"}
    [] pc[a] = "wait"      -> {IF a \in Carbon THEN "SC" ELSE "SH"}
    [] OTHER               -> {}

\* The other outcomes of using a freed semaphore: sem_wait fails and
\* perror_exit ends the process, or it is ended by a signal.
UseAfterDestroy(a) ==
  /\ main \notin ProcessEnd
  /\ Touches(a) \cap destroyed # {}
  /\ main' \in {"failed", "crashed"}
  /\ UNCHANGED <<barrierVars, i, carb_count, hydro_count, initial_threads,
                 extra_h_threads, destroyed>>

ThreadsNext ==
  \/ MainStep
  \/ CreateFails
  \/ NegativeArray
  \/ \E a \in Atom : ThreadStep(a) \/ UseAfterDestroy(a)

ThreadsSpec == ThreadsInit /\ [][ThreadsNext]_vars

ThreadsFairSpec ==
  ThreadsSpec /\ WF_vars(MainStep) /\ \A a \in Atom : WF_vars(ThreadStep(a))

-----------------------------------------------------------------------------
(* Properties *)

Spawned == {a \in Atom : pc[a] # "unborn"}

\* The draw has more hydrogens than its carbons can bind.
Surplus == hydro_count > Valence * carb_count

\* No thread can touch a semaphore that main has destroyed, unless the draw
\* had surplus hydrogens.
NoUseAfterDestroy ==
  main = "destroy" /\ ~ Surplus =>
    \A a \in Atom : Touches(a) \cap destroyed = {}

\* Nobody goes on: main is in pthread_join, every thread has ended or is blocked.
Stuck ==
  /\ main = "join" /\ i < total_atom_count /\ pc[Joined(i)] # "exit"
  /\ \A a \in Spawned \ At(Atom, {"exit"}) : Blocked(a)

\* main can only hang in a join, of a hydrogen that is surplus and sleeps for
\* good, with every molecule of the draw completed.
HangsOnSurplusOnly ==
  Stuck =>
    /\ Surplus
    /\ Joined(i) \in At(Hydrogen, {"wait"})
    /\ molecules = carb_count
    /\ Spawned \cap Carbon = At(Carbon, {"exit"})
    /\ Count(Hydrogen, {"exit"}) = Valence * molecules

\* Without surplus hydrogens main joins every thread and returns, unless a
\* thread could not be created; with them it comes to an end or hangs
\* (as6.c:172-211).
MainReturns ==
  <>(\/ main = "failed"
     \/ main = "exited" /\ Spawned = At(Atom, {"exit"})
     \/ Surplus /\ (main \in {"exited", "crashed"} \/ Stuck))

=============================================================================
