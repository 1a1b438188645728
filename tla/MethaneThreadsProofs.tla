------------------------ MODULE MethaneThreadsProofs ------------------------
(***************************************************************************)
(* Proofs about main of as6, for any finite number of atoms and any        *)
(* valence.  For a draw without surplus hydrogens: when main destroys the  *)
(* semaphores it has joined every thread it created, so that none of them  *)
(* can touch one any more.  For any draw: where main can be left hanging   *)
(* in a join, and with whom.                                               *)
(***************************************************************************)
EXTENDS MethaneThreads, MethaneBarrierProofs

-----------------------------------------------------------------------------
(* The inductive invariant *)

Running == {"spawn", "compensate", "join", "destroy"}

ThreadsTypeInv ==
  /\ main \in Running \cup ProcessEnd
  /\ i \in Nat /\ carb_count \in Nat /\ hydro_count \in Nat
  /\ initial_threads \in Seq(Atom) /\ extra_h_threads \in Seq(Atom)
  /\ pc \in [Atom -> Stage]

\* Each loop fills its array as far as its variable says.
ArraysInv ==
  /\ main = "spawn" => Len(initial_threads) = i /\ i <= ATOM_COUNT /\ extra_h_threads = <<>>
  /\ main \in {"compensate", "join", "destroy"} => Len(initial_threads) = ATOM_COUNT
  /\ main = "compensate" => Len(extra_h_threads) = i
  /\ main = "compensate" /\ ~ Surplus => i <= num_hydro_left
  /\ main \in {"join", "destroy"} /\ ~ Surplus => Len(extra_h_threads) = num_hydro_left

\* Every thread that was created is in one of them.
InArrays(a) ==
  \/ \E k \in 1 .. Len(initial_threads) : initial_threads[k] = a
  \/ \E k \in 1 .. Len(extra_h_threads) : extra_h_threads[k] = a
CreatedInv == main \in Running => \A a \in Atom : pc[a] # "unborn" => InArrays(a)

\* Whom main has joined has ended.
JoinInv ==
  main \in {"join", "destroy"} /\ ~ Surplus =>
    /\ i <= total_atom_count
    /\ main = "destroy" => i = total_atom_count
    /\ \A k \in 0 .. i - 1 : pc[Joined(k)] = "exit"

JoinedInv == ThreadsTypeInv /\ ArraysInv /\ CreatedInv /\ JoinInv

-----------------------------------------------------------------------------

LEMMA MissingThreads ==
  ASSUME ThreadsTypeInv
  PROVE  /\ num_hydro_left = Valence * carb_count - hydro_count
         /\ num_hydro_left \in Int
         /\ ~ Surplus => num_hydro_left >= 0
<1>1. num_hydro_left = Valence * carb_count - hydro_count
  BY LeftOver DEF ThreadsTypeInv, num_hydro_left
<1> QED
  BY <1>1, AtomAssumption DEF ThreadsTypeInv, Surplus

\* A thread that takes a step has been created and has not ended.
LEMMA ThreadMoves ==
  ASSUME ThreadsTypeInv, NEW a \in Atom, ThreadStep(a)
  PROVE  /\ pc' \in [Atom -> Stage] /\ UNCHANGED mainVars
         /\ pc[a] \notin {"unborn", "exit"} /\ pc'[a] # "unborn"
         /\ \A b \in Atom \ {a} : pc'[b] = pc[b]
<1>1. UNCHANGED mainVars /\ AtomStep(a)
  BY DEF ThreadStep, carbon, hydrogen, AtomStep
<1> QED
  BY <1>1 DEF ThreadsTypeInv, AtomStep, Goto, Stage, Lock, Bond, Queue, HandH, TakeH,
     HandC, TakeC, Unlock, UnlockWait, Wake

\* The thread that a call of pthread_create starts.
LEMMA CreateSpawns ==
  ASSUME ThreadsTypeInv, NEW K \in SUBSET Atom, At(K, {"unborn"}) # {}, Spawn(Unborn(K))
  PROVE  /\ Unborn(K) \in Atom /\ pc[Unborn(K)] = "unborn"
         /\ pc' = [pc EXCEPT ![Unborn(K)] = "entry"]
         /\ pc' \in [Atom -> Stage]
BY DEF ThreadsTypeInv, At, Unborn, Spawn, Goto, Stage

LEMMA InitJoined == ThreadsInit => JoinedInv
BY ThreadAssumption DEF ThreadsInit, Init, JoinedInv, ThreadsTypeInv, ArraysInv, CreatedInv, JoinInv,
   Running, Stage

\* The first loop appends the new thread to its array.
LEMMA InitialJoined ==
  ASSUME JoinedInv, SpawnCarbon \/ SpawnHydrogen
  PROVE  JoinedInv'
<1>1. PICK K \in {Carbon, Hydrogen} : SpawnInitial(K)
  BY DEF SpawnCarbon, SpawnHydrogen
<1> DEFINE a == Unborn(K)
<1>2. /\ main = "spawn" /\ main' = "spawn" /\ i < ATOM_COUNT /\ i' = i + 1
      /\ initial_threads' = Append(initial_threads, a)
      /\ extra_h_threads' = extra_h_threads
  BY <1>1 DEF SpawnInitial
<1>3. /\ a \in Atom /\ pc' = [pc EXCEPT ![a] = "entry"]
      /\ pc' \in [Atom -> Stage]
  BY <1>1, CreateSpawns DEF SpawnInitial, JoinedInv, Atom
<1> HIDE DEF a
<1>4. carb_count' \in Nat /\ hydro_count' \in Nat
  BY DEF SpawnCarbon, SpawnHydrogen, JoinedInv, ThreadsTypeInv
<1>5. ThreadsTypeInv'
  BY <1>2, <1>3, <1>4 DEF JoinedInv, ThreadsTypeInv
<1>6. ArraysInv'
  BY <1>2, <1>3, ThreadAssumption DEF JoinedInv, ThreadsTypeInv, ArraysInv
<1>7. CreatedInv'
  <2> SUFFICES ASSUME NEW b \in Atom, pc'[b] # "unborn"
               PROVE  InArrays(b)'
    BY DEF CreatedInv
  <2>1. CASE b = a
    BY <1>2, <1>3, <2>1 DEF InArrays, JoinedInv, ThreadsTypeInv
  <2>2. CASE b # a
    <3>1. InArrays(b)
      BY <1>2, <1>3, <2>2 DEF JoinedInv, ThreadsTypeInv, CreatedInv, Running
    <3> QED
      BY <1>2, <1>3, <3>1 DEF InArrays, JoinedInv, ThreadsTypeInv
  <2> QED
    BY <2>1, <2>2
<1>8. JoinInv'
  BY <1>2 DEF JoinInv
<1> QED
  BY <1>5, <1>6, <1>7, <1>8 DEF JoinedInv

\* So does the second, up to the number that is missing.
LEMMA ExtraJoined ==
  ASSUME JoinedInv, SpawnExtraHydrogen
  PROVE  JoinedInv'
<1> DEFINE a == Unborn(Hydrogen)
<1>1. /\ main = "compensate" /\ main' = "compensate" /\ i < num_hydro_left /\ i' = i + 1
      /\ extra_h_threads' = Append(extra_h_threads, a)
      /\ UNCHANGED <<initial_threads, carb_count, hydro_count>>
  BY DEF SpawnExtraHydrogen
<1>2. /\ a \in Atom /\ pc' = [pc EXCEPT ![a] = "entry"]
      /\ pc' \in [Atom -> Stage]
  BY CreateSpawns DEF SpawnExtraHydrogen, JoinedInv, Atom
<1> HIDE DEF a
<1>3. ThreadsTypeInv'
  BY <1>1, <1>2 DEF JoinedInv, ThreadsTypeInv
<1>4. ArraysInv'
  <2>1. num_hydro_left' = num_hydro_left /\ num_hydro_left \in Int /\ i \in Nat
    BY <1>1, MissingThreads DEF num_hydro_left, JoinedInv, ThreadsTypeInv
  <2>2. i' <= num_hydro_left'
    BY <1>1, <2>1
  <2> QED
    BY <1>1, <1>2, <2>2 DEF JoinedInv, ThreadsTypeInv, ArraysInv
<1>5. CreatedInv'
  <2> SUFFICES ASSUME NEW b \in Atom, pc'[b] # "unborn"
               PROVE  InArrays(b)'
    BY DEF CreatedInv
  <2>1. CASE b = a
    BY <1>1, <1>2, <2>1 DEF InArrays, JoinedInv, ThreadsTypeInv
  <2>2. CASE b # a
    <3>1. InArrays(b)
      BY <1>1, <1>2, <2>2 DEF JoinedInv, ThreadsTypeInv, CreatedInv, Running
    <3> QED
      BY <1>1, <1>2, <3>1 DEF InArrays, JoinedInv, ThreadsTypeInv
  <2> QED
    BY <2>1, <2>2
<1>6. JoinInv'
  BY <1>1 DEF JoinInv
<1> QED
  BY <1>3, <1>4, <1>5, <1>6 DEF JoinedInv

\* What the invariant says of the arrays stays while main creates nothing.
LEMMA ArraysStay ==
  ASSUME JoinedInv, main \in Running, UNCHANGED <<pc, carb_count, hydro_count>>,
         UNCHANGED <<initial_threads, extra_h_threads>>
  PROVE  /\ CreatedInv' /\ Surplus' = Surplus /\ num_hydro_left' = num_hydro_left
         /\ total_atom_count' = total_atom_count
         /\ total_atom_count = ATOM_COUNT + num_hydro_left
         /\ \A k : Joined(k)' = Joined(k)
BY DEF JoinedInv, CreatedInv, InArrays, Running, Surplus, num_hydro_left, total_atom_count,
       Joined

\* The steps of main between and after the loops.
LEMMA MainJoined ==
  ASSUME JoinedInv, EndSpawning \/ EndCompensation \/ Join \/ EndJoining
  PROVE  JoinedInv'
<1>1. /\ main \in {"spawn", "compensate", "join"}
      /\ UNCHANGED <<pc, carb_count, hydro_count, initial_threads, extra_h_threads>>
  BY DEF EndSpawning, EndCompensation, Join, EndJoining, barrierVars
<1>2. /\ CreatedInv' /\ Surplus' = Surplus /\ num_hydro_left' = num_hydro_left
      /\ total_atom_count' = total_atom_count
      /\ total_atom_count = ATOM_COUNT + num_hydro_left
      /\ \A k : Joined(k)' = Joined(k)
  BY <1>1, ArraysStay DEF Running
<1>3. num_hydro_left \in Int /\ (~ Surplus => num_hydro_left >= 0) /\ ATOM_COUNT \in Nat
  BY MissingThreads, ThreadAssumption DEF JoinedInv
<1> USE DEF JoinedInv, ThreadsTypeInv, ArraysInv, JoinInv, Running
<1>4. CASE EndSpawning
  <2>1. ThreadsTypeInv'
    BY <1>1, <1>4 DEF EndSpawning
  <2> QED
    BY <1>1, <1>2, <1>3, <1>4, <2>1 DEF EndSpawning
<1>5. CASE EndCompensation
  <2>1. ThreadsTypeInv'
    BY <1>1, <1>5 DEF EndCompensation
  <2>2. ~ Surplus => i = num_hydro_left /\ i' = 0 /\ total_atom_count >= 0
    BY <1>2, <1>3, <1>5 DEF EndCompensation
  <2> QED
    BY <1>1, <1>2, <1>3, <1>5, <2>1, <2>2 DEF EndCompensation
<1>6. CASE Join
  <2>1. ThreadsTypeInv'
    BY <1>1, <1>6 DEF Join
  <2>2. /\ main = "join" /\ main' = "join" /\ i' = i + 1 /\ i < total_atom_count
        /\ pc[Joined(i)] = "exit"
    BY <1>6 DEF Join
  <2>3. ArraysInv'
    BY <1>1, <1>2, <2>2
  <2>4. JoinInv'
    <3> SUFFICES ASSUME ~ Surplus
                 PROVE  /\ i' <= total_atom_count'
                        /\ \A k \in 0 .. i' - 1 : pc'[Joined(k)'] = "exit"
      BY <1>2, <2>2
    <3>1. \A k \in 0 .. i' - 1 : k \in 0 .. i - 1 \/ k = i
      BY <2>2
    <3>2. \A k \in 0 .. i - 1 : pc[Joined(k)] = "exit"
      BY <2>2
    <3> QED
      BY <1>1, <1>2, <1>3, <2>2, <3>1, <3>2
  <2> QED
    BY <1>2, <2>1, <2>3, <2>4
<1>7. CASE EndJoining
  <2>1. ThreadsTypeInv'
    BY <1>1, <1>7 DEF EndJoining
  <2> QED
    BY <1>1, <1>2, <1>3, <1>7, <2>1 DEF EndJoining
<1> QED
  BY <1>4, <1>5, <1>6, <1>7

\* Destruction changes nothing the invariant is about.
LEMMA DestroyJoined ==
  ASSUME JoinedInv, UNCHANGED mainVars \/ \E s \in Semaphore : DestroySem(s),
         UNCHANGED barrierVars
  PROVE  JoinedInv'
<1>1. UNCHANGED <<pc, main, i, carb_count, hydro_count, initial_threads, extra_h_threads>>
  BY DEF DestroySem, mainVars, barrierVars
<1> QED
  BY <1>1 DEF JoinedInv, ThreadsTypeInv, ArraysInv, CreatedInv, InArrays, JoinInv, Joined,
     Surplus, num_hydro_left, total_atom_count

\* When main has ended, only the types remain to be said.
LEMMA EndJoined ==
  ASSUME JoinedInv, main' \in ProcessEnd,
         UNCHANGED <<pc, i, carb_count, hydro_count, initial_threads, extra_h_threads>>
  PROVE  JoinedInv'
BY DEF JoinedInv, ThreadsTypeInv, ArraysInv, CreatedInv, JoinInv, Running, ProcessEnd

\* Every index that main joins is in one of the arrays.
LEMMA JoinedAtom ==
  ASSUME JoinedInv, main \in {"join", "destroy"}, ~ Surplus, NEW k \in 0 .. i - 1
  PROVE  Joined(k) \in Atom
<1>1. /\ num_hydro_left \in Nat /\ ATOM_COUNT \in Nat
      /\ Len(initial_threads) = ATOM_COUNT /\ Len(extra_h_threads) = num_hydro_left
      /\ initial_threads \in Seq(Atom) /\ extra_h_threads \in Seq(Atom)
      /\ i \in Nat /\ i <= ATOM_COUNT + num_hydro_left
  BY MissingThreads, ThreadAssumption
     DEF JoinedInv, ThreadsTypeInv, ArraysInv, JoinInv, total_atom_count
<1>2. CASE k < ATOM_COUNT
  BY <1>1, <1>2 DEF Joined
<1>3. CASE ~ (k < ATOM_COUNT)
  <2>1. k - ATOM_COUNT + 1 \in 1 .. num_hydro_left
    BY <1>1, <1>3
  <2> QED
    BY <1>1, <1>3, <2>1 DEF Joined
<1> QED
  BY <1>2, <1>3

\* A thread that has been joined takes no step.
LEMMA ThreadJoined ==
  ASSUME JoinedInv, NEW a \in Atom, ThreadStep(a)
  PROVE  JoinedInv'
<1>1. /\ pc' \in [Atom -> Stage] /\ UNCHANGED mainVars
      /\ pc[a] \notin {"unborn", "exit"} /\ pc'[a] # "unborn"
      /\ \A b \in Atom \ {a} : pc'[b] = pc[b]
  BY ThreadMoves DEF JoinedInv
<1>2. UNCHANGED <<main, i, carb_count, hydro_count, initial_threads, extra_h_threads>>
  BY <1>1 DEF mainVars
<1>3. ThreadsTypeInv' /\ ArraysInv'
  BY <1>1, <1>2 DEF JoinedInv, ThreadsTypeInv, ArraysInv, Surplus, num_hydro_left
<1>4. CreatedInv'
  BY <1>1, <1>2 DEF JoinedInv, CreatedInv, InArrays
<1>5. JoinInv'
  <2>1. /\ \A k : Joined(k)' = Joined(k)
        /\ total_atom_count' = total_atom_count /\ Surplus' = Surplus
    BY <1>2 DEF Joined, total_atom_count, num_hydro_left, Surplus
  <2> SUFFICES ASSUME main \in {"join", "destroy"}, ~ Surplus
               PROVE  /\ i <= total_atom_count
                      /\ main = "destroy" => i = total_atom_count
                      /\ \A k \in 0 .. i - 1 : pc'[Joined(k)] = "exit"
    BY <1>2, <2>1 DEF JoinInv
  <2>2. ASSUME NEW k \in 0 .. i - 1
        PROVE  pc'[Joined(k)] = "exit"
    <3>1. Joined(k) \in Atom
      BY JoinedAtom
    <3>2. pc[Joined(k)] = "exit"
      BY DEF JoinedInv, JoinInv
    <3> QED
      BY <1>1, <3>1, <3>2
  <2> QED
    BY <2>2 DEF JoinedInv, JoinInv
<1> QED
  BY <1>3, <1>4, <1>5 DEF JoinedInv

LEMMA NextJoined == JoinedInv /\ [ThreadsNext]_vars => JoinedInv'
<1> SUFFICES ASSUME JoinedInv, [ThreadsNext]_vars PROVE JoinedInv'
  OBVIOUS
<1>1. CASE SpawnCarbon \/ SpawnHydrogen \/ SpawnExtraHydrogen
  BY <1>1, InitialJoined, ExtraJoined
<1>2. CASE EndSpawning \/ EndCompensation \/ Join \/ EndJoining
  BY <1>2, MainJoined
<1>3. CASE UNCHANGED vars \/ \E s \in Semaphore : DestroySem(s)
  <2>1. UNCHANGED barrierVars
    BY <1>3 DEF vars, DestroySem
  <2> QED
    BY <1>3, <2>1, DestroyJoined DEF vars
<1>4. CASE Return \/ CreateFails \/ NegativeArray \/ \E a \in Atom : UseAfterDestroy(a)
  BY <1>4, EndJoined DEF Return, CreateFails, NegativeArray, UseAfterDestroy, ProcessEnd, barrierVars
<1>5. ASSUME NEW a \in Atom, ThreadStep(a)
      PROVE  JoinedInv'
  BY <1>5, ThreadJoined
<1> QED
  BY <1>1, <1>2, <1>3, <1>4, <1>5 DEF ThreadsNext, MainStep

-----------------------------------------------------------------------------

\* The joins cover both arrays, and with them every thread.
LEMMA AllJoined ==
  ASSUME JoinedInv, main = "destroy", ~ Surplus
  PROVE  \A a \in Atom : pc[a] \in {"unborn", "exit"}
<1> SUFFICES ASSUME NEW a \in Atom, pc[a] # "unborn"
             PROVE  pc[a] = "exit"
  OBVIOUS
<1>1. /\ ATOM_COUNT \in Nat /\ num_hydro_left \in Nat
      /\ i = ATOM_COUNT + num_hydro_left
      /\ Len(initial_threads) = ATOM_COUNT /\ Len(extra_h_threads) = num_hydro_left
      /\ \A k \in 0 .. i - 1 : pc[Joined(k)] = "exit"
  BY MissingThreads, ThreadAssumption DEF JoinedInv, JoinInv, ArraysInv, total_atom_count
<1>2. InArrays(a)
  BY DEF JoinedInv, CreatedInv, Running
<1>3. ASSUME NEW k \in 1 .. Len(initial_threads), initial_threads[k] = a
      PROVE  pc[a] = "exit"
  <2>1. k - 1 \in 0 .. i - 1 /\ k - 1 < ATOM_COUNT /\ (k - 1) + 1 = k
    BY <1>1
  <2>2. Joined(k - 1) = a
    BY <1>3, <2>1 DEF Joined
  <2> QED
    BY <1>1, <2>1, <2>2
<1>4. ASSUME NEW k \in 1 .. Len(extra_h_threads), extra_h_threads[k] = a
      PROVE  pc[a] = "exit"
  <2> DEFINE j == ATOM_COUNT + k - 1
  <2>1. j \in 0 .. i - 1 /\ ~ (j < ATOM_COUNT) /\ j - ATOM_COUNT + 1 = k
    BY <1>1
  <2>2. Joined(j) = a
    BY <1>4, <2>1 DEF Joined
  <2> QED
    BY <1>1, <2>1, <2>2
<1> QED
  BY <1>2, <1>3, <1>4 DEF InArrays

\* main destroys no semaphore that a thread may still use, unless the draw had
\* surplus hydrogens: it has joined all threads, in whatever order they end.
THEOREM DestroyedUnused == ThreadsSpec => []NoUseAfterDestroy
<1>1. JoinedInv => NoUseAfterDestroy
  <2> SUFFICES ASSUME JoinedInv, main = "destroy", ~ Surplus, NEW a \in Atom
               PROVE  Touches(a) = {}
    BY DEF NoUseAfterDestroy
  <2>1. pc[a] \in {"unborn", "exit"}
    BY AllJoined
  <2> QED
    BY <2>1 DEF Touches, Holding, Bonding
<1> QED
  BY <1>1, InitJoined, NextJoined, PTL DEF ThreadsSpec

-----------------------------------------------------------------------------
(* When nobody can go on *)

\* main has counted the carbons it created, and when it starts to join there are
\* the hydrogens that they need, or more.
ForkedInv ==
  /\ main \in Running => Count(Carbon, Alive) = carb_count
  /\ main = "spawn" => Count(Hydrogen, Alive) = hydro_count
  /\ main = "compensate" => Count(Hydrogen, Alive) = hydro_count + i
  /\ main = "join" => Count(Hydrogen, Alive) >= Valence * carb_count
  /\ main = "join" /\ ~ Surplus => Count(Hydrogen, Alive) = Valence * carb_count

\* Only threads that were created are in the arrays.
StartedInv == main \in Running => \A a \in Atom : InArrays(a) => pc[a] # "unborn"

HangInv == JoinedInv /\ IInv /\ ForkedInv /\ StartedInv

\* main creates thread a, which goes to the end of one of the arrays.
Creates(a) ==
  /\ Spawn(a)
  /\ \/ initial_threads' = Append(initial_threads, a) /\ UNCHANGED extra_h_threads
     \/ extra_h_threads' = Append(extra_h_threads, a) /\ UNCHANGED initial_threads

\* Every step of the system: a creation, a step of main alone, which mostly is of
\* no consequence for the atoms, a step of a thread.
LEMMA ThreadsCases ==
  ASSUME [ThreadsNext]_vars
  PROVE  \/ SpawnCarbon /\ \E a \in Carbon : Creates(a)
         \/ (SpawnHydrogen \/ SpawnExtraHydrogen) /\ \E a \in Hydrogen : Creates(a)
         \/ /\ UNCHANGED <<barrierVars, initial_threads, extra_h_threads, carb_count>>
            /\ \/ EndSpawning \/ EndCompensation
               \/ /\ main' \notin {"spawn", "compensate", "join"}
                  /\ main' \in Running => main \in Running
               \/ UNCHANGED <<main, hydro_count>> /\ main \notin {"spawn", "compensate"}
               \/ UNCHANGED mainVars
         \/ UNCHANGED mainVars /\ \E a \in Atom : ThreadStep(a) /\ AtomStep(a)
<1>1. ASSUME NEW K \in {Carbon, Hydrogen}, At(K, {"unborn"}) # {}
      PROVE  Unborn(K) \in K
  BY <1>1 DEF Unborn, At
<1>2. CASE SpawnCarbon
  BY <1>1, <1>2 DEF SpawnCarbon, SpawnInitial, Creates
<1>3. CASE SpawnHydrogen
  BY <1>1, <1>3 DEF SpawnHydrogen, SpawnInitial, Creates
<1>4. CASE SpawnExtraHydrogen
  BY <1>1, <1>4 DEF SpawnExtraHydrogen, Creates
<1>5. CASE EndSpawning \/ EndCompensation
  BY <1>5 DEF EndSpawning, EndCompensation
<1>6. CASE Join
  BY <1>6 DEF Join
<1>7. CASE EndJoining \/ Return
  BY <1>7 DEF EndJoining, Return, Running
<1>8. CASE \E s \in Semaphore : DestroySem(s)
  BY <1>8 DEF DestroySem
<1>9. CASE CreateFails \/ NegativeArray
  BY <1>9 DEF CreateFails, NegativeArray, Running
<1>10. CASE \E a \in Atom : UseAfterDestroy(a)
  BY <1>10 DEF UseAfterDestroy, Running
<1>11. CASE \E a \in Atom : ThreadStep(a)
  BY <1>11 DEF ThreadStep, carbon, hydrogen, AtomStep
<1>12. CASE UNCHANGED vars
  BY <1>12 DEF vars, mainVars
<1> QED
  BY <1>2, <1>3, <1>4, <1>5, <1>6, <1>7, <1>8, <1>9, <1>10, <1>11, <1>12
     DEF ThreadsNext, MainStep

\* The threads follow the barrier, whatever main does.
LEMMA ThreadsKeepBarrier ==
  ASSUME IInv, [ThreadsNext]_vars
  PROVE  IInv'
<1>1. [Next]_barrierVars
  BY ThreadsCases DEF Creates, Next, Atom
<1> QED
  BY <1>1, NextIInv

LEMMA StartedKept ==
  ASSUME ThreadsTypeInv, StartedInv, [ThreadsNext]_vars
  PROVE  StartedInv'
<1> SUFFICES ASSUME main' \in Running, NEW b \in Atom, InArrays(b)'
             PROVE  pc'[b] # "unborn"
  BY DEF StartedInv
<1>1. ASSUME NEW a \in Atom, Creates(a), main \in Running
      PROVE  pc'[b] # "unborn"
  <2>1. ASSUME NEW s \in Seq(Atom), NEW k \in 1 .. Len(Append(s, a)), Append(s, a)[k] = b
        PROVE  b = a \/ \E j \in 1 .. Len(s) : s[j] = b
    BY <2>1
  <2>2. InArrays(b) \/ b = a
    BY <1>1, <2>1 DEF Creates, InArrays, ThreadsTypeInv
  <2>3. pc' = [pc EXCEPT ![a] = "entry"]
    BY <1>1 DEF Creates, Spawn, Goto
  <2> QED
    BY <1>1, <2>2, <2>3 DEF StartedInv, ThreadsTypeInv
<1>2. CASE UNCHANGED <<barrierVars, initial_threads, extra_h_threads>> /\ main \in Running
  BY <1>2 DEF InArrays, StartedInv, barrierVars
<1>3. ASSUME NEW a \in Atom, ThreadStep(a)
      PROVE  pc'[b] # "unborn"
  <2>1. UNCHANGED mainVars /\ pc'[a] # "unborn" /\ \A c \in Atom \ {a} : pc'[c] = pc[c]
    BY <1>3, ThreadMoves
  <2>2. main \in Running /\ InArrays(b)
    BY <2>1 DEF mainVars, InArrays
  <2> QED
    BY <2>1, <2>2 DEF StartedInv
<1>4. SpawnCarbon \/ SpawnHydrogen \/ SpawnExtraHydrogen \/ EndSpawning \/ EndCompensation
        => main \in Running
  BY DEF SpawnCarbon, SpawnHydrogen, SpawnInitial, SpawnExtraHydrogen, EndSpawning,
     EndCompensation, Running
<1> QED
  BY <1>1, <1>2, <1>3, <1>4, ThreadsCases DEF Atom, mainVars

\* What a creation or a step of a thread does to the number of those created.
LEMMA AliveMoves ==
  ASSUME ThreadsTypeInv, NEW K \in SUBSET Atom, NEW a \in Atom
  PROVE  /\ Count(K, Alive) \in Nat
         /\ Creates(a) => Count(K, Alive)' = IF a \in K THEN Count(K, Alive) + 1
                                             ELSE Count(K, Alive)
         /\ ThreadStep(a) => Count(K, Alive)' = Count(K, Alive)
<1>1. /\ Count(K, Alive) \in Nat
      /\ Count(K, Alive) = CountIn(pc, K, Alive) /\ Count(K, Alive)' = CountIn(pc', K, Alive)
  BY CountType, CountInState
<1>2. ASSUME Creates(a)
      PROVE  Count(K, Alive)' = IF a \in K THEN Count(K, Alive) + 1 ELSE Count(K, Alive)
  <2>1. /\ pc[a] = "unborn" /\ pc' = [pc EXCEPT ![a] = "entry"]
        /\ "unborn" \notin Alive /\ "entry" \in Alive
    BY <1>2 DEF Creates, Spawn, Goto, Alive, Stage
  <2>2. Moved(a, pc[a], "entry")
    BY <2>1, CountMovePc DEF ThreadsTypeInv
  <2> QED
    BY <1>1, <2>1, <2>2 DEF Moved
<1>3. ASSUME ThreadStep(a)
      PROVE  Count(K, Alive)' = Count(K, Alive)
  <2>1. /\ pc' \in [Atom -> Stage] /\ pc[a] \in Alive /\ pc'[a] \in Alive
        /\ \A b \in Atom \ {a} : pc'[b] = pc[b]
    BY <1>3, ThreadMoves DEF Alive, ThreadsTypeInv
  <2>2. PICK to \in Alive : pc'[a] = to
    BY <2>1
  <2>3. pc' = [pc EXCEPT ![a] = to]
    BY <2>1, <2>2 DEF ThreadsTypeInv
  <2>4. Moved(a, pc[a], to)
    BY <2>3, CountMovePc DEF ThreadsTypeInv
  <2> QED
    BY <1>1, <2>1, <2>4 DEF Moved
<1> QED
  BY <1>1, <1>2, <1>3

LEMMA ForkedKept ==
  ASSUME JoinedInv, ForkedInv, [ThreadsNext]_vars
  PROVE  ForkedInv'
<1> DEFINE c == Count(Carbon, Alive)
           n == Count(Hydrogen, Alive)
           v == Valence * carb_count
<1>1. Carbon \in SUBSET Atom /\ Hydrogen \in SUBSET Atom /\ ThreadsTypeInv
  BY DEF Atom, JoinedInv
<1>2. c \in Nat /\ n \in Nat
  BY <1>1, CountType
<1>3. /\ main \in Running => c = carb_count
      /\ main = "spawn" => n = hydro_count
      /\ main = "compensate" => n = hydro_count + i
      /\ main = "join" => n >= v
      /\ main = "join" /\ ~ Surplus => n = v
  BY DEF ForkedInv
<1>4. ForkedInv' <=>
        /\ main' \in Running => c' = carb_count'
        /\ main' = "spawn" => n' = hydro_count'
        /\ main' = "compensate" => n' = hydro_count' + i'
        /\ main' = "join" => n' >= v'
        /\ main' = "join" /\ ~ Surplus' => n' = v'
  BY DEF ForkedInv
<1>5. i \in Nat /\ carb_count \in Nat /\ hydro_count \in Nat /\ v \in Nat
  BY <1>1, AtomAssumption DEF ThreadsTypeInv
<1>6. UNCHANGED carb_count => v' = v
  OBVIOUS
<1>7. UNCHANGED <<carb_count, hydro_count>> => Surplus' = Surplus
  BY DEF Surplus
<1>8. num_hydro_left = v - hydro_count /\ (main = "compensate" /\ ~ Surplus => i <= num_hydro_left)
  BY <1>1, MissingThreads DEF JoinedInv, ArraysInv
<1>9. UNCHANGED barrierVars => c' = c /\ n' = n
  BY CountStays DEF barrierVars
<1>10. ASSUME NEW a \in Carbon, Creates(a)
       PROVE  c' = c + 1 /\ n' = n
  <2>1. a \in Atom /\ a \notin Hydrogen
    BY AtomAssumption DEF Atom
  <2> QED
    BY <1>1, <1>10, <2>1, AliveMoves
<1>11. ASSUME NEW a \in Hydrogen, Creates(a)
       PROVE  c' = c /\ n' = n + 1
  <2>1. a \in Atom /\ a \notin Carbon
    BY AtomAssumption DEF Atom
  <2> QED
    BY <1>1, <1>11, <2>1, AliveMoves
<1>12. ASSUME NEW a \in Atom, ThreadStep(a)
       PROVE  c' = c /\ n' = n
  BY <1>1, <1>12, AliveMoves
<1> HIDE DEF c, n, v
<1>13. CASE SpawnCarbon /\ \E a \in Carbon : Creates(a)
  BY <1>3, <1>4, <1>5, <1>10, <1>13 DEF SpawnCarbon, SpawnInitial, Running
<1>14. CASE SpawnHydrogen /\ \E a \in Hydrogen : Creates(a)
  BY <1>3, <1>4, <1>5, <1>11, <1>14 DEF SpawnHydrogen, SpawnInitial, Running
<1>15. CASE SpawnExtraHydrogen /\ \E a \in Hydrogen : Creates(a)
  BY <1>2, <1>3, <1>4, <1>5, <1>11, <1>15 DEF SpawnExtraHydrogen, Running
<1>16. CASE EndSpawning
  BY <1>3, <1>4, <1>5, <1>9, <1>16 DEF EndSpawning, Running
<1>17. CASE EndCompensation
  <2>1. /\ c' = c /\ n' = n /\ v' = v /\ main' = "join" /\ UNCHANGED carb_count
        /\ Surplus' = Surplus /\ main = "compensate" /\ i >= num_hydro_left
    BY <1>6, <1>7, <1>9, <1>17 DEF EndCompensation
  <2>2. n = hydro_count + i /\ c = carb_count
    BY <1>3, <2>1 DEF Running
  <2>3. n >= v /\ (~ Surplus => n = v)
    BY <1>5, <1>8, <2>1, <2>2
  <2> QED
    BY <1>4, <2>1, <2>2, <2>3
<1>18. CASE /\ UNCHANGED <<barrierVars, carb_count>>
            /\ main' \notin {"spawn", "compensate", "join"}
            /\ main' \in Running => main \in Running
  BY <1>3, <1>4, <1>9, <1>18
<1>19. CASE /\ UNCHANGED <<barrierVars, carb_count, hydro_count, main>>
            /\ main \notin {"spawn", "compensate"}
  BY <1>3, <1>4, <1>6, <1>7, <1>9, <1>19
<1>20. CASE UNCHANGED mainVars /\ c' = c /\ n' = n
  BY <1>3, <1>4, <1>6, <1>7, <1>20 DEF mainVars
<1> QED
  BY <1>9, <1>12, <1>13, <1>14, <1>15, <1>16, <1>17, <1>18, <1>19, <1>20, ThreadsCases

LEMMA InitHang == ThreadsInit => HangInv
<1> SUFFICES ASSUME ThreadsInit PROVE HangInv
  OBVIOUS
<1>1. IInv /\ JoinedInv
  BY InitIInv, InitJoined DEF ThreadsInit
<1>2. Count(Carbon, Alive) = 0 /\ Count(Hydrogen, Alive) = 0
  <2>1. At(Carbon, Alive) = {} /\ At(Hydrogen, Alive) = {}
    BY DEF ThreadsInit, Init, At, Alive, Atom
  <2> QED
    BY <2>1, FS_EmptySet DEF Count
<1>3. ForkedInv /\ StartedInv
  BY <1>2 DEF ThreadsInit, ForkedInv, StartedInv, InArrays
<1> QED
  BY <1>1, <1>3 DEF HangInv

THEOREM HangInvHolds == ThreadsSpec => []HangInv
<1>1. HangInv /\ [ThreadsNext]_vars => HangInv'
  BY NextJoined, ThreadsKeepBarrier, StartedKept, ForkedKept DEF HangInv, JoinedInv
<1> QED
  BY <1>1, InitHang, PTL DEF ThreadsSpec

\* The thread that main waits for is one that it created.
LEMMA JoinsStarted ==
  ASSUME HangInv, main = "join", i < total_atom_count
  PROVE  Joined(i) \in Atom /\ pc[Joined(i)] # "unborn"
<1>1. /\ ATOM_COUNT \in Nat /\ num_hydro_left \in Int /\ i \in Nat
      /\ i < ATOM_COUNT + num_hydro_left
      /\ num_hydro_left = Valence * carb_count - hydro_count
      /\ Len(initial_threads) = ATOM_COUNT
      /\ initial_threads \in Seq(Atom) /\ extra_h_threads \in Seq(Atom)
  BY MissingThreads, ThreadAssumption
     DEF HangInv, JoinedInv, ThreadsTypeInv, ArraysInv, total_atom_count
<1>2. CASE i < ATOM_COUNT
  <2>1. i + 1 \in 1 .. Len(initial_threads) /\ Joined(i) = initial_threads[i + 1]
    BY <1>1, <1>2 DEF Joined
  <2>2. Joined(i) \in Atom /\ InArrays(Joined(i))
    BY <1>1, <2>1 DEF InArrays
  <2> QED
    BY <2>2 DEF HangInv, StartedInv, Running
<1>3. CASE ~ (i < ATOM_COUNT)
  <2>1. num_hydro_left > 0
    BY <1>1, <1>3
  <2>2. ~ Surplus
    <3> DEFINE v == Valence * carb_count
    <3>1. v \in Nat /\ hydro_count \in Nat
      BY AtomAssumption DEF HangInv, JoinedInv, ThreadsTypeInv
    <3> HIDE DEF v
    <3>2. hydro_count <= v
      BY <1>1, <2>1, <3>1 DEF v
    <3> QED
      BY <3>1, <3>2 DEF Surplus, v
  <2>3. Len(extra_h_threads) = num_hydro_left
    BY <2>2 DEF HangInv, JoinedInv, ArraysInv
  <2>4. /\ i - ATOM_COUNT + 1 \in 1 .. Len(extra_h_threads)
        /\ Joined(i) = extra_h_threads[i - ATOM_COUNT + 1]
    BY <1>1, <1>3, <2>3 DEF Joined
  <2>5. Joined(i) \in Atom /\ InArrays(Joined(i))
    BY <1>1, <2>4 DEF InArrays
  <2> QED
    BY <2>5 DEF HangInv, StartedInv, Running
<1> QED
  BY <1>2, <1>3

\* main hangs only in the join of a surplus hydrogen that sleeps for good, and every
\* carbon has then crossed with its hydrogens: what is left over is surplus.
THEOREM HangsOnSurplus == ThreadsSpec => []HangsOnSurplusOnly
<1>1. HangInv => HangsOnSurplusOnly
  <2> SUFFICES ASSUME HangInv, Stuck
               PROVE  /\ Surplus
                      /\ Joined(i) \in At(Hydrogen, {"wait"})
                      /\ molecules = carb_count
                      /\ Spawned \cap Carbon = At(Carbon, {"exit"})
                      /\ Count(Hydrogen, {"exit"}) = Valence * molecules
    BY DEF HangsOnSurplusOnly
  <2>1. BarrierInv /\ \A a \in Atom : pc[a] \in {"unborn", "exit"} \/ Blocked(a)
    BY DEF HangInv, IInv, Stuck, Spawned, At
  <2>2. /\ Count(Carbon, Alive) = waiting_c + molecules
        /\ Count(Hydrogen, Alive) = waiting_h + Valence * molecules
        /\ Count(Hydrogen, Alive) >= Valence * Count(Carbon, Alive) => waiting_c = 0
        /\ Count(Carbon, {"wait"}) = waiting_c /\ Count(Hydrogen, {"wait"}) = waiting_h
        /\ Count(Hydrogen, {"exit"}) = Valence * molecules
    BY <2>1, NobodyMissing, AllBlocked
  <2>3. \A a \in Atom : pc[a] \in {"unborn", "exit", "wait"}
    BY <2>1, AllBlocked DEF Blocked
  <2>4. /\ Count(Carbon, Alive) = carb_count
        /\ Count(Hydrogen, Alive) >= Valence * carb_count
        /\ ~ Surplus => Count(Hydrogen, Alive) = Valence * carb_count
    BY DEF HangInv, ForkedInv, Stuck, Running
  <2>5. waiting_c \in Nat /\ waiting_h \in Nat /\ molecules \in Nat
    BY <2>1 DEF BarrierInv, TypeOK
  <2>6. waiting_c = 0 /\ molecules = carb_count
    BY <2>2, <2>4, <2>5
  <2>7. At(Carbon, {"wait"}) = {}
    BY <2>2, <2>6, CountType, FS_EmptySet DEF Count, Atom
  <2>8. Joined(i) \in At(Hydrogen, {"wait"})
    <3>1. Joined(i) \in Atom /\ pc[Joined(i)] # "unborn" /\ pc[Joined(i)] # "exit"
      BY JoinsStarted DEF Stuck
    <3> QED
      BY <2>3, <2>7, <3>1 DEF At, Atom
  <2>9. Surplus
    <3> SUFFICES ASSUME ~ Surplus PROVE FALSE
      OBVIOUS
    <3> DEFINE vm == Valence * molecules
    <3>1. vm \in Nat
      BY <2>5, AtomAssumption
    <3>2. waiting_h + vm = vm
      BY <2>2, <2>4, <2>6
    <3> HIDE DEF vm
    <3>3. waiting_h = 0
      BY <2>5, <3>1, <3>2
    <3>4. At(Hydrogen, {"wait"}) = {}
      BY <2>2, <3>3, CountType, FS_EmptySet DEF Count, Atom
    <3> QED
      BY <2>8, <3>4
  <2>10. Spawned \cap Carbon = At(Carbon, {"exit"})
    BY <2>3, <2>7 DEF Spawned, At, Atom
  <2> QED
    BY <2>2, <2>6, <2>8, <2>9, <2>10
<1> QED
  BY <1>1, HangInvHolds, PTL
=============================================================================
