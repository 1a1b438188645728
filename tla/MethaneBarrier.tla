--------------------------- MODULE MethaneBarrier ---------------------------
(***************************************************************************)
(* The CH4 barrier that the atoms of as5 (processes, System V semaphores)  *)
(* and of as6 (threads, POSIX semaphores) run.  The two programs have the  *)
(* same code here: a mutex S around the two waiting counters, and one      *)
(* semaphore per kind on which the atoms that cannot bond yet block.       *)
(*                                                                         *)
(* A step of the model is one semaphore operation or one run of            *)
(* unsynchronised code between two of them.                                *)
(***************************************************************************)
EXTENDS Integers, FiniteSets

CONSTANTS
  Carbon,     \* the carbon atoms that may be spawned
  Hydrogen,   \* the hydrogen atoms that may be spawned
  Valence     \* hydrogens a carbon needs: 4 in the code

ASSUME AtomAssumption ==
  /\ IsFiniteSet(Carbon)
  /\ IsFiniteSet(Hydrogen)
  /\ Carbon \cap Hydrogen = {}
  /\ Valence \in Nat \ {0}

Atom == Carbon \cup Hydrogen

VARIABLES
  pc,         \* where each atom is in its main()
  sem,        \* values of the three semaphores
  waiting_c,  \* shared counter: carbons waiting and not yet chosen
  waiting_h,  \* shared counter: hydrogens waiting and not yet chosen
  signalled,  \* each atom's loop variable i: hydrogens it has signalled
  molecules   \* history: molecules decided on so far

barrierVars == <<pc, sem, waiting_c, waiting_h, signalled, molecules>>

Semaphore == {"S", "SC", "SH"}

\* "unborn" before fork, "entry" before wait(S), "check" at the if, then
\* "hand" to "unlock" for the atom that completes a molecule, "unlockwait"
\* and "wait" for the others; "exit" after the barrier.  The last three are
\* entered by no step of this module: an atom that never ran its main(), one
\* that died in it, one that left the wait without crossing the barrier.
Stage == {"unborn", "entry", "check", "hand", "handC", "takeC", "unlock",
          "unlockwait", "wait", "exit", "failed", "crashed", "expelled"}

Bonding == {"hand", "handC", "takeC", "unlock"}
Holding == Bonding \cup {"check", "unlockwait"}   \* between wait(S) and sig(S)
Queued  == {"unlockwait", "wait"}

\* The atoms of K that are at one of the stages T.
At(K, T) == {a \in K : pc[a] \in T}
Count(K, T) == Cardinality(At(K, T))

-----------------------------------------------------------------------------

Init ==
  /\ pc = [a \in Atom |-> "unborn"]
  /\ sem = [s \in Semaphore |-> IF s = "S" THEN 1 ELSE 0]
  /\ waiting_c = 0
  /\ waiting_h = 0
  /\ signalled = [a \in Atom |-> 0]
  /\ molecules = 0

Goto(a, from, to) ==
  /\ pc[a] = from
  /\ pc' = [pc EXCEPT ![a] = to]

\* Mutant: semop with IPC_NOWAIT, whose failure is ignored.
my_sem_trywait(s) == sem' = [sem EXCEPT ![s] = IF @ > 0 THEN @ - 1 ELSE 0]

my_sem_wait(s) ==
  /\ sem[s] > 0
  /\ sem' = [sem EXCEPT ![s] = @ - 1]

my_sem_sig(s) == sem' = [sem EXCEPT ![s] = @ + 1]

\* Mutant: every atom looks for Valence hydrogens, a hydrogen too.
PartnersBesides(a) == Valence

\* The hydrogens that atom a must find waiting to complete a molecule.
Partners(a) == IF a \in Carbon THEN Valence ELSE Valence - 1

\* Mutant: off by one in the comparison.
EnoughStrict(a) ==
  /\ waiting_h > Partners(a)
  /\ a \in Hydrogen => waiting_c >= 1

Enough(a) ==
  /\ waiting_h >= Partners(a)
  /\ a \in Hydrogen => waiting_c >= 1

\* main (or another environment) starts atom a.
Spawn(a) ==
  /\ Goto(a, "unborn", "entry")
  /\ UNCHANGED <<sem, waiting_c, waiting_h, signalled, molecules>>

Lock(a) ==
  /\ Goto(a, "entry", "check")
  /\ my_sem_wait("S")
  /\ UNCHANGED <<waiting_c, waiting_h, signalled, molecules>>

\* The test succeeds: a goes on to release its partners.
Bond(a) ==
  /\ Goto(a, "check", "hand")
  /\ Enough(a)
  /\ molecules' = molecules + 1
  /\ UNCHANGED <<sem, waiting_c, waiting_h, signalled>>

\* The test fails: a counts itself as waiting.
Queue(a) ==
  /\ Goto(a, "check", "unlockwait")
  /\ ~ Enough(a)
  /\ waiting_c' = IF a \in Carbon THEN waiting_c + 1 ELSE waiting_c
  /\ waiting_h' = IF a \in Hydrogen THEN waiting_h + 1 ELSE waiting_h
  /\ UNCHANGED <<sem, signalled, molecules>>

\* One iteration of the loop that signals SH.
HandH(a) ==
  /\ pc[a] = "hand"
  /\ signalled[a] < Partners(a)
  /\ my_sem_sig("SH")
  /\ signalled' = [signalled EXCEPT ![a] = @ + 1]
  /\ UNCHANGED <<pc, waiting_c, waiting_h, molecules>>

\* Mutant: takes the hydrogens of a carbon off the counter, whoever bonds.
TakeHValence(a) ==
  /\ Goto(a, "hand", IF a \in Carbon THEN "unlock" ELSE "handC")
  /\ signalled[a] = Partners(a)
  /\ waiting_h' = waiting_h - Valence
  /\ signalled' = [signalled EXCEPT ![a] = 0]
  /\ UNCHANGED <<sem, waiting_c, molecules>>

\* The loop ends; only now are its hydrogens taken off the counter.
TakeH(a) ==
  /\ Goto(a, "hand", IF a \in Carbon THEN "unlock" ELSE "handC")
  /\ signalled[a] = Partners(a)
  /\ waiting_h' = waiting_h - Partners(a)
  /\ signalled' = [signalled EXCEPT ![a] = 0]
  /\ UNCHANGED <<sem, waiting_c, molecules>>

\* Mutant: the signal to the carbon is forgotten.
HandCSilent(a) ==
  /\ Goto(a, "handC", "takeC")
  /\ UNCHANGED <<sem, waiting_c, waiting_h, signalled, molecules>>

HandC(a) ==
  /\ Goto(a, "handC", "takeC")
  /\ my_sem_sig("SC")
  /\ UNCHANGED <<waiting_c, waiting_h, signalled, molecules>>

TakeC(a) ==
  /\ Goto(a, "takeC", "unlock")
  /\ waiting_c' = waiting_c - 1
  /\ UNCHANGED <<sem, waiting_h, signalled, molecules>>

Unlock(a) ==
  /\ Goto(a, "unlock", "exit")
  /\ my_sem_sig("S")
  /\ UNCHANGED <<waiting_c, waiting_h, signalled, molecules>>

\* Mutant: goes to sleep with the mutex.
UnlockWaitHolding(a) ==
  /\ Goto(a, "unlockwait", "wait")
  /\ UNCHANGED <<sem, waiting_c, waiting_h, signalled, molecules>>

UnlockWait(a) ==
  /\ Goto(a, "unlockwait", "wait")
  /\ my_sem_sig("S")
  /\ UNCHANGED <<waiting_c, waiting_h, signalled, molecules>>

\* Mutant: carbons sleep on the semaphore of the hydrogens.
WakeOnSH(a) ==
  /\ Goto(a, "wait", "exit")
  /\ my_sem_wait("SH")
  /\ UNCHANGED <<waiting_c, waiting_h, signalled, molecules>>

\* A blocked atom gets a token of its kind and crosses.
Wake(a) ==
  /\ Goto(a, "wait", "exit")
  /\ my_sem_wait(IF a \in Carbon THEN "SC" ELSE "SH")
  /\ UNCHANGED <<waiting_c, waiting_h, signalled, molecules>>

\* What an atom does between its two printed lines, one step of it.
AtomStep(a) ==
  \/ Lock(a)
  \/ Bond(a)
  \/ Queue(a)
  \/ HandH(a)
  \/ TakeH(a)
  \/ HandC(a)
  \/ TakeC(a)
  \/ Unlock(a)
  \/ UnlockWait(a)
  \/ Wake(a)

Next == \E a \in Atom : Spawn(a) \/ AtomStep(a)

Spec == Init /\ [][Next]_barrierVars

\* Every atom is spawned in the end and the scheduler runs every atom that
\* can run.  Each atom takes S once, so weak fairness is enough to get it.
FairSpec == Spec /\ \A a \in Atom : WF_barrierVars(Spawn(a)) /\ WF_barrierVars(AtomStep(a))

-----------------------------------------------------------------------------
(* Properties *)

TypeOK ==
  /\ pc \in [Atom -> Stage]
  /\ sem \in [Semaphore -> Nat]
  /\ waiting_c \in Nat
  /\ waiting_h \in Nat
  /\ signalled \in [Atom -> 0 .. Valence]
  /\ molecules \in Nat

\* The counters are only touched by the one atom that is between wait(S) and
\* sig(S), and S is free exactly when there is none (carbon.c:18-37).
MutualExclusion ==
  /\ sem["S"] \in {0, 1}
  /\ sem["S"] = 1 <=> At(Atom, Holding) = {}
  /\ \A a, b \in At(Atom, Holding) : a = b

\* Tokens the holder of S has signalled and not yet taken off waiting_h.
Handed == IF At(Atom, {"hand"}) = {} THEN 0
          ELSE signalled[CHOOSE a \in At(Atom, {"hand"}) : TRUE]

\* No token is lost or made up: an atom that counted itself as waiting is
\* either still on its counter or has a token of its kind waiting for it.
TokensMatchWaiters ==
  /\ Count(Hydrogen, Queued) = sem["SH"] + waiting_h - Handed
  /\ Count(Carbon, Queued) = sem["SC"] + waiting_c - Count(Hydrogen, {"takeC"})

\* Atoms cross only as parts of whole molecules (what the programs print as
\* "a full set of C and H").
WholeMolecules ==
  /\ Count(Carbon, {"exit"}) <= molecules
  /\ Count(Hydrogen, {"exit"}) <= Valence * molecules

\* No molecule could be made of the atoms that are counted as waiting: the
\* atom that completes one never goes to sleep instead.
NoMissedMolecule == waiting_c = 0 \/ waiting_h < Valence

\* Where a semaphore blocks an atom: S, or that of its kind.
Blocked(a) ==
  \/ pc[a] = "entry" /\ sem["S"] = 0
  \/ pc[a] = "wait" /\ sem[IF a \in Carbon THEN "SC" ELSE "SH"] = 0

\* Everybody a molecule has a place for crosses the barrier in the end, and as
\* many molecules as the atoms allow are made.
MostMolecules ==
  LET c == Cardinality(Carbon)
      h == Cardinality(Hydrogen) \div Valence
  IN  IF c <= h THEN c ELSE h

AllBonded ==
  <>[](/\ molecules = MostMolecules
       /\ Count(Carbon, {"exit"}) = molecules
       /\ Count(Hydrogen, {"exit"}) = Valence * molecules)

-----------------------------------------------------------------------------
(* The inductive invariant behind these properties *)

\* The loop of a bonder counts up to its partners, and only there.
LoopInv ==
  \A a \in Atom :
    /\ signalled[a] <= Partners(a)
    /\ pc[a] # "hand" => signalled[a] = 0

\* Only hydrogens look for a carbon, and a bonder's partners stay on the
\* counters until it takes them off.
BonderInv ==
  /\ \A a \in Carbon : pc[a] \notin {"handC", "takeC"}
  /\ \A a \in Atom :
       /\ pc[a] = "hand" => Enough(a)
       /\ pc[a] \in {"handC", "takeC"} => waiting_c >= 1

\* TokensMatchWaiters with the loop variable of the bonder, whichever it is.
TokenInv ==
  /\ At(Atom, {"hand"}) = {} => Count(Hydrogen, Queued) = sem["SH"] + waiting_h
  /\ \A a \in At(Atom, {"hand"}) :
       Count(Hydrogen, Queued) = sem["SH"] + waiting_h - signalled[a]
  /\ Count(Carbon, Queued) = sem["SC"] + waiting_c - Count(Hydrogen, {"takeC"})

\* Every atom that made its test is on a counter or belongs to a molecule.
Tested(K) == Count(K, Bonding) + Count(K, Queued) + Count(K, {"exit"})

MoleculeInv ==
  /\ At(Atom, {"hand"}) = {} => Tested(Hydrogen) = waiting_h + Valence * molecules
  /\ \A a \in At(Atom, {"hand"}) :
       Tested(Hydrogen) = waiting_h + Valence * molecules - Partners(a)
  /\ Tested(Carbon) =
       waiting_c + molecules - Count(Hydrogen, {"hand", "handC", "takeC"})

\* Nobody ends other than by crossing.
NobodyLost == At(Atom, {"failed", "crashed", "expelled"}) = {}

BarrierInv ==
  /\ TypeOK
  /\ MutualExclusion
  /\ LoopInv
  /\ BonderInv
  /\ TokenInv
  /\ MoleculeInv
  /\ NoMissedMolecule

IInv == BarrierInv /\ NobodyLost

-----------------------------------------------------------------------------
(* Refinement: an atom has arrived once it has made its test under S. *)

Arrived == At(Atom, Bonding \cup Queued \cup {"exit", "expelled"})

Abstract == INSTANCE Methane WITH
  arrived   <- Arrived,
  gone      <- At(Atom, {"exit"}),
  molecules <- molecules

ImplementsMethane == Abstract!Spec

=============================================================================
