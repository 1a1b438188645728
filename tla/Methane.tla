------------------------------ MODULE Methane ------------------------------
(***************************************************************************)
(* What the CH4 barrier of as5 and as6 promises, without semaphores.       *)
(*                                                                         *)
(* Atoms arrive one at a time.  As soon as one carbon and Valence          *)
(* hydrogens are there unbound, they are one molecule.  An atom leaves     *)
(* only as a member of a molecule: the carbons gone never outnumber the    *)
(* molecules, nor the hydrogens gone the molecules' hydrogens.             *)
(* Which of the waiting atoms of a kind leaves is not promised.            *)
(***************************************************************************)
EXTENDS Integers, FiniteSets

CONSTANTS
  Carbon,     \* the carbon atoms
  Hydrogen,   \* the hydrogen atoms
  Valence     \* hydrogens per carbon: 4 in the code

VARIABLES
  arrived,    \* atoms that came to the barrier
  gone,       \* atoms that crossed it
  molecules   \* molecules made so far

vars == <<arrived, gone, molecules>>

Atom == Carbon \cup Hydrogen

FreeCarbon(A) == Cardinality(A \cap Carbon) - molecules
FreeHydrogen(A) == Cardinality(A \cap Hydrogen) - Valence * molecules

TypeOK ==
  /\ arrived \subseteq Atom
  /\ gone \subseteq arrived
  /\ molecules \in Nat

Init ==
  /\ arrived = {}
  /\ gone = {}
  /\ molecules = 0

\* Atom a arrives, and completes a molecule if it can.
Arrive(a) ==
  /\ a \notin arrived
  /\ arrived' = arrived \cup {a}
  /\ molecules' = IF FreeCarbon(arrived') >= 1 /\ FreeHydrogen(arrived') >= Valence
                  THEN molecules + 1
                  ELSE molecules
  /\ UNCHANGED gone

\* Atom a crosses: there is a molecule with a place for it.
Leave(a) ==
  /\ a \in arrived \ gone
  /\ a \in Carbon   => Cardinality(gone \cap Carbon) < molecules
  /\ a \in Hydrogen => Cardinality(gone \cap Hydrogen) < Valence * molecules
  /\ gone' = gone \cup {a}
  /\ UNCHANGED <<arrived, molecules>>

Next == \E a \in Atom : Arrive(a) \/ Leave(a)

Spec == Init /\ [][Next]_vars

=============================================================================
