-------------------------- MODULE MCMethaneThreads ------------------------
(* Instances of MethaneThreads for TLC. *)
EXTENDS MethaneThreads

CONSTANT MaxCarbon, MaxHydrogen

\* Thread ids: the carbons first.
MCCarbon == 1 .. MaxCarbon
MCHydrogen == MaxCarbon + 1 .. MaxCarbon + MaxHydrogen
=============================================================================
