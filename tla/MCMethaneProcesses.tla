------------------------ MODULE MCMethaneProcesses ------------------------
(* Instances of MethaneProcesses for TLC. *)
EXTENDS MethaneProcesses

CONSTANT MaxCarbon, MaxHydrogen

\* Process ids: the carbons first.
MCCarbon == 1 .. MaxCarbon
MCHydrogen == MaxCarbon + 1 .. MaxCarbon + MaxHydrogen
=============================================================================
