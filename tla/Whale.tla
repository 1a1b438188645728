------------------------------- MODULE Whale -------------------------------
(***************************************************************************)
(* as1, as1.C: the parent P0 and its children C1 and C2 count the variable *)
(* WHALE down from 7.  Each process has an environment of its own, and     *)
(* only the pauses between their lines make the lines come in order.       *)
(*                                                                         *)
(* tock(n) sleeps for at least n time steps.  A process that could go on   *)
(* and does not is late; the model lets each be late for MaxLate in all.   *)
(***************************************************************************)
EXTENDS Integers, Sequences, SequencesExt

CONSTANTS
  Grain,      \* moments in a time step of tock: 4000 microseconds in the code
  MaxLate,    \* bound: moments a process may be late in all
  ForkFails   \* whether fork may fail

ASSUME WhaleAssumption ==
  /\ Grain \in Nat \ {0} /\ MaxLate \in Nat
  /\ ForkFails \in BOOLEAN

Child == {"C1", "C2"}
Process == {"P0"} \union Child

VARIABLES
  stage,    \* by process: "unborn", "running", "ending", "zombie", "reaped"
  script,   \* by process, what it has still to do
  whale,    \* by process, WHALE in its environment
  pause,    \* by process, what is left of its sleep
  late,     \* by process, how late it is by now
  shrimp,   \* the numbers in the lines printed so far
  failed    \* whether a fork failed

vars == <<stage, script, whale, pause, late, shrimp, failed>>

tock(n) == [op |-> "tock", n |-> n]
subtract(n) == [op |-> "subtract", n |-> n]   \* and print the shrimp line
fork(p) == [op |-> "fork", child |-> p]
wait == [op |-> "wait"]

\* Mutants: C2 starts with C1; the parent waits once.
run_C2_early == <<tock(1), tock(3), subtract(2), tock(3), subtract(3), tock(3)>>
run_parent_once ==
  <<tock(3), subtract(0), tock(3), subtract(3), tock(3), subtract(3), tock(3),
    wait, subtract(1)>>

run_C1 == <<tock(1), tock(3), subtract(1), tock(3), subtract(3), tock(3)>>
run_C2 == <<tock(2), tock(3), subtract(2), tock(3), subtract(3), tock(3)>>
run_parent_process ==
  <<tock(3), subtract(0), tock(3), subtract(3), tock(3), subtract(3), tock(3),
    wait, wait, subtract(1)>>

main == <<fork("C1"), fork("C2")>> \o run_parent_process

Init ==
  /\ stage = [p \in Process |-> IF p = "P0" THEN "running" ELSE "unborn"]
  /\ script = [p \in Process |-> CASE p = "P0" -> main
                                   [] p = "C1" -> run_C1
                                   [] p = "C2" -> run_C2]
  /\ whale = [p \in Process |-> 7]
  /\ pause = [p \in Process |-> 0]
  /\ late = [p \in Process |-> 0]
  /\ shrimp = <<>>
  /\ failed = FALSE

-----------------------------------------------------------------------------

Instruction(p) == Head(script[p])
Doing(p, op) ==
  /\ stage[p] = "running" /\ pause[p] = 0
  /\ script[p] # <<>> /\ Instruction(p).op = op
Done(p) == script' = [script EXCEPT ![p] = Tail(@)]

Tock(p) ==
  /\ Doing(p, "tock") /\ Done(p)
  /\ pause' = [pause EXCEPT ![p] = Grain * Instruction(p).n]
  /\ UNCHANGED <<stage, whale, late, shrimp, failed>>

\* Mutant: the processes share one variable.
SetEverywhere(p, v) == [q \in Process |-> v]

setenv(p, v) == [whale EXCEPT ![p] = v]

Subtract(p) ==
  LET val == whale[p] - Instruction(p).n IN
  /\ Doing(p, "subtract") /\ Done(p)
  /\ whale' = setenv(p, val)
  /\ shrimp' = Append(shrimp, val)
  /\ UNCHANGED <<stage, pause, late, failed>>

\* The child starts with a copy of the environment, and as late as its parent.
Fork ==
  /\ Doing("P0", "fork") /\ Done("P0")
  /\ LET c == Instruction("P0").child IN
     \/ /\ stage' = [stage EXCEPT ![c] = "running"]
        /\ whale' = [whale EXCEPT ![c] = whale["P0"]]
        /\ late' = [late EXCEPT ![c] = late["P0"]]
        /\ UNCHANGED failed
     \/ /\ ForkFails
        /\ failed' = TRUE
        /\ UNCHANGED <<stage, whale, late>>
  /\ UNCHANGED <<pause, shrimp>>

Zombies == {c \in Child : stage[c] = "zombie"}

\* wait takes any child that has ended, and returns at once if there is none left.
Wait ==
  /\ Doing("P0", "wait") /\ Done("P0")
  /\ \/ \E c \in Zombies : stage' = [stage EXCEPT ![c] = "reaped"]
     \/ /\ \A c \in Child : stage[c] \in {"unborn", "reaped"}
        /\ UNCHANGED stage
  /\ UNCHANGED <<whale, pause, late, shrimp, failed>>

\* C1 becomes ls or gives up, C2 tells its directory; both then end, some time.
Finish(p) ==
  /\ stage[p] = "running" /\ script[p] = <<>> /\ pause[p] = 0
  /\ stage' = [stage EXCEPT ![p] = "ending"]
  /\ UNCHANGED <<script, whale, pause, late, shrimp, failed>>

Exit(p) ==
  /\ stage[p] = "ending"
  /\ stage' = [stage EXCEPT ![p] = IF p = "P0" THEN "reaped" ELSE "zombie"]
  /\ UNCHANGED <<script, whale, pause, late, shrimp, failed>>

Blocked(p) == Doing(p, "wait") /\ Zombies = {} /\ \E c \in Child : stage[c] \in {"running", "ending"}

\* A moment passes: sleepers sleep on, and who could run is late.
Tick ==
  LET idle == {p \in Process : stage[p] = "running" /\ pause[p] = 0 /\ ~Blocked(p)} IN
  /\ \E p \in Process : stage[p] = "running" /\ pause[p] > 0
  /\ \A p \in idle : late[p] < MaxLate
  /\ late' = [p \in Process |-> IF p \in idle THEN late[p] + 1 ELSE late[p]]
  /\ pause' = [p \in Process |-> IF pause[p] > 0 THEN pause[p] - 1 ELSE 0]
  /\ UNCHANGED <<stage, script, whale, shrimp, failed>>

ProcessStep(p) == Tock(p) \/ Subtract(p) \/ Finish(p) \/ Exit(p)
Next == (\E p \in Process : ProcessStep(p)) \/ Fork \/ Wait \/ Tick

\* Processes run and time passes.
Spec ==
  /\ Init /\ [][Next]_vars
  /\ \A p \in Process : WF_vars(ProcessStep(p))
  /\ WF_vars(Fork) /\ WF_vars(Wait) /\ WF_vars(Tick)

-----------------------------------------------------------------------------
(* Properties *)

CountDown == <<7, 6, 5, 4, 3, 2, 1, 0>>

\* As long as nobody is late for a whole time step in all, the lines of the
\* three processes count down without a gap, whatever they do within the time.
CountsDown ==
  ~failed /\ (\A p \in Process : late[p] < Grain) => IsPrefix(shrimp, CountDown)

\* "Waits until children C1 and C2 terminated, then retrieves WHALE, decrements
\* it to 0" (as1.C, run_parent_process): the 0 comes when every child that was
\* forked has been reaped, however late, and is the last line.
FinalAfterChildren ==
  \A k \in DOMAIN shrimp : shrimp[k] = 0 =>
    /\ k = Len(shrimp)
    /\ \A c \in Child : stage[c] \in {"unborn", "reaped"}

\* However late they are, all processes end, and between them they have said
\* each number once: their environments do not touch each other.
EveryNumberOnce ==
  <>(/\ \A p \in Process : stage[p] = "reaped" \/ (failed /\ stage[p] = "unborn")
     /\ IsInjective(shrimp)
     /\ ~failed => Range(shrimp) = Range(CountDown))
=============================================================================
