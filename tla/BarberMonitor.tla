--------------------------- MODULE BarberMonitor ---------------------------
(***************************************************************************)
(* as4, as4.txt: Tina and Judy's barbershop with a monitor.                *)
(*                                                                         *)
(* A procedure of the monitor runs alone from its entry to its end or to   *)
(* its wait, so that much of it is one step.  A process that is signalled  *)
(* runs next, when the signaller leaves or waits: until it has run nobody  *)
(* enters.  A condition keeps its processes in the order they came.        *)
(***************************************************************************)
EXTENDS Naturals, Sequences, FiniteSets, Functions

CONSTANTS
  Customer,   \* customer processes; each visits the shop once
  Nobody,     \* the pid of the null that poll answers on an empty queue
  N           \* capacity of a line: 5 in the text

ASSUME MonitorAssumption ==
  /\ IsFiniteSet(Customer)
  /\ Nobody \notin Customer
  /\ N \in Nat \ {0}

Barber == {"tina", "judy"}
CustType == Barber \union {"dc"}   \* those who want Tina, Judy, or don't care

VARIABLES
  kind,     \* by customer, their CustType
  line,     \* by CustType, the queue of (pid, time) tuples
  free,     \* by CustType, the customers that wait on c...free
  cust,     \* by customer, how far the visit is
  barber,   \* by barber, how far her round is
  chosen,   \* by barber, the tuple that hello_customer gave her
  now,      \* time of the last arrival, counted from when the lines were empty
  lost      \* history: by CustType, signals on c...free that met nobody

vars == <<kind, line, free, cust, barber, chosen, now, lost>>

NoTuple == [pid |-> Nobody, type |-> "dc"]

Init ==
  /\ kind \in [Customer -> CustType]
  /\ line = [t \in CustType |-> <<>>]
  /\ free = [t \in CustType |-> <<>>]
  /\ cust = [c \in Customer |-> "outside"]
  /\ barber = [b \in Barber |-> "free"]
  /\ chosen = [b \in Barber |-> NoTuple]
  /\ now = 0
  /\ lost = [t \in CustType |-> 0]

\* Mutant: a signalled process competes with those that want to enter.
MonitorOpen == TRUE

\* Nobody may enter while a signalled process is about to run.
MonitorFree ==
  /\ \A b \in Barber : barber[b] # "woken"
  /\ \A c \in Customer : cust[c] # "released"

-----------------------------------------------------------------------------
(* Customers                                                               *)

\* Mutant: only customers who asked for a barber wake one.
WakesOwnOnly(t) == IF t = "dc" THEN {} ELSE {t}

\* Whom a customer of type t signals, on ctinasleeping or cjudysleeping.
Wakes(t) == IF t = "dc" THEN {"tina"} ELSE {t}

\* Mutant: the line takes one more.
HasRoomForOneMore(t) == Len(line[t]) <= N

HasRoom(t) == Len(line[t]) < N

AllEmpty == \A t \in CustType : line[t] = <<>>

GetInLine(c, t) ==
  /\ HasRoom(t)
  /\ \E time \in IF AllEmpty THEN {0} ELSE {now, now + 1} :
       /\ now' = time
       /\ line' = [line EXCEPT ![t] = Append(@, [pid |-> c, time |-> time])]
  /\ cust' = [cust EXCEPT ![c] = "lined"]
  /\ barber' = [b \in Barber |->
                  IF b \in Wakes(t) /\ barber[b] = "asleep"
                  THEN "woken" ELSE barber[b]]

TurnAway(c, t) ==
  /\ ~HasRoom(t)
  /\ cust' = [cust EXCEPT ![c] = "gone"]
  /\ UNCHANGED <<line, barber, now>>

enter_shop(c) ==
  /\ cust[c] = "outside" /\ MonitorFree
  /\ GetInLine(c, kind[c]) \/ TurnAway(c, kind[c])
  /\ UNCHANGED <<kind, free, chosen, lost>>

\* get_haircut up to its wait, and from there to the customer's exit.
get_haircut(c) ==
  /\ cust[c] = "lined" /\ MonitorFree
  /\ cust' = [cust EXCEPT ![c] = "waiting"]
  /\ free' = [free EXCEPT ![kind[c]] = Append(@, c)]
  /\ UNCHANGED <<kind, line, barber, chosen, now, lost>>

Leave(c) ==
  /\ cust[c] = "released"
  /\ cust' = [cust EXCEPT ![c] = "gone"]
  /\ UNCHANGED <<kind, line, free, barber, chosen, now, lost>>

-----------------------------------------------------------------------------
(* Barbers: do_tina_hello and do_judy_hello differ in the line only.       *)

\* Mutant: she always serves those who asked for her first.
NextLineOwn(b) == IF line[b] # <<>> THEN b ELSE "dc"

\* The line she takes from; on equal times it is her own.
NextLine(b) ==
  IF \/ line["dc"] = <<>>
     \/ line[b] # <<>> /\ Head(line[b]).time <= Head(line["dc"]).time
  THEN b ELSE "dc"

\* poll of an empty queue answers null.
Poll(b) ==
  LET t == NextLine(b) IN
  /\ barber' = [barber EXCEPT ![b] = "greeting"]
  /\ \/ /\ line[t] # <<>>
        /\ chosen' = [chosen EXCEPT ![b] = [pid |-> Head(line[t]).pid, type |-> t]]
        /\ line' = [line EXCEPT ![t] = Tail(@)]
     \/ /\ line[t] = <<>>
        /\ chosen' = [chosen EXCEPT ![b] = [pid |-> Nobody, type |-> t]]
        /\ UNCHANGED line

NobodyFor(b) == line[b] = <<>> /\ line["dc"] = <<>>

FallAsleep(b) ==
  /\ NobodyFor(b)
  /\ barber' = [barber EXCEPT ![b] = "asleep"]
  /\ UNCHANGED <<line, chosen>>

hello_customer(b) ==
  /\ barber[b] = "free" /\ MonitorFree
  /\ FallAsleep(b) \/ (~NobodyFor(b) /\ Poll(b))
  /\ UNCHANGED <<kind, free, cust, now, lost>>

\* hello_customer after its wait.
WakeUp(b) ==
  /\ barber[b] = "woken"
  /\ Poll(b)
  /\ UNCHANGED <<kind, free, cust, now, lost>>

\* Mutant: she signals the condition of her own customers.
ChairOwn(b) == b

\* The condition give_haircut signals.
Chair(b) == chosen[b].type

give_haircut(b) ==
  LET t == Chair(b) IN
  /\ barber[b] = "greeting" /\ MonitorFree
  /\ barber' = [barber EXCEPT ![b] = "free"]
  /\ chosen' = [chosen EXCEPT ![b] = NoTuple]
  /\ \/ /\ free[t] # <<>>
        /\ cust' = [cust EXCEPT ![Head(free[t])] = "released"]
        /\ free' = [free EXCEPT ![t] = Tail(@)]
        /\ UNCHANGED lost
     \/ /\ free[t] = <<>>
        /\ lost' = [lost EXCEPT ![t] = @ + 1]
        /\ UNCHANGED <<cust, free>>
  /\ UNCHANGED <<kind, line, now>>

-----------------------------------------------------------------------------

BarberStep(b) == hello_customer(b) \/ WakeUp(b) \/ give_haircut(b)
InShop(c) == get_haircut(c) \/ Leave(c)

Next ==
  \/ \E b \in Barber : BarberStep(b)
  \/ \E c \in Customer : enter_shop(c) \/ InShop(c)

\* Entry to the monitor is first come, first served, so a process that wants
\* to enter does.  No customer has to come.
Spec ==
  /\ Init /\ [][Next]_vars
  /\ \A b \in Barber : WF_vars(BarberStep(b))
  /\ \A c \in Customer : WF_vars(InShop(c))

-----------------------------------------------------------------------------
(* Properties                                                              *)

Waiting(t) == {c \in Customer : kind[c] = t /\ cust[c] \in {"lined", "waiting"}}
InLine(c) == \E x \in Range(line[kind[c]]) : x.pid = c
Greeted(t) == {b \in Barber : barber[b] = "greeting" /\ chosen[b].type = t}

\* The lines are bounded, the conditions hold customers of their kind that
\* wait, and at most one signalled process is about to run.
MonitorTypeOK ==
  /\ kind \in [Customer -> CustType]
  /\ \A t \in CustType :
       /\ line[t] \in Seq([pid : Customer, time : Nat]) /\ Len(line[t]) <= N
       /\ free[t] \in Seq(Customer)
       /\ Range(free[t]) = {c \in Customer : kind[c] = t /\ cust[c] = "waiting"}
  /\ cust \in [Customer -> {"outside", "lined", "waiting", "released", "gone"}]
  /\ barber \in [Barber -> {"free", "asleep", "woken", "greeting"}]
  /\ chosen \in [Barber -> [pid : Customer \union {Nobody}, type : CustType]]
  /\ now \in Nat
  /\ lost \in [CustType -> Nat]
  /\ Cardinality({b \in Barber : barber[b] = "woken"}
                   \union {c \in Customer : cust[c] = "released"}) <= 1

\* A barber who was woken finds somebody in one of her lines, as the comment
\* in do_tina_hello says: nobody else has taken the customer in the meantime.
NeverGreetsNobody ==
  \A b \in Barber : barber[b] = "greeting" => chosen[b].pid \in Customer

\* Whoever a barber takes came no later than anybody she leaves in the two
\* lines she serves.
OldestFirst ==
  [][\A b \in Barber : chosen[b] = NoTuple /\ chosen'[b] # NoTuple =>
       \E x \in Range(line[chosen'[b].type]) :
         /\ x.pid = chosen'[b].pid
         /\ \A y \in Range(line'[b]) \union Range(line'["dc"]) : x.time <= y.time]_vars

\* Of each kind, the customers still to be served are as many as stand in the
\* line or are being greeted, and one more for each signal that met nobody:
\* a barber who calls before the customer has sat down leaves one behind.
LeftBehindBySignals ==
  \A t \in CustType :
    Cardinality(Waiting(t)) = Len(line[t]) + Cardinality(Greeted(t)) + lost[t]

\* Everybody who gets in a line is called by a barber, and leaves with a
\* haircut unless a signal to customers of that kind met nobody.
EveryoneIsCalled ==
  \A c \in Customer :
    /\ InLine(c) ~> ~InLine(c)
    /\ InLine(c) ~> (cust[c] = "gone" \/ lost[kind[c]] > 0)
=============================================================================
