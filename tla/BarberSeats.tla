---------------------------- MODULE BarberSeats ----------------------------
(***************************************************************************)
(* as3, as3.c: Tina and Judy's barbershop with semaphores.  Each line is a *)
(* ring of N seats with a mutex, a count of free seats and a counting      *)
(* semaphore its customers wait on; each barber sleeps on a semaphore of   *)
(* her own.  A step runs from one semaphore operation to the next; a       *)
(* stretch under the mutex of one line is one step.                        *)
(*                                                                         *)
(* Where the text counts the seats of the don't-care line it assigns to    *)
(* DontCareSeats, the array, and not to DontCareFreeSeats (as3.c:430,      *)
(* 458).  Readings says whether that is taken as written, so that the      *)
(* count never changes, or as its comments mean it.                        *)
(***************************************************************************)
EXTENDS Naturals, Sequences, FiniteSets

CONSTANTS
  Customer,   \* customer threads; each visits the shop once
  Kinds,      \* the lines for which they may come, as functions from Customer
  N,          \* seats of a line: 5 in the text
  Readings    \* those considered, of FALSE (as written) and TRUE (as meant)

ASSUME SeatsAssumption ==
  /\ IsFiniteSet(Customer)
  /\ Kinds \subseteq [Customer -> {"tina", "judy", "dc"}]
  /\ N \in Nat \ {0}
  /\ Readings \subseteq BOOLEAN

Barber == {"tina", "judy"}
Line == Barber \union {"dc"}
Seat == 0 .. N - 1

VARIABLES
  counted,    \* whether the free seats of the don't-care line are counted
  kind,       \* by customer, the line for which it came
  line,       \* by customer, the line it is at
  stage,      \* by customer, how far it is there
  round,      \* by barber, how far her round is
  calling,    \* by barber, the line she takes her customer from
  awake,      \* by barber, the counting semaphore Tina or Judy
  access,     \* by line, the binary semaphore ...SeatAccess
  called,     \* by line, the counting semaphore ...Custs
  queue,      \* by line, who is blocked on it, in order
  free,       \* by line, ...FreeSeats
  next_seat,  \* by line, ...CustNextSeat
  next_serve, \* by line, ...NextServe
  seats       \* by line, ...Seats: whose pid is in each

custVars == <<kind, line, stage>>
barberVars == <<round, calling>>
vars == <<counted, custVars, barberVars, awake, access, called, queue, free,
          next_seat, next_serve, seats>>

Init ==
  /\ counted \in Readings
  /\ kind \in Kinds
  /\ line = kind
  /\ stage = [c \in Customer |-> "outside"]
  /\ round = [b \in Barber |-> "asleep"]
  /\ calling = [b \in Barber |-> b]
  /\ awake = [b \in Barber |-> 0]
  /\ access = [t \in Line |-> 1]
  /\ called = [t \in Line |-> 0]
  /\ queue = [t \in Line |-> <<>>]
  /\ free = [t \in Line |-> N]
  /\ next_seat = [t \in Line |-> 0]
  /\ next_serve = [t \in Line |-> 0]
  /\ seats = [t \in Line |-> [s \in Seat |-> "nobody"]]

-----------------------------------------------------------------------------
(* Customers.  All three routines are one, with the line as parameter.     *)

\* Those who do not care go on from line to line, haircut or not.
MoveOn(c) ==
  \/ /\ kind[c] = "dc" /\ line[c] # "judy"
     /\ line' = [line EXCEPT ![c] = IF @ = "dc" THEN "tina" ELSE "judy"]
     /\ stage' = [stage EXCEPT ![c] = "arriving"]
  \/ /\ kind[c] # "dc" \/ line[c] = "judy"
     /\ stage' = [stage EXCEPT ![c] = "gone"]
     /\ UNCHANGED line

FreeSeats(t, n) == IF t = "dc" /\ ~counted THEN free ELSE [free EXCEPT ![t] = n]

Arrive(c) == stage[c] \in {"outside", "arriving"} /\ access[line[c]] = 1

SitDown(c) ==
  LET t == line[c]
      s == next_seat[t] % N
  IN  /\ Arrive(c) /\ free[t] > 0
      /\ free' = FreeSeats(t, free[t] - 1)
      /\ next_seat' = [next_seat EXCEPT ![t] = s + 1]
      /\ seats' = [seats EXCEPT ![t][s] = "customer"]
      /\ stage' = [stage EXCEPT ![c] = "seated"]
      /\ UNCHANGED <<counted, kind, line, barberVars, awake, access, called,
                     queue, next_serve>>

TurnAway(c) ==
  /\ Arrive(c) /\ free[line[c]] = 0
  /\ MoveOn(c)
  /\ UNCHANGED <<counted, kind, barberVars, awake, access, called, queue,
                 free, next_seat, next_serve, seats>>

\* Mutant: only a customer who finds the line empty wakes the barber.
WakesIfFirst(t) == {b \in {t} : free[t] = N - 1}

\* Whom the customers of a line wake.
Wakes(t) == IF t = "dc" THEN {"tina"} ELSE {t}

Knock(c) ==
  /\ stage[c] = "seated"
  /\ awake' = [b \in Barber |-> IF b \in Wakes(line[c]) THEN awake[b] + 1 ELSE awake[b]]
  /\ stage' = [stage EXCEPT ![c] = "knocked"]
  /\ UNCHANGED <<counted, kind, line, barberVars, access, called, queue,
                 free, next_seat, next_serve, seats>>

\* wait(...Custs): it goes through, or blocks in the order of arrival.
WaitTurn(c) ==
  LET t == line[c] IN
  /\ stage[c] = "knocked"
  /\ \/ /\ called[t] > 0
        /\ called' = [called EXCEPT ![t] = @ - 1]
        /\ stage' = [stage EXCEPT ![c] = "called"]
        /\ UNCHANGED queue
     \/ /\ called[t] = 0
        /\ queue' = [queue EXCEPT ![t] = Append(@, c)]
        /\ stage' = [stage EXCEPT ![c] = "waiting"]
        /\ UNCHANGED called
  /\ UNCHANGED <<counted, kind, line, barberVars, awake, access, free,
                 next_seat, next_serve, seats>>

\* Mutant: the seat is not given back.
GetUpSilently(c) ==
  /\ stage[c] = "called" /\ access[line[c]] = 1
  /\ MoveOn(c)
  /\ UNCHANGED <<counted, kind, barberVars, awake, access, called, queue,
                 free, next_seat, next_serve, seats>>

\* The customer notes the pid in its seat, which nothing reads later, and gives
\* the seat back; the haircut follows.
GetUp(c) ==
  LET t == line[c] IN
  /\ stage[c] = "called" /\ access[t] = 1
  /\ free' = FreeSeats(t, free[t] + 1)
  /\ MoveOn(c)
  /\ UNCHANGED <<counted, kind, barberVars, awake, access, called, queue,
                 next_seat, next_serve, seats>>

-----------------------------------------------------------------------------
(* Barbers.  Both routines are one, with the barber as parameter.          *)

WakeUp(b) ==
  /\ round[b] = "asleep" /\ awake[b] > 0
  /\ awake' = [awake EXCEPT ![b] = @ - 1]
  /\ round' = [round EXCEPT ![b] = "awake"]
  /\ UNCHANGED <<counted, custVars, calling, access, called, queue, free,
                 next_seat, next_serve, seats>>

LockOwn(b) ==
  /\ round[b] = "awake" /\ access[b] = 1
  /\ access' = [access EXCEPT ![b] = 0]
  /\ round' = [round EXCEPT ![b] = "peeking"]
  /\ UNCHANGED <<counted, custVars, calling, awake, called, queue, free,
                 next_seat, next_serve, seats>>

\* Lines with a taken seat.  If both have one the seats are compared, but no
\* time stamp was ever stored in them: either may come out.
Taken(b) == {t \in {b, "dc"} : free[t] < N}

\* wait(DontCareSeatAccess) and the choice; she keeps the mutex of the line
\* she serves and gives up the other one, or both.
Choose(b) ==
  /\ round[b] = "peeking" /\ access["dc"] = 1
  /\ \/ \E t \in Taken(b) :
          /\ calling' = [calling EXCEPT ![b] = t]
          /\ access' = [access EXCEPT ![b] = 1, !["dc"] = 1, ![t] = 0]
          /\ round' = [round EXCEPT ![b] = "choosing"]
     \/ /\ Taken(b) = {}
        /\ access' = [access EXCEPT ![b] = 1]
        /\ round' = [round EXCEPT ![b] = "asleep"]
        /\ UNCHANGED calling
  /\ UNCHANGED <<counted, custVars, awake, called, queue, free, next_seat,
                 next_serve, seats>>

\* Mutant: the next round starts at the same seat.
ServeSameSeat(t, s) == [next_serve EXCEPT ![t] = s]

NextToServe(t, s) == [next_serve EXCEPT ![t] = s + 1]

\* doTina, doJudy or doDontCare up to the release of the mutex.
Serve(b) ==
  LET t == calling[b]
      s == next_serve[t] % N
  IN  /\ round[b] = "choosing"
      /\ next_serve' = NextToServe(t, s)
      /\ seats' = [seats EXCEPT ![t][s] = "barber"]
      /\ access' = [access EXCEPT ![t] = 1]
      /\ round' = [round EXCEPT ![b] = "calling"]
      /\ UNCHANGED <<counted, custVars, calling, awake, called, queue, free, next_seat>>

\* signal(...Custs); the haircut follows.
Call(b) ==
  LET t == calling[b] IN
  /\ round[b] = "calling"
  /\ round' = [round EXCEPT ![b] = "asleep"]
  /\ calling' = [calling EXCEPT ![b] = b]
  /\ \/ /\ queue[t] # <<>>
        /\ stage' = [stage EXCEPT ![Head(queue[t])] = "called"]
        /\ queue' = [queue EXCEPT ![t] = Tail(@)]
        /\ UNCHANGED called
     \/ /\ queue[t] = <<>>
        /\ called' = [called EXCEPT ![t] = @ + 1]
        /\ UNCHANGED <<stage, queue>>
  /\ UNCHANGED <<counted, kind, line, awake, access, free,
                 next_seat, next_serve, seats>>

-----------------------------------------------------------------------------

BarberStep(b) == WakeUp(b) \/ LockOwn(b) \/ Choose(b) \/ Serve(b) \/ Call(b)
EnterLine(c) == SitDown(c) \/ TurnAway(c)
InShop(c) ==
  \/ stage[c] = "arriving" /\ EnterLine(c)
  \/ Knock(c) \/ WaitTurn(c) \/ GetUp(c)

Next ==
  \/ \E b \in Barber : BarberStep(b)
  \/ \E c \in Customer : EnterLine(c) \/ Knock(c) \/ WaitTurn(c) \/ GetUp(c)

\* Every thread that can run does.  Mutexes are fair ("threads are released by a
\* semaphore in the queuing order", as3.c:11), but as each customer takes them a
\* few times only, weak fairness is enough.  Nobody has to come.
Spec ==
  /\ Init /\ [][Next]_vars
  /\ \A b \in Barber : WF_vars(BarberStep(b))
  /\ \A c \in Customer : WF_vars(InShop(c))

-----------------------------------------------------------------------------
(* Properties                                                              *)

At(t, stages) == Cardinality({c \in Customer : line[c] = t /\ stage[c] \in stages})

\* A line whose seats are counted never has more customers than seats.
SeatsTypeOK ==
  /\ counted \in Readings
  /\ kind \in Kinds /\ line \in [Customer -> Line]
  /\ stage \in [Customer -> {"outside", "arriving", "seated", "knocked",
                             "waiting", "called", "gone"}]
  /\ round \in [Barber -> {"asleep", "awake", "peeking", "choosing", "calling"}]
  /\ calling \in [Barber -> Line] /\ \A b \in Barber : calling[b] \in {b, "dc"}
  /\ awake \in [Barber -> Nat]
  /\ access \in [Line -> {0, 1}]
  /\ called \in [Line -> Nat]
  /\ queue \in [Line -> Seq(Customer)]
  /\ next_seat \in [Line -> 0 .. N] /\ next_serve \in [Line -> 0 .. N]
  /\ seats \in [Line -> [Seat -> {"customer", "barber", "nobody"}]]
  /\ free \in [Line -> 0 .. N]
  /\ \A t \in Line : (t # "dc" \/ counted) =>
       N - free[t] = At(t, {"seated", "knocked", "waiting", "called"})

\* Nothing but the customers of her own line concerns this barber: nobody came
\* who does not care, or she is Judy, whom those do not wake, and she does not
\* see their line.
Undisturbed(b) ==
  \/ \A c \in Customer : kind[c] # "dc"
  \/ b = "judy" /\ ~counted

\* "Tina or Judy will stay awake if either has at least one customer given the
\* counting semaphore nature of their operations" (as3.c:21): for each customer
\* who woke an undisturbed barber and is still to get up, her semaphore has a
\* unit, or she is in her round for it, or it has been called.
AwakeForEachCustomer ==
  \A b \in Barber : Undisturbed(b) =>
    At(b, {"knocked", "waiting"}) =
      awake[b] + (IF round[b] = "asleep" THEN 0 ELSE 1) + called[b]

\* An undisturbed barber about to serve finds the pid of a customer in the seat,
\* one she has not served yet, although the free seats she tested also count those
\* who were called and did not get up.
ServesTakenSeat ==
  \A b \in Barber : Undisturbed(b) /\ round[b] = "choosing" =>
    seats[b][next_serve[b] % N] = "customer"

\* Whoever sits down in the line of an undisturbed barber leaves with a haircut.
EverybodyServed ==
  <>[](\A c \in Customer :
         kind[c] # "dc" /\ Undisturbed(kind[c]) => stage[c] \in {"outside", "gone"})

\* "Tina or Judy will stay awake if either has at least one customer": they are
\* not both asleep, with nobody about to wake them, while somebody is waiting.
AwakeIfNeeded ==
  /\ \A b \in Barber : round[b] = "asleep" /\ awake[b] = 0
  /\ \A c \in Customer : stage[c] \in {"outside", "waiting", "gone"}
  => \A t \in Line : queue[t] = <<>>
=============================================================================
