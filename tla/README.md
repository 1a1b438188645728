# Verification of the EECS 338 programs

The repository holds seven assignments of an operating-systems course.  Each is
a small concurrent system of its own: processes with System V semaphores,
threads with POSIX semaphores, processes with pipes, an RPC server with its
clients, and two designs in pseudo-code.  This directory models them in TLA+,
checks the models with TLC and proves with TLAPS, for every value of the
constants, their safety properties.

## Inventory

| part | state it keeps | operations | how its parts interact | hard behaviour |
|---|---|---|---|---|
| **as5** atoms (`carbon.c`, `hydrogen.c`, `as5.h`) | semaphores `S`, `SC`, `SH`; shared `waiting_c`, `waiting_h` | arrive at the barrier, complete a molecule or wait | System V semaphores and shared memory between processes | interleaving, tokens signalled before the receiver sleeps |
| **as5** main (`as5.c`) | loop counters, IPC objects | fork 25 random atoms, fork the missing hydrogens, reap, remove the IPC objects | fork/exec/wait | surplus draws, failing fork and exec, removal under waiting atoms |
| **as6** (`as6.c`, `as6.h`) | the same with POSIX semaphores, thread ids | the same with create, join, destroy | threads of one process | join order, use of destroyed semaphores, arrays of negative length |
| **as7** server (`main_server.c`) | message arrays, client list, read cursors | `put`, `get` | called by the RPC dispatcher, one request at a time | repeated requests, slots found by id, capacity |
| **as7** clients (`main_client.c`, `main_clnt.c`, `main_svc.c`) | own id, current call | 5 puts, 10 gets | Sun RPC over UDP with retransmission | loss, delay, duplicates, timeouts, clients that start at different times |
| **as2** (`as2.c`) | pipes and who holds which end, counts | feed lines, map, reduce, wait | pipes inherited through fork | end of a pipe depends on every process that inherited it |
| **as4** (`as4.txt`) | three lines, five conditions | barbers and customers of a barbershop, in a monitor | monitor with signal-and-continue conditions | lost signals, the wrong customer released |
| **as3** (`as3.c`, all in comments) | seats, counting and binary semaphores | the same with semaphores | semaphores | wrong counters, lost wake-ups |
| **as1** (`as1.C`) | an environment variable per process | three processes count it down | fork, wait, pauses | private copies, order kept only by pauses |

What makes each part correct: an atom crosses the barrier only in a whole
molecule and every atom that can be bonded is (as5, as6); `main` ends, and
removes or destroys nothing that is in use; every client of as7 gets every
message of the others once, in order, and what the server acknowledged is
stored; as2 prints the final count of every letter and all its processes exit;
the barbers of as3 and as4 serve every customer in a line.

## Modules

| module | models |
|---|---|
| `Methane` | what the barrier promises: arrivals, molecules, departures |
| `MethaneBarrier` | the barrier of as5 and as6, one step per semaphore operation or stretch of code between two of them |
| `MethaneBarrierProofs` | theorems about it |
| `MethaneProcesses` | as5: `main` with fork, exec, wait and removal, around the barrier |
| `MethaneProcessesProofs` | theorems about it |
| `MethaneThreads` | as6: `main` with create, join and destroy, around the barrier |
| `MethaneThreadsProofs` | theorems about it |
| `MessageBoard` | what the server of as7 promises |
| `DisplayServer` | `put_1_svc` and `get_1_svc` over the global arrays |
| `Display` | clients, RPC library, network and dispatcher around the server |
| `DisplayProofs` | theorems about the server alone and about the whole, to which the server's carry over |
| `LetterReport` | what as2 promises |
| `MapReduce` | as2: parent, mappers and reducers, with the pipe ends each holds |
| `MapReduceProofs` | theorems about it |
| `BarberMonitor` | as4: the monitor, its barbers and its customers |
| `BarberMonitorProofs` | theorems about it |
| `BarberSeats` | as3: the same shop with rings of seats and semaphores |
| `BarberSeatsProofs` | theorems about it |
| `Whale` | as1: the parent and its two children, their environments and pauses |
| `WhaleProofs` | theorems about it |
| `MC...` | instances for TLC |

Definitions whose comment begins with "Mutant" (for instance `HandCSilent`
next to `HandC`) are variants with a plausible mistake.  They are used by no
specification; replacing the definition they stand before by one of them makes
the property that `PROJECT.json` names with it fail.

### CH4 barrier (as5, as6)

`carbon.c`/`hydrogen.c` and the functions `carbon`/`hydrogen` of `as6.c` are the
same program; `MethaneBarrier` is both.  `pc` is where an atom is in it.

| action | code (as5) |
|---|---|
| `Lock` | `my_sem_wait(semid, S)` |
| `Bond` / `Queue` | the two branches of the `if`; `Queue` also counts the atom as waiting |
| `HandH` | one turn of the loop that signals `SH`; `signalled` is its `i` |
| `TakeH` | the loop is over; `waiting_h -= 4` or `-= 3` |
| `HandC`, `TakeC` | `my_sem_sig(semid, SC)`, `waiting_c -= 1`: only hydrogens |
| `Unlock`, `UnlockWait` | `my_sem_sig(semid, S)` in each branch |
| `Wake` | `my_sem_wait` on `SC` or `SH`, and the end of the atom |

`Valence` is the 4 of the code, 3 being `Valence - 1`.  `molecules` is history.

`MethaneProcesses` adds `main` of `as5.c`: the three loops, the arithmetic
between them, `wait`, and the removal of memory and semaphores.  After the
removal a `semop` fails and `my_sem_wait`/`my_sem_sig` ignore it (`LateStep`); a
process that attaches after the end of `main` gets the pointer -1
(`LateAttach`).  `fork` and `execl` may fail.  `MethaneThreads` adds `main` of
`as6.c`: joins in creation order, destruction in the order `S`, `SC`, `SH`, the
two arrays of length `num_hydro_left` (`NegativeArray`: undefined behaviour if
it is negative, so the process may die there or go on), and what a thread may
do with a freed semaphore (`UseAfterDestroy`).

### Display (as7)

A procedure of the server is one step, for `svc_run` serves one request at a
time.  The loops over `client_list` and `client_msg_ids` are `SlotOf` and
`Unread`; `reads` is history.  In `Display` a request is a client and the number
of its call, in a bag of datagrams: the library sends it again (`Retransmit`)
and the server keeps no record of what it has served, so a put may be stored
twice.  A lost datagram is one that is never taken, on a network that is
`lossy` or is not, which nobody knows.  `Timeout` is `clnt_call` giving up; the
client then reads through a null pointer and ends.  `early` and `again` are
history: the gets that a client began while another was still putting, and how many
of its gets the server ran once more.

A request that is sent again has two effects which the code does nothing
against, and the properties say how far each goes.  A put that is stored twice
takes the place of another message, which is then turned away: as many may be
turned away as there are copies (`RoomTakenByCopies`).  A get that is run twice
moves the cursor past a message, and the client is told of one result only: as
many messages may be passed over as gets were run again (`ToldOfEachMessage`,
`EveryGetSucceeds`).  A client that starts to get early is told that there is
nothing and moves no cursor: it is short of these gets in the end, but passes
over no message.

### MapReduce (as2)

The model keeps for every process the set of pipe ends it holds, because that
is what decides when a pipe ends.  `fork` copies the parent's set; each process
then closes what the code closes.  Two things follow.  Reducer *k* holds the
write ends of the pipes of later reducers, so they print in alphabetical order,
which no comment says.  And mappers hold the write ends of each other's pipes,
so a mapper without a line blocks, and with it everybody.  That is not what the
comment of `MapReduce` says: "mappers and reducers will exit by themselves with
either EXIT_SUCCESS or EXIT_FAILURE" (`as2.c:164-166`).  Run `mapreduce_hangs`
shows the children of a parent that found no line blocked for good, with no
call failing (`ChildrenExit`); the same happens with any number of lines below that
of the mappers, and after a failing `fork` or `fopen`.  `EverybodyExits` says what
is left of the comment: with a line for every mapper, and where neither fails,
all of them exit.

### Barbershop with a monitor (as4)

A procedure of the monitor is one step from its entry to its end or its `wait`.
`as4.txt` fixes the policy: the signaller goes on, the signalled process runs
when it leaves or waits, conditions and the monitor are first come, first
served.  So while a signalled process has still to run (`barber` is "woken",
`cust` is "released") nobody enters: `MonitorFree`.  `do_tina_hello` and
`do_judy_hello` are one definition with the barber as parameter; a don't-care
customer signals Tina only (`Wakes`).  Arrival times are compared only between
customers in a line, so `now` counts from the moment the lines were last empty, and
may stand still between two arrivals.  `lost` is history.

Two things follow that the text does not say.  A customer enters the line in
one procedure and waits in another; a barber who calls in between signals
nobody, and a customer of that kind stays for ever (`LeftBehindBySignals` counts
them).  And who is released is the first that waits, which need not be the one
the barber greeted: the property therefore counts customers of a kind and does
not name them.

### Barbershop with semaphores (as3)

`as3.c` is pseudo-code in comments.  A step of `BarberSeats` runs from one
semaphore operation to the next, and a stretch under the mutex of one line is
one step, as nobody else reads what it writes.

| action | code |
|---|---|
| `SitDown` / `TurnAway` | the first stretch of `TinaCustomer` and `doTinaCustomer`: a seat, or the other branch |
| `Knock` | `signal(Tina)`; a don't-care customer does the same to Tina |
| `WaitTurn`, `GetUp` | `wait(TinaCusts)` and the second stretch |
| `WakeUp`, `LockOwn`, `Choose` | a round of `Tina`: both mutexes, then the line with a taken seat |
| `Serve`, `Call` | `doTina` or `doDontCare`: the next seat, `signal(TinaCusts)` |

What is written for Tina, Judy and the don't-care line is one definition each,
with the line or the barber as parameter.  When both lines have a taken seat
the text compares time stamps which no customer stores: the model takes either.
The text also changes `DontCareSeats`, the array, where the free seats of the
don't-care line should be counted.  `Readings` has both readings; as written,
no barber ever sees a don't-care customer (`AwakeIfNeeded`, run `seats_asleep`).

Read the other way this is not the end of it: a barber woken by a customer of
her own may serve one of the don't-care line and go to sleep with her own still
waiting, so `AwakeIfNeeded` fails with either reading.  The properties that do
hold are about a barber whom no don't-care customer disturbs (`Undisturbed`).
Customers who are called but have not got up yet still count as taken seats;
that she nevertheless serves a seat with somebody new in it (`ServesTakenSeat`)
is because her semaphore, not the count of seats, decides when she looks.

### WHALE (as1)

The program is a script for each process: pauses (`tock`), subtractions that
print a line, `fork` and `wait`.  `Whale` runs the scripts against a clock:
`Tick` lets a moment pass for the sleepers and makes everybody late who could
run and does not.  `subtract` prints in the same step, as nothing comes between.
A process that is less than a time step late in all never spoils the
count-down (`CountsDown`); one that is later may.  That the 0 comes last does not
depend on the clock but on the two calls of `wait` (`FinalAfterChildren`).

## Runs

| run | instance | shows |
|---|---|---|
| `barrier` | 2 carbons, 5 hydrogens, valence 2 | all safety properties of the barrier; it implements `Methane`; whoever can be bonded is |
| `processes` | valence 2, 4 atoms drawn, at most 2 carbons, fork failing, up to 2 execs failing | `main` of as5: removal, stuck atoms, end of all processes |
| `threads` | valence 2, 5 threads drawn, at most 2 carbons, create failing | `main` of as6: joins, destruction, where it may hang |
| `server` | 3 ids, 2 texts, 4 places | the server is a message board |
| `display` | 2 clients with one id or two, 2 puts and 2 gets each, one request of each sent again, loss or none, a failing `fortune` | acknowledged puts are stored, in order; copies take the room of as many messages at most; no message is missed but by a get that was run again; everybody comes to an end |
| `display_zero` | ids 0, 1, 2 | *violation*: client 0 moves the cursor of a slot that is not its own |
| `monitor` | 3 customers of every kind, lines of 2 | barbers find the customer they were woken for, take the oldest, call everybody; who stays is accounted for by lost signals |
| `seats` | 3 customers of every kind, lines of 2 seats, both readings | the barber that nobody disturbs stays awake, serves taken seats, and everybody who sits down in her line leaves |
| `seats_asleep` | the same, as written | *violation*: both barbers sleep while a don't-care customer waits |
| `mapreduce` | 3 mappers, 3 reducers, no line, 1, 3 and 4 lines, fork and fopen failing | counts final, right, in order; where it may hang; with enough lines and no failure all exit |
| `mapreduce_hangs` | the same, nothing failing | *violation*: with no line the children never exit |
| `whale` | 2 moments in a time step, each process up to 3 moments late, fork failing | in order when in time, 0 last in any case, all end |

Bounds.  Two carbons and five hydrogens are the least that let two bonders
follow each other while others of both kinds queue, with an atom left over;
valence 2 gives both forms of partner (1 and 2) and a loop of two signals.  The
draws of `processes` are those of four atoms with at most two carbons: two
carbons that need two hydrogens more, a surplus hydrogen beside a carbon, which
has its partners among the rest, and four hydrogens without a carbon.  Nobody waits
for surplus hydrogens, and they are released when the semaphores are removed under
them.  Those of `threads` are the draws of five atoms with at most two carbons; none of
these fits exactly either.  `TLC` explores the whole space of
each passing run.  In `display` a second copy of a request is enough for one to be late
and, as the board has just room for all messages, for one to be turned away;
each client has as many gets as the other has messages, so that one miss shows.
The clients share an id or do not.  Three clients, which fill the client list as in
the code, are in `server` and `display_zero`.  In `monitor`
three customers of one kind overflow a line of two, and of two kinds they let a
barber choose between a line of hers and the shared one.  The same holds of
`seats`: with two seats the ring wraps, and the third customer comes while one
that was called has not got up.  In `whale` a moment is half a time step, so that
a process can be late by less than a step, by one, and by more.  In
`MapReduce` three mappers are the least for a blocked mapper to hold the pipe of
another blocked one while a third ends.

Fairness.  Weak fairness of each process, thread or client: the scheduler runs
whoever can run.  No run assumes strong fairness: an atom takes `S` once, and
while it waits only finitely many others can take it.  Failures (`ForkFails`,
`ExecFails`, `Fail`, `CreateFails`, `GenerateFails`) are never required to
happen.  In `BarberSeats` the mutexes are fair ("in the queuing order"), but each
customer takes them a few times only, so that weak fairness is enough for
the barbers too.  In `Whale` processes run and time passes.  In `BarberMonitor` no customer has to come; entry to the monitor is
first come, first served, so one who wants to enter does.  In `Display` a client makes its calls and its timeout is a clock; the
server is fair only where the network is not `lossy`.

Deadlock checking is off where the program really stops or hangs on a surplus
atom, and where a shop has no more customers; `AllBonded`, `StuckOnlyByFailure`,
`HangsOnSurplusOnly` and `HangsOnlyForWantOfLines` say what may be left behind
then, and `LeftBehindBySignals` and `EverybodyServed` who is left in the shops.  In
`Display` a client whose timeout comes before the reply just stops.

Some hazards that `PROJECT.json` lists have no property; each has a note that
says why.  Two of them are in as3.  A barber who serves a don't-care customer in
the round for which her own woke her, and a don't-care customer who goes on to the
other lines with a haircut, do harm only to barbers that are not `Undisturbed`,
about whom nothing good holds in general: with `Readings` set to `{TRUE}` in
`MCBarberSeats_asleep.cfg` TLC shows both barbers asleep before a customer who
waits.

## Proofs

Every theorem holds for every value of the constants that meets the named
assumption of the module; each rests on an inductive invariant, proved with one
lemma per action or per conjunct.

| module | theorems | assumption |
|---|---|---|
| `MethaneBarrierProofs` | `TypeOK`, `MutualExclusion`, `NoMissedMolecule`, `TokensMatchWaiters`, `WholeMolecules`, `ImplementsMethane`; at rest, `MostAreBonded` | `AtomAssumption`: carbons and hydrogens are finite and disjoint, the valence is positive |
| `MethaneProcessesProofs` | `SoundWhileSemaphoresExist`, `RemovedOnlyWhenBonded`, `StuckOnlyByFailure` | the same and `ProcessAssumption` |
| `MethaneThreadsProofs` | `NoUseAfterDestroy`, `HangsOnSurplusOnly` | the same and `ThreadAssumption` |
| `DisplayProofs`, server | `ServerTypeOK`, `OneSlotEach`, `NothingSkipped`, `ImplementsBoard` | `ServerAssumption`, and `NobodyIsZero`, that no id is 0: run `display_zero` shows it is needed |
| `DisplayProofs`, whole | `AcknowledgedAreStored`, `FirstCopiesInOrder`, `RoomTakenByCopies`, `NothingSkipped`, `ToldOfEachMessage`, `EveryGetSucceeds`; `NoCallLost` | the same and `DisplayAssumption`; for `NothingSkipped`, `ToldOfEachMessage` and `EveryGetSucceeds` also `NobodyIsZero` |
| `MapReduceProofs` | `TypeOK`, `ImplementsReport`, `HangsOnlyForWantOfLines` | `MapReduceAssumption`; for the last two also `NoLoneMapper` |
| `BarberMonitorProofs` | `MonitorTypeOK`, `NeverGreetsNobody`, `LeftBehindBySignals`, `OldestFirst`; at rest, `NobodyInLine` | `MonitorAssumption`: finitely many customers |
| `BarberSeatsProofs` | `SeatsTypeOK`, `AwakeForEachCustomer`, `ServesTakenSeat`; at rest, `NobodyForgotten` | `SeatsAssumption`: finitely many customers, at least one seat |
| `WhaleProofs` | `CountsDown`, `FinalAfterChildren`, `NumbersOnce` | `WhaleAssumption`: a time step has at least one moment |

**Barrier.**  None of its properties is inductive alone.  `BarrierInv` adds what
ties them together, and `IInv` says besides that no atom has died:

- `LoopInv`: the loop variable is zero outside the loop and at most the number
  of partners in it;
- `BonderInv`: the partners that a bonder has counted are still on the counters
  until it takes them off, so the counters stay natural numbers;
- `TokenInv`: sleepers equal tokens plus counter, corrected by the tokens a
  bonder has signalled before it takes its partners off the counter;
- `MoleculeInv`: every atom that made its test is on a counter or has its place
  in a molecule.

`CountMove` and `CountStays` say how the number of atoms at a set of stages
changes when one atom moves; `Alone` turns the mutex into "the moving holder is
the only one".  The refinement maps the test under `S` to `Arrive` and the
crossings to `Leave`; everything else stutters.

**What is left when nobody goes on.**  Three invariants speak of a state in which
every process is over or blocked: `StuckOnlyByFailure`, `HangsOnSurplusOnly` and
`HangsOnlyForWantOfLines`.  Their `Stuck` lists what blocks whom: an atom its
semaphore, `main` the lack of a child to reap or a thread to join, a child of as2
an empty pipe that somebody could still write to.  Nothing that can go on is
missing from these lists, or a process could stay for ever in a state that is
neither an end nor `Stuck`, and the liveness properties `EverybodyEnds` and
`MainReturns` say that it cannot: everybody is done in the end or `Stuck`.  For as2
`EverybodyExits` says so of the case in which nobody may hang, that there are lines
enough and no failure; in the others that `Blocked` and `ParentWaits` name all who
are kept from going on is seen by comparing them with the guards.  Five theorems say the like of the other programs, where a run checks the
liveness property itself: whatever the constants, a state in which nothing goes on
is one in which what should have happened has.

| at rest | safety half of |
|---|---|
| `BondedAtRest`: as many molecules are made as the atoms allow | `AllBonded` |
| `NobodyLeftWaiting`: nobody is left in the line of an undisturbed barber, and no mutex of as3 is locked for good | `EverybodyServed` |
| `NobodyLeftInLine`: the lines of as4 are empty, and who was left behind missed a signal | `EveryoneIsCalled` |
| `EachNumberOnce`: no number of as1 is said twice, and none is missing when all have ended | `EveryNumberOnce` |
| `NoneLost`: the request of a client of as7 that waits, or an answer to it, is on its way | `EverybodyStops` |

**Barrier at rest.**  If each atom is over or blocked, `S` is free and no token is
left: with `MutualExclusion`, `TokenInv` and `MoleculeInv`, those who wait are on a
counter and the others have crossed in whole molecules (`AllBlocked`).  So the
carbons are as many as `waiting_c` and `molecules` together, and likewise the
hydrogens (`NobodyMissing`); by `NoMissedMolecule` no other molecule can be made of
those on the counters.

**as5.**  `ProcInv` keeps `BarrierInv` for as long as the semaphores exist
(`SemInv`) and counts: main forked as many carbons and hydrogens as it says
(`DrawInv`), and as many children have ended as it reaped (`ReapInv`).  When it has
reaped `total_atom_count` children and nothing failed, these are whole
molecules, so no carbon and none of the partners of a carbon is left, and this
stays so when the atoms left over run on without semaphores (`LateInv`).  If it is
blocked in `wait` and nothing failed, the barrier is at rest with at least
`Valence` hydrogens for each carbon (`HydroInv`); then no carbon waits, and as many
children have ended as it wants to reap (`ReapsEverybody`), so it is not blocked.

**as6.**  `JoinedInv` follows the two arrays of thread ids: they are filled up to
the loop variable, every thread that was created is in one of them, and the
threads up to the join counter have ended.  The destruction comes after the last.
`ForkedInv` counts the threads that were created and `StartedInv` says that they are
those in the arrays; with as many hydrogens as the carbons need, a barrier at rest
has nobody on it, so that `main` is blocked in a join only for a draw with
surplus hydrogens, and only on a hydrogen.

**as7.**  `ServerInv`: places and slots fill from the bottom, no id is listed twice,
cursors stay below `curr_index`.  There is room for a new client because those
listed are as many as `curr_client` (`RoomForNew`, by cardinality); `get_1_svc` takes
the least unread place, which exists because `<` is well-founded on the naturals.

**as7 as a whole.**  `DisplayInv`: no request and no reply is ahead of its client
(`RequestInv`), a reply to a put tells the truth even when it is late, because
stored messages stay and a full board stays full (`ReplyInv`), and so every put a
client has gone on from is stored or met a full board (`AnsweredInv`).  A request
repeated late adds another copy, but never the first: the predecessor of each
message is stored before it (`OrderInv`).  `ServerInSystem` projects `Display` on
`DisplayServer`, whose theorems carry over.

A message is turned away only when the board is full (`AnsweredInv` again).  On a
full board the places that are no copies hold different messages (`MessagesInv`),
none of which was turned away, so where all have room no more are turned away than
there are copies (`PlacesTaken`).

A get that is run twice moves the cursor past a message that the client may never be
told of.  `ToldInv` counts: the messages given to an id are those of which the client
was told, one more while the news of its current get is on its way, and at most one
for each get that was run again.  Nothing is assumed of how often that happens.  A
get that began when all puts were done, and was called when it was (`PutsDoneInv`),
finds nothing only if its client was given all messages of the others (`AllRead`,
from `NothingSkipped`), and these are as many as it has gets (`FailedInv`).  So what
it was not told of, it was given at a get that was run again.

`WaitInv` counts the copies of each request: the server takes one copy and sends an
answer, so the request of a call that is not answered is never the one that goes.

**as2.**  `ReportInv` says at each stage of the parent and of each child whose
write end of which pipe is still open (`EndsInv`), so that a pipe can end only
when nobody is left who would write to it.  `Sent(n)` is the set of places in the
lines at which the mappers have come past the letter *n*; as many are counted by its
reducer or still in the reducer's pipe (`ReducerInv`), as each character mapped adds
one place (`OneMoreSent`).  A reducer that meets the end of its pipe therefore has
counted every place, and its count is final; it meets it only after the reducers
before it have exited, since they hold the write end, and so the counts are printed in
order (`PrintedInv`).  Failing `fork` and `fopen` are covered: if the parent fails
before it has forked all mappers (`Cut`), no reducer exists.  One case is excluded, by
`NoLoneMapper`: a single mapper whose parent fails holds no write end of its own pipe,
reads the end of the pipe and maps an empty line.  The program has four mappers, each of
which keeps the pipes of the others open.

`HangInv` adds who holds what when it ends: children that have ended hold nothing, a
reducer that counts holds the write ends of later pipes only, and the parent has fed
each mapper or run out of lines before it waits (`HolderInv`, `RestInv`).  So if all who
are left are blocked, somebody who is left holds the write end for which the first
of them waits.  That cannot be a reducer, nor a mapper that has read its line
(`SomeMapperReads`); so there is a mapper without a line (`WantOfLines`), and while there is
one every reducer's pipe is open and no number is printed (`NothingLeft`).

**as4.**  `MonitorInv`: one signalled process at most is about to run, and a woken
barber has somebody in a line of hers (`SignalInv`); who waits is in the queue of
its condition once (`FreeInv`); the lines are sorted by time of arrival
(`OrderInv`).  The last makes the head of a line its oldest.  At rest both barbers
sleep, and each sleeps only while the lines whose customers wake her are empty
(`SleepInv`): Judy may sleep before don't-care customers, but then Tina does not.

**as3.**  `SeatsInv` is about an undisturbed barber: she sees only her own line
(`SeesNone`), is woken by nobody else (`WakesHer`), and the pids she has still to
serve lie side by side in the ring, from `next_serve` to `next_seat` (`RingInv`).
Their number is that of the customers who sit and have not knocked, plus her
semaphore, plus one during a round up to `Serve`; it never exceeds the taken
seats.  So a round always finds a taken seat, and none is overwritten early.  A mutex that is
taken between two steps is kept by a barber who waits for nothing but that of the
don't-care line, whose keeper waits for none (`MutexInv`); so at rest both sleep.  The
same sum is zero then, and a semaphore that is positive has nobody blocked on it
(`CalledInv`), which leaves nobody in the line.

**as1.**  The processes share nothing but the time.  `At` is the place of a process
in its script, and `Steps` the time steps of `tock` behind each place.  What a
process has slept (`Grain` times `Steps`, less what is left of its pause) plus
what it was late is its `Clock`, and the clocks of all running processes are equal
until P0 waits for its children (`ClockInv`).  Whoever prints a number comes from a place
at least one time step later than any at which the number before is still to
be printed, so who is late for less than a step has been preceded (`Preceded`,
`OrderInv`).  `ZeroInv` and `ChildInv` follow P0's two calls of `wait` and need no
clock.  This is where the arithmetic is nonlinear; `Grains` holds all of it.
`OnceInv` ties the lines printed to the places that the processes have passed, and needs
no clock either.

TLC and the proofs share the definitions; TLC, too, finds the inductive invariants
to hold on the instances of the runs.

Only model-checked: liveness (`AllBonded`, `EverybodyEnds`, `MainReturns`,
`EverybodyStops`, `EverybodyExits`, `EveryoneIsCalled`,
`EverybodyServed`, `EveryNumberOnce`).  Fairness speaks of `ENABLED`, which the provers
do not handle.  Also, that `Stuck` and the states at rest are just those in
which no step is enabled.

## Not modelled

- Printed lines and time stamps.
- as5: the one-byte buffers for the ids; they are taken to arrive intact.
- as7: a fourth client, which `put_1_svc` writes past the end of `client_list`;
  texts as such; TCP, which the client does not use.
- as2: failing `read`, `write` and `close` on open pipes; lines longer than a
  buffer, which `fgets` hands out as several lines.  `as2_.c`, `counter.c` and
  `multi-process-pipe.c` are drafts; the submitted archive holds `as2.c`.
- as4, as3: the haircut itself and a customer's return; in as3 also the time
  stamps and the pids behind the seats, which nothing reads.
- as1: what the processes print besides the numbers, a failing `putenv`, and what
  `ls` does.  `src/as1.C` is a variant of `src/as1/as1.C` with other texts.
- The failure of `malloc` and of calls made before the first process or thread.

## Plan

Done: `Methane`, `MethaneBarrier`, `MethaneProcesses`, `MethaneThreads`;
`MessageBoard`, `DisplayServer`, `Display`; `LetterReport`, `MapReduce`;
`BarberMonitor`, `BarberSeats`; `Whale`; proofs of all invariants, action properties
and refinements that the passing runs check.

Left to do: the liveness properties, once a prover handles `ENABLED`; the safety
halves of most of them are proved.
