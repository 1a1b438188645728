------------------------------ MODULE MapReduce ------------------------------
(***************************************************************************)
(* as2: a parent gives one line of input.txt to each mapper through a      *)
(* pipe, the mappers pass its lower-case letters on to one reducer per     *)
(* letter through pipes of theirs, and each reducer counts until the end   *)
(* of its pipe.                                                            *)
(*                                                                         *)
(* A pipe ends when nobody holds its write end any more, and fork hands    *)
(* every end the parent has open to the child.  So the model keeps, for    *)
(* each process, the ends it holds.  A pipe has the name of the child that *)
(* reads it.  Nothing here fills a pipe: it has room for every line.       *)
(***************************************************************************)
EXTENDS Integers, Sequences, FiniteSets

CONSTANTS
  MAPPER_COUNT,     \* 4 in the code
  REDUCER_COUNT,    \* 26 in the code
  Inputs,           \* the texts of input.txt, as sequences of lines
  MayFail           \* whether fork and fopen can fail

\* The characters: 0 .. REDUCER_COUNT - 1 are the lower-case letters.
ASSUME MapReduceAssumption ==
  /\ MAPPER_COUNT \in Nat \ {0} /\ REDUCER_COUNT \in Nat \ {0}
  /\ Inputs \subseteq Seq(Seq(Nat))
  /\ MayFail \in BOOLEAN

Mapper  == {"mapper"} \X (0 .. MAPPER_COUNT - 1)
Reducer == {"reducer"} \X (0 .. REDUCER_COUNT - 1)
Child   == Mapper \cup Reducer
Parent  == <<"parent", 0>>
Process == Child \cup {Parent}
Number(c) == c[2]

Pipe == Child

VARIABLES
  ends,       \* the pipe ends each process holds
  data,       \* what is in each pipe: lines, or letters
  parent,     \* what the parent is doing
  curr_pipe,  \* its loop variable
  input,      \* the lines of input.txt
  lines_read, \* how many of them the parent has read
  waits,      \* calls of wait that have returned
  stage,      \* what each child is doing
  buffer,     \* what each mapper has still to look at
  char_count, \* each reducer's count
  printed     \* the counts printed, in the order of printing

parentVars == <<parent, curr_pipe, lines_read, waits>>
childVars == <<stage, buffer, char_count, printed>>
vars == <<ends, data, parentVars, input, childVars>>

ReadEnds(P)  == P \X {"read"}
WriteEnds(P) == P \X {"write"}

\* The pipes are there, all in the hands of the parent (a failure before the
\* first fork just ends the program).
Init ==
  /\ ends = [p \in Process |->
               IF p = Parent THEN ReadEnds(Pipe) \cup WriteEnds(Pipe) ELSE {}]
  /\ data = [p \in Pipe |-> <<>>]
  /\ parent = "mappers"
  /\ curr_pipe = 0
  /\ input \in Inputs
  /\ lines_read = 0
  /\ waits = 0
  /\ stage = [c \in Child |-> "unborn"]
  /\ buffer = [m \in Mapper |-> <<>>]
  /\ char_count = [r \in Reducer |-> 0]
  /\ printed = <<>>

closer(p, E) == ends' = [ends EXCEPT ![p] = @ \ E]

\* read returns 0: no data, and nobody who could write any.
EndOfPipe(p) ==
  /\ data[p] = <<>>
  /\ \A q \in Process : <<p, "write">> \notin ends[q]

-----------------------------------------------------------------------------
(* The parent *)

\* fork: child c gets what the parent holds, which then closes the ends E.
Fork(c, E) ==
  /\ ends' = [ends EXCEPT ![c] = ends[Parent], ![Parent] = @ \ E]
  /\ stage' = [stage EXCEPT ![c] = "closing"]
  /\ UNCHANGED <<data, input, lines_read, waits, buffer, char_count, printed>>

ForkMapper ==
  /\ parent = "mappers"
  /\ LET m == <<"mapper", curr_pipe>> IN Fork(m, ReadEnds({m}))
  /\ IF curr_pipe + 1 < MAPPER_COUNT
     THEN curr_pipe' = curr_pipe + 1 /\ UNCHANGED parent
     ELSE curr_pipe' = 0 /\ parent' = "reducers"

\* Mutant: the parent keeps the write ends of the reducers' pipes.
ForkReducerOpen ==
  /\ parent = "reducers"
  /\ LET r == <<"reducer", curr_pipe>> IN Fork(r, {})
  /\ IF curr_pipe + 1 < REDUCER_COUNT
     THEN curr_pipe' = curr_pipe + 1 /\ UNCHANGED parent
     ELSE curr_pipe' = 0 /\ parent' = "open"

ForkReducer ==
  /\ parent = "reducers"
  /\ LET r == <<"reducer", curr_pipe>> IN Fork(r, WriteEnds({r}))
  /\ IF curr_pipe + 1 < REDUCER_COUNT
     THEN curr_pipe' = curr_pipe + 1 /\ UNCHANGED parent
     ELSE curr_pipe' = 0 /\ parent' = "open"

Open ==
  /\ parent = "open"
  /\ parent' = "feed"
  /\ UNCHANGED <<ends, data, curr_pipe, input, lines_read, waits, childVars>>

\* fork or fopen fails: MapReduce returns 1 and the parent exits.
Fail ==
  /\ MayFail
  /\ parent \in {"mappers", "reducers", "open"}
  /\ parent' = "failed"
  /\ closer(Parent, ends[Parent])
  /\ UNCHANGED <<data, curr_pipe, input, lines_read, waits, childVars>>

\* Mutant: no check that there is a mapper left.
FeedAll ==
  /\ parent = "feed"
  /\ lines_read < Len(input)
  /\ LET m == <<"mapper", curr_pipe>>
     IN  /\ data' = [data EXCEPT ![m] = Append(@, input[lines_read + 1])]
         /\ closer(Parent, WriteEnds({m}))
  /\ lines_read' = lines_read + 1
  /\ curr_pipe' = curr_pipe + 1
  /\ UNCHANGED <<parent, input, waits, childVars>>

\* A line goes to the next mapper, whose pipe is then closed.
Feed ==
  /\ parent = "feed"
  /\ lines_read < Len(input) /\ curr_pipe < MAPPER_COUNT
  /\ LET m == <<"mapper", curr_pipe>>
     IN  /\ data' = [data EXCEPT ![m] = Append(@, input[lines_read + 1])]
         /\ closer(Parent, WriteEnds({m}))
  /\ lines_read' = lines_read + 1
  /\ curr_pipe' = curr_pipe + 1
  /\ UNCHANGED <<parent, input, waits, childVars>>

\* The loop ends at the end of the file, or with a line nobody is left for.
EndFeeding ==
  /\ parent = "feed"
  /\ \/ lines_read = Len(input) /\ UNCHANGED lines_read
     \/ /\ lines_read < Len(input) /\ curr_pipe = MAPPER_COUNT
        /\ lines_read' = lines_read + 1
  /\ parent' = "wait"
  /\ UNCHANGED <<ends, data, curr_pipe, input, waits, childVars>>

Ended == {c \in Child : stage[c] \in {"exited", "failed"}}

\* wait takes any child that has ended, in either loop.
Wait ==
  /\ parent = "wait"
  /\ waits < MAPPER_COUNT + REDUCER_COUNT
  /\ waits < Cardinality(Ended)
  /\ waits' = waits + 1
  /\ UNCHANGED <<ends, data, parent, curr_pipe, input, lines_read, childVars>>

Return ==
  /\ parent = "wait"
  /\ waits = MAPPER_COUNT + REDUCER_COUNT
  /\ parent' = "exited"
  /\ closer(Parent, ends[Parent])
  /\ UNCHANGED <<data, curr_pipe, input, lines_read, waits, childVars>>

ParentStep ==
  \/ ForkMapper
  \/ ForkReducer
  \/ Open
  \/ Feed
  \/ EndFeeding
  \/ Wait
  \/ Return

-----------------------------------------------------------------------------
(* A mapper *)

Goto(c, from, to) ==
  /\ stage[c] = from
  /\ stage' = [stage EXCEPT ![c] = to]

\* Closes its write end and the read ends that are not its own; it keeps the
\* write ends of the other mappers' pipes.
MapperCloses(m) ==
  /\ Goto(m, "closing", "reading")
  /\ closer(m, WriteEnds({m}) \cup ReadEnds({n \in Mapper : Number(n) > Number(m)})
                 \cup ReadEnds(Reducer))
  /\ UNCHANGED <<data, parentVars, input, buffer, char_count, printed>>

\* Its one call of read: a line, or nothing at the end of the pipe.
MapperReads(m) ==
  /\ Goto(m, "reading", "mapping")
  /\ \/ /\ data[m] # <<>>
        /\ buffer' = [buffer EXCEPT ![m] = Head(data[m])]
        /\ data' = [data EXCEPT ![m] = Tail(@)]
     \/ EndOfPipe(m) /\ UNCHANGED <<buffer, data>>
  /\ UNCHANGED <<ends, parentVars, input, char_count, printed>>

\* The next character: a lower-case letter goes to its reducer.  (Somebody
\* always has the read end: the parent, as long as it waits.)
MapperWrites(m) ==
  /\ stage[m] = "mapping" /\ buffer[m] # <<>>
  /\ LET r == <<"reducer", Head(buffer[m])>>
     IN  data' = IF r \in Reducer
                 THEN [data EXCEPT ![r] = Append(@, Head(buffer[m]))]
                 ELSE data
  /\ buffer' = [buffer EXCEPT ![m] = Tail(@)]
  /\ UNCHANGED <<ends, parentVars, input, stage, char_count, printed>>

MapperEnds(m) ==
  /\ buffer[m] = <<>>
  /\ Goto(m, "mapping", "ending")
  /\ closer(m, WriteEnds(Reducer))
  /\ UNCHANGED <<data, parentVars, input, buffer, char_count, printed>>

MapperExits(m) ==
  /\ Goto(m, "ending", "exited")
  /\ closer(m, ends[m])
  /\ UNCHANGED <<data, parentVars, input, buffer, char_count, printed>>

MapperStep(m) ==
  MapperCloses(m) \/ MapperReads(m) \/ MapperWrites(m) \/ MapperEnds(m) \/ MapperExits(m)

-----------------------------------------------------------------------------
(* A reducer *)

\* Mutant: closes the write ends of all reducers' pipes, as it should.
ReducerClosesAll(r) ==
  /\ Goto(r, "closing", "counting")
  /\ closer(r, WriteEnds(Pipe) \cup ReadEnds(Reducer \ {r}))
  /\ UNCHANGED <<data, parentVars, input, buffer, char_count, printed>>

\* Closes what is not its own, except the write ends of the later reducers'
\* pipes, which the parent had open when it forked this one.
ReducerCloses(r) ==
  /\ Goto(r, "closing", "counting")
  /\ closer(r, WriteEnds({r}) \cup WriteEnds(Mapper) \cup ReadEnds(Reducer \ {r}))
  /\ UNCHANGED <<data, parentVars, input, buffer, char_count, printed>>

\* The next letter; one that is not its own would end the reducer.
ReducerReads(r) ==
  /\ stage[r] = "counting" /\ data[r] # <<>>
  /\ data' = [data EXCEPT ![r] = Tail(@)]
  /\ IF Head(data[r]) = Number(r)
     THEN /\ char_count' = [char_count EXCEPT ![r] = @ + 1]
          /\ UNCHANGED <<ends, stage>>
     ELSE /\ stage' = [stage EXCEPT ![r] = "failed"]
          /\ closer(r, ends[r])
          /\ UNCHANGED char_count
  /\ UNCHANGED <<parentVars, input, buffer, printed>>

ReducerPrints(r) ==
  /\ EndOfPipe(r)
  /\ Goto(r, "counting", "exited")
  /\ printed' = Append(printed, char_count[r])
  /\ closer(r, ends[r])
  /\ UNCHANGED <<data, parentVars, input, buffer, char_count>>

ReducerStep(r) == ReducerCloses(r) \/ ReducerReads(r) \/ ReducerPrints(r)

Next ==
  \/ ParentStep
  \/ Fail
  \/ \E m \in Mapper : MapperStep(m)
  \/ \E r \in Reducer : ReducerStep(r)

Spec == Init /\ [][Next]_vars

\* Every process that can run does; fork and fopen need not fail.
FairSpec ==
  /\ Spec
  /\ WF_vars(ParentStep)
  /\ \A m \in Mapper : WF_vars(MapperStep(m))
  /\ \A r \in Reducer : WF_vars(ReducerStep(r))

-----------------------------------------------------------------------------
(* Properties *)

TypeOK ==
  /\ ends \in [Process -> SUBSET (ReadEnds(Pipe) \cup WriteEnds(Pipe))]
  /\ DOMAIN data = Pipe
  /\ \A m \in Mapper : data[m] \in Seq(Seq(Nat))
  /\ \A r \in Reducer : data[r] \in Seq(Nat)
  /\ parent \in {"mappers", "reducers", "open", "feed", "wait", "exited", "failed"}
  /\ curr_pipe \in (0 .. MAPPER_COUNT) \cup (0 .. REDUCER_COUNT - 1)
  /\ input \in Inputs
  /\ lines_read \in 0 .. Len(input)
  /\ waits \in 0 .. MAPPER_COUNT + REDUCER_COUNT
  /\ stage \in [Child -> {"unborn", "closing", "reading", "mapping", "ending",
                          "counting", "exited", "failed"}]
  /\ buffer \in [Mapper -> Seq(Nat)]
  /\ char_count \in [Reducer -> Nat]
  /\ printed \in Seq(Nat)

Alive == {c \in Child : stage[c] # "unborn"} \ Ended

\* Where read blocks a child: its pipe is empty, and somebody could still write.
Blocked(c) ==
  /\ stage[c] \in {"reading", "counting"}
  /\ data[c] = <<>>
  /\ \E q \in Process : <<c, "write">> \in ends[q]

\* Where the parent is over, or wait blocks it for want of a child that has ended.
ParentWaits ==
  \/ parent \in {"exited", "failed"}
  \/ parent = "wait" /\ waits < MAPPER_COUNT + REDUCER_COUNT /\ waits >= Cardinality(Ended)

\* There are children left, and nobody goes on.
Stuck == Alive # {} /\ ParentWaits /\ \A c \in Alive : Blocked(c)

\* The program hangs only for want of lines or after a failure.  Then no line
\* is left in a pipe, every letter sent is counted, and no reducer has printed
\* a number: the blocked mappers hold each other's and the reducers' pipes open.
HangsOnlyForWantOfLines ==
  Stuck =>
    /\ parent = "failed" \/ Len(input) < MAPPER_COUNT
    /\ \A p \in Pipe : data[p] = <<>>
    /\ \E m \in Mapper : stage[m] = "reading"
    /\ printed = <<>>

\* With a line for every mapper, and no failed fork or fopen, the parent and
\* all children exit, and no reducer gives up (as2.c:128-150 and 275-284).
EverybodyExits ==
  (Len(input) >= MAPPER_COUNT /\ [](parent # "failed"))
     => <>(parent = "exited" /\ \A c \in Child : stage[c] = "exited")

\* The comment of MapReduce: "mappers and reducers will exit by themselves with
\* either EXIT_SUCCESS or EXIT_FAILURE" (as2.c:164-166).  It is not so: a mapper
\* nobody has a line for waits for ever at a pipe the other mappers hold open.
ChildrenExit ==
  \A c \in Child :
    stage[c] # "unborn" ~> stage[c] \in {"exited", "failed"}

-----------------------------------------------------------------------------
(* Refinement: the report of as many lines as there are mappers. *)

FirstLines(t) == SubSeq(t, 1, IF Len(t) < MAPPER_COUNT THEN Len(t) ELSE MAPPER_COUNT)

Report == INSTANCE LetterReport WITH
  Texts <- {FirstLines(t) : t \in Inputs},
  Letters <- REDUCER_COUNT,
  text <- FirstLines(input)

ImplementsReport == Report!Spec

=============================================================================
