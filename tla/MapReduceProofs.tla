--------------------------- MODULE MapReduceProofs ---------------------------
(***************************************************************************)
(* Proofs about as2, for any number of mappers, of reducers and of lines:  *)
(* the numbers that are printed are those of the letters in the lines the  *)
(* mappers were given, in order and final.  Nothing else keeps a reducer   *)
(* from printing early than who still holds a write end of its pipe, so    *)
(* most of the invariant is about that.                                    *)
(*                                                                         *)
(* A single mapper whose parent fails would take the end of its pipe for   *)
(* an empty line; two or more hold each other's pipes open.  That is also  *)
(* what they are left waiting on, each for the others, when they get no    *)
(* line: the second invariant is about who can be left so.                 *)
(***************************************************************************)
EXTENDS MapReduce, SequenceTheorems, FiniteSetTheorems, TLAPS

NoLoneMapper == MAPPER_COUNT > 1 \/ ~ MayFail

-----------------------------------------------------------------------------
(* The inductive invariant *)

\* Where the parent's loops are.
PhaseInv ==
  /\ parent = "mappers" => curr_pipe < MAPPER_COUNT
  /\ parent = "reducers" => curr_pipe < REDUCER_COUNT
  /\ parent \in {"feed", "wait", "exited"} => curr_pipe <= MAPPER_COUNT /\ curr_pipe <= Len(input)
  /\ parent = "feed" => lines_read = curr_pipe
  /\ parent = "open" => curr_pipe = 0 /\ lines_read = 0
  /\ parent \in {"mappers", "reducers"} => lines_read = 0
  /\ parent = "failed" => MayFail

\* wait has returned for children that ended.
WaitInv ==
  /\ waits <= Cardinality(Ended)
  /\ parent = "exited" => Ended = Child

\* The parent failed before it had forked all mappers.
Cut == parent = "failed" /\ \E m \in Mapper : stage[m] = "unborn"

Waiting == {"unborn", "closing", "reading"}   \* mappers that have not read

\* Children are forked in order, the mappers first.
BirthInv ==
  /\ parent = "mappers" =>
       /\ \A m \in Mapper : stage[m] = "unborn" <=> Number(m) >= curr_pipe
       /\ \A r \in Reducer : stage[r] = "unborn"
  /\ parent # "mappers" => \A m \in Mapper : stage[m] # "unborn"
  /\ parent = "reducers" => \A r \in Reducer : stage[r] = "unborn" <=> Number(r) >= curr_pipe
  /\ \A r, s \in Reducer :
       Number(r) < Number(s) /\ stage[s] # "unborn" => stage[r] # "unborn"

\* Who holds which write ends.
Holds(p, c) == <<c, "write">> \in ends[p]
EndsInv ==
  /\ parent = "mappers" => \A c \in Child : Holds(Parent, c)
  /\ parent = "reducers" => \A r \in Reducer : Number(r) >= curr_pipe => Holds(Parent, r)
  /\ parent \in {"reducers", "open"} => \A m \in Mapper : Holds(Parent, m)
  /\ parent \in {"feed", "wait"} => \A m \in Mapper : Number(m) >= curr_pipe => Holds(Parent, m)
  /\ \A m, n \in Mapper :
       m # n /\ stage[m] \in {"closing", "reading", "mapping", "ending"} => Holds(m, n)
  /\ \A m \in Mapper, r \in Reducer :
       stage[m] \in {"closing", "reading", "mapping"} => Holds(m, r)
  /\ \A r, s \in Reducer :
       Number(r) < Number(s) /\ stage[r] \in {"closing", "counting"} => Holds(r, s)

\* A mapper has its line in its pipe, then what is left of it in its buffer.
Fed == IF parent \in {"feed", "wait", "exited"} THEN curr_pipe ELSE 0
Line(m) == input[Number(m) + 1]
HasLine(m) ==
  /\ stage[m] \in Waiting \cup {"mapping", "ending", "exited"}
  /\ stage[m] \in Waiting => /\ data[m] = IF Number(m) < Fed THEN <<Line(m)>> ELSE <<>>
                             /\ buffer[m] = <<>>
  /\ stage[m] \notin Waiting =>
       /\ Number(m) < Fed /\ data[m] = <<>>
       /\ Len(buffer[m]) <= Len(Line(m))
       /\ \A j \in 1 .. Len(buffer[m]) :
            buffer[m][j] = Line(m)[Len(Line(m)) - Len(buffer[m]) + j]
  /\ stage[m] \in {"ending", "exited"} => buffer[m] = <<>>
MapperInv == \A m \in Mapper : HasLine(m)

\* The places of a letter that the mappers have come past.
Seen(m) == IF stage[m] \in Waiting THEN 0 ELSE Len(Line(m)) - Len(buffer[m])
Reader(x) == <<"mapper", x[1] - 1>>     \* the mapper of line x[1]
Sent(n) == {x \in (1 .. MAPPER_COUNT) \X Nat :
              x[2] \in 1 .. Seen(Reader(x)) /\ Line(Reader(x))[x[2]] = n}

\* Every letter that was sent is counted or still in the pipe.
ReducerInv ==
  \A r \in Reducer :
    /\ stage[r] \in {"unborn", "closing", "counting", "exited"}
    /\ \A j \in 1 .. Len(data[r]) : data[r][j] = Number(r)
    /\ IsFiniteSet(Sent(Number(r)))
    /\ Cardinality(Sent(Number(r))) = char_count[r] + Len(data[r])

\* The reducers end in order.
PrintedInv ==
  /\ Len(printed) <= REDUCER_COUNT
  /\ \A r \in Reducer : stage[r] = "exited" <=> Number(r) < Len(printed)

CommonInv == TypeOK /\ PhaseInv
CutInv == printed = <<>> /\ \A r \in Reducer : stage[r] = "unborn"
MainInv == WaitInv /\ BirthInv /\ EndsInv /\ MapperInv /\ ReducerInv /\ PrintedInv

ReportInv == CommonInv /\ IF Cut THEN CutInv ELSE MainInv

-----------------------------------------------------------------------------
(* Names of processes, and the ends they hold *)

\* A child is known by its kind and its number.
LEMMA Names ==
  /\ \A m \in Mapper : Number(m) \in 0 .. MAPPER_COUNT - 1 /\ m = <<"mapper", Number(m)>>
  /\ \A i \in 0 .. MAPPER_COUNT - 1 : <<"mapper", i>> \in Mapper /\ Number(<<"mapper", i>>) = i
  /\ \A r \in Reducer : Number(r) \in 0 .. REDUCER_COUNT - 1 /\ r = <<"reducer", Number(r)>>
  /\ \A i \in 0 .. REDUCER_COUNT - 1 :
       <<"reducer", i>> \in Reducer /\ Number(<<"reducer", i>>) = i
  /\ \A i : <<"reducer", i>> \in Reducer => i \in 0 .. REDUCER_COUNT - 1
  /\ \A m \in Mapper : m \notin Reducer /\ m # Parent
  /\ \A r \in Reducer : r \notin Mapper /\ r # Parent
  /\ \A m, n \in Mapper : Number(m) = Number(n) => m = n
  /\ \A r, s \in Reducer : Number(r) = Number(s) => r = s
BY DEF Mapper, Reducer, Parent, Number

\* The processes are the parent, the mappers and the reducers.
LEMMA Processes ==
  /\ Child = Mapper \cup Reducer
  /\ Process = Child \cup {Parent}
  /\ Pipe = Child
BY DEF Child, Process, Pipe

\* What closing the ends E leaves to whom.
LEMMA Closing ==
  ASSUME TypeOK, NEW p \in Process, NEW E, closer(p, E)
  PROVE  /\ \A q \in Process : q # p => \A c : (Holds(q, c)' <=> Holds(q, c))
         /\ \A c : Holds(p, c)' <=> Holds(p, c) /\ <<c, "write">> \notin E
BY DEF TypeOK, closer, Holds

\* A write end is not a read end.
LEMMA WriteEnd ==
  ASSUME NEW P, NEW c
  PROVE  /\ <<c, "write">> \in WriteEnds(P) <=> c \in P
         /\ <<c, "write">> \notin ReadEnds(P)
BY DEF WriteEnds, ReadEnds

\* There are as many children as mappers and reducers together.
LEMMA ChildCount ==
  IsFiniteSet(Child) /\ Cardinality(Child) = MAPPER_COUNT + REDUCER_COUNT
<1> DEFINE N == MAPPER_COUNT + REDUCER_COUNT
           f == [i \in 1 .. N |-> IF i <= MAPPER_COUNT THEN <<"mapper", i - 1>>
                                 ELSE <<"reducer", i - MAPPER_COUNT - 1>>]
<1>1. N \in Nat /\ MAPPER_COUNT \in Nat /\ REDUCER_COUNT \in Nat
  BY MapReduceAssumption
<1>2. f \in [1 .. N -> Child]
  BY <1>1 DEF Child, Mapper, Reducer
<1>3. \A c \in Child : \E i \in 1 .. N : f[i] = c
  <2>1. ASSUME NEW m \in Mapper PROVE \E i \in 1 .. N : f[i] = m
    <3>1. Number(m) \in 0 .. MAPPER_COUNT - 1 /\ m = <<"mapper", Number(m)>>
      BY Names
    <3>2. Number(m) + 1 \in 1 .. N /\ f[Number(m) + 1] = m
      BY <1>1, <3>1
    <3> QED BY <3>2
  <2>2. ASSUME NEW r \in Reducer PROVE \E i \in 1 .. N : f[i] = r
    <3>1. Number(r) \in 0 .. REDUCER_COUNT - 1 /\ r = <<"reducer", Number(r)>>
      BY Names
    <3>2. /\ Number(r) + MAPPER_COUNT + 1 \in 1 .. N
          /\ f[Number(r) + MAPPER_COUNT + 1] = r
      BY <1>1, <3>1
    <3> QED BY <3>2
  <2> QED BY <2>1, <2>2, Processes
<1>4. \A i, j \in 1 .. N : f[i] = f[j] => i = j
  BY <1>1
<1> HIDE DEF f
<1>5. f \in Bijection(1 .. N, Child)
  BY <1>2, <1>3, <1>4 DEF Bijection, Injection, Surjection, IsInjective
<1>6. IsFiniteSet(1 .. N) /\ Cardinality(1 .. N) = N
  <2>1. 1 \in Int /\ N \in Int
    BY <1>1
  <2> QED BY <1>1, <2>1, FS_Interval
<1> QED BY <1>5, <1>6, FS_Bijection DEF ExistsBijection

-----------------------------------------------------------------------------
(* Types, loops and calls of wait *)

LEMMA InitCommon ==
  ASSUME Init
  PROVE  CommonInv
<1>1. TypeOK
  BY MapReduceAssumption, Names, Processes DEF Init, TypeOK, ReadEnds, WriteEnds
<1>2. PhaseInv
  BY MapReduceAssumption DEF Init, PhaseInv
<1> QED BY <1>1, <1>2 DEF CommonInv

\* All ends there are.
End == ReadEnds(Pipe) \cup WriteEnds(Pipe)

LEMMA EndsTyped ==
  ASSUME TypeOK
  PROVE  /\ ends \in [Process -> SUBSET End]
         /\ \A p \in Process : \A E : closer(p, E) => ends' \in [Process -> SUBSET End]
         /\ \A c \in Child : \A E : Fork(c, E) => ends' \in [Process -> SUBSET End]
<1>1. ends \in [Process -> SUBSET End]
  BY DEF TypeOK, End
<1> QED BY <1>1, Processes DEF closer, Fork

\* Forking a child makes no step of the types but in ends and stage.
LEMMA ForkTyped ==
  ASSUME TypeOK, NEW c \in Child, NEW E, Fork(c, E),
         parent' \in {"mappers", "reducers", "open"},
         curr_pipe' \in (0 .. MAPPER_COUNT) \cup (0 .. REDUCER_COUNT - 1)
  PROVE  TypeOK'
<1>1. ends' \in [Process -> SUBSET End]
  BY EndsTyped
<1>2. stage' \in [Child -> {"unborn", "closing", "reading", "mapping", "ending",
                            "counting", "exited", "failed"}]
  BY DEF Fork, TypeOK
<1> QED BY <1>1, <1>2 DEF Fork, TypeOK, End

LEMMA ForkMapperCommon ==
  ASSUME CommonInv, ForkMapper
  PROVE  CommonInv'
<1>1. curr_pipe \in 0 .. MAPPER_COUNT - 1
  BY MapReduceAssumption DEF ForkMapper, CommonInv, TypeOK, PhaseInv
<1>2. PICK m \in Mapper : m = <<"mapper", curr_pipe>>
  BY <1>1, Names
<1>3. /\ parent' \in {"mappers", "reducers", "open"}
      /\ curr_pipe' \in (0 .. MAPPER_COUNT) \cup (0 .. REDUCER_COUNT - 1)
  BY <1>1, MapReduceAssumption DEF ForkMapper
<1>4. TypeOK'
  BY <1>2, <1>3, ForkTyped, Processes DEF ForkMapper, CommonInv
<1>5. PhaseInv'
  BY <1>1, MapReduceAssumption DEF ForkMapper, Fork, CommonInv, TypeOK, PhaseInv
<1> QED BY <1>4, <1>5 DEF CommonInv

LEMMA ForkReducerCommon ==
  ASSUME CommonInv, ForkReducer
  PROVE  CommonInv'
<1>1. curr_pipe \in 0 .. REDUCER_COUNT - 1
  BY MapReduceAssumption DEF ForkReducer, CommonInv, TypeOK, PhaseInv
<1>2. PICK r \in Reducer : r = <<"reducer", curr_pipe>>
  BY <1>1, Names
<1>3. /\ parent' \in {"mappers", "reducers", "open"}
      /\ curr_pipe' \in (0 .. MAPPER_COUNT) \cup (0 .. REDUCER_COUNT - 1)
  BY <1>1, MapReduceAssumption DEF ForkReducer
<1>4. TypeOK'
  BY <1>2, <1>3, ForkTyped, Processes DEF ForkReducer, CommonInv
<1>5. PhaseInv'
  BY <1>1, MapReduceAssumption DEF ForkReducer, Fork, CommonInv, TypeOK, PhaseInv
<1> QED BY <1>4, <1>5 DEF CommonInv

\* A line into the pipe of a mapper.
LEMMA FeedCommon ==
  ASSUME CommonInv, Feed
  PROVE  /\ CommonInv'
         /\ \E m \in Mapper :
              /\ m = <<"mapper", curr_pipe>> /\ Number(m) = curr_pipe
              /\ data' = [data EXCEPT ![m] = Append(@, input[curr_pipe + 1])]
              /\ closer(Parent, WriteEnds({m}))
<1>1. /\ curr_pipe \in 0 .. MAPPER_COUNT - 1 /\ lines_read = curr_pipe
      /\ curr_pipe + 1 <= MAPPER_COUNT /\ curr_pipe + 1 <= Len(input)
      /\ input \in Seq(Seq(Nat)) /\ Len(input) \in Nat
  <2>1. input \in Seq(Seq(Nat))
    BY MapReduceAssumption DEF CommonInv, TypeOK
  <2> QED BY <2>1, MapReduceAssumption DEF Feed, CommonInv, TypeOK, PhaseInv
<1>2. PICK m \in Mapper : m = <<"mapper", curr_pipe>> /\ Number(m) = curr_pipe
  BY <1>1, Names
<1>3. PICK line \in Seq(Nat) : line = input[curr_pipe + 1]
  BY <1>1, ElementOfSeq
<1>4. /\ data' = [data EXCEPT ![m] = Append(@, line)]
      /\ closer(Parent, WriteEnds({m}))
  BY <1>1, <1>2, <1>3 DEF Feed
<1>5. /\ DOMAIN data' = Pipe
      /\ \A n \in Mapper : data'[n] \in Seq(Seq(Nat))
      /\ \A r \in Reducer : data'[r] \in Seq(Nat)
  <2>1. data[m] \in Seq(Seq(Nat)) /\ DOMAIN data = Pipe /\ m \in Pipe
    BY Processes DEF CommonInv, TypeOK
  <2>2. Append(data[m], line) \in Seq(Seq(Nat))
    BY <1>3, <2>1, AppendProperties
  <2>3. data'[m] = Append(data[m], line) /\ \A p \in Pipe : p # m => data'[p] = data[p]
    BY <1>4, <2>1
  <2>4. DOMAIN data' = Pipe
    BY <1>4, <2>1
  <2> QED BY <2>2, <2>3, <2>4, Names, Processes DEF CommonInv, TypeOK
<1>6. ends' \in [Process -> SUBSET End]
  BY <1>4, EndsTyped, Processes DEF CommonInv
<1>7. TypeOK'
  <2>1. lines_read' \in 0 .. Len(input)
    BY <1>1 DEF Feed
  <2>2. curr_pipe' \in 0 .. MAPPER_COUNT
    BY <1>1 DEF Feed
  <2> QED BY <1>5, <1>6, <2>1, <2>2 DEF Feed, CommonInv, TypeOK, End, childVars
<1>8. PhaseInv'
  BY <1>1 DEF Feed, PhaseInv
<1> QED BY <1>1, <1>2, <1>3, <1>4, <1>7, <1>8 DEF CommonInv

\* The other steps of the parent move none of the data.
LEMMA OtherParentCommon ==
  ASSUME CommonInv, Open \/ Fail \/ EndFeeding \/ Wait \/ Return
  PROVE  CommonInv'
<1>1. ends' \in [Process -> SUBSET End]
  <2>1. ends' = ends \/ closer(Parent, ends[Parent])
    BY DEF Open, Fail, EndFeeding, Wait, Return
  <2> QED BY <2>1, EndsTyped, Processes DEF CommonInv
<1>2. Len(input) \in Nat
  <2>1. input \in Seq(Seq(Nat))
    BY MapReduceAssumption DEF CommonInv, TypeOK
  <2> QED BY <2>1
<1>3. TypeOK'
  <2>1. parent' \in {"mappers", "reducers", "open", "feed", "wait", "exited", "failed"}
    BY DEF Open, Fail, EndFeeding, Wait, Return, CommonInv, TypeOK
  <2>2. lines_read' \in 0 .. Len(input)
    BY <1>2 DEF Open, Fail, EndFeeding, Wait, Return, CommonInv, TypeOK
  <2>3. waits' \in 0 .. MAPPER_COUNT + REDUCER_COUNT
    BY MapReduceAssumption DEF Open, Fail, EndFeeding, Wait, Return, CommonInv, TypeOK
  <2>4. UNCHANGED <<data, curr_pipe, input, stage, buffer, char_count, printed>>
    BY DEF Open, Fail, EndFeeding, Wait, Return, childVars
  <2> QED BY <1>1, <2>1, <2>2, <2>3, <2>4 DEF CommonInv, TypeOK, End
<1>4. PhaseInv'
  BY <1>2, MapReduceAssumption
     DEF Open, Fail, EndFeeding, Wait, Return, CommonInv, TypeOK, PhaseInv
<1> QED BY <1>3, <1>4 DEF CommonInv

\* A child leaves the loops of the parent alone.
LEMMA ChildPhase ==
  ASSUME PhaseInv, UNCHANGED <<parentVars, input>>
  PROVE  PhaseInv'
BY DEF PhaseInv, parentVars

LEMMA MapperCommon ==
  ASSUME CommonInv, NEW m \in Mapper, MapperStep(m)
  PROVE  CommonInv'
<1>1. m \in Child /\ m \in Process /\ m \in Pipe
  BY Processes
<1>2. ends' \in [Process -> SUBSET End]
  <2>1. ends' = ends \/ \E E : closer(m, E)
    BY DEF MapperStep, MapperCloses, MapperReads, MapperWrites, MapperEnds, MapperExits
  <2> QED BY <1>1, <2>1, EndsTyped DEF CommonInv
<1>3. stage' \in [Child -> {"unborn", "closing", "reading", "mapping", "ending",
                            "counting", "exited", "failed"}]
  BY <1>1 DEF MapperStep, MapperCloses, MapperReads, MapperWrites, MapperEnds, MapperExits,
              Goto, CommonInv, TypeOK
<1>4. /\ UNCHANGED <<parentVars, input, char_count, printed>>
      /\ \/ UNCHANGED <<data, buffer>>
         \/ MapperReads(m) /\ data[m] # <<>>
         \/ MapperWrites(m)
  BY DEF MapperStep, MapperCloses, MapperReads, MapperWrites, MapperEnds, MapperExits
<1>5. DOMAIN data = Pipe /\ data[m] \in Seq(Seq(Nat)) /\ buffer \in [Mapper -> Seq(Nat)]
  BY DEF CommonInv, TypeOK
<1>6. /\ DOMAIN data' = Pipe
      /\ \A n \in Mapper : data'[n] \in Seq(Seq(Nat))
      /\ \A r \in Reducer : data'[r] \in Seq(Nat)
      /\ buffer' \in [Mapper -> Seq(Nat)]
  <2>1. CASE UNCHANGED <<data, buffer>>
    BY <2>1 DEF CommonInv, TypeOK
  <2>2. CASE MapperReads(m) /\ data[m] # <<>>
    <3>1. /\ buffer' = [buffer EXCEPT ![m] = Head(data[m])]
          /\ data' = [data EXCEPT ![m] = Tail(@)]
      BY <2>2 DEF MapperReads, EndOfPipe
    <3>2. Head(data[m]) \in Seq(Nat) /\ Tail(data[m]) \in Seq(Seq(Nat))
      BY <1>5, <2>2, HeadTailProperties
    <3>3. /\ data'[m] = Tail(data[m]) /\ DOMAIN data' = Pipe
          /\ \A p \in Pipe : p # m => data'[p] = data[p]
      BY <1>1, <1>5, <3>1
    <3>4. buffer' \in [Mapper -> Seq(Nat)]
      BY <1>5, <3>1, <3>2
    <3> QED BY <3>2, <3>3, <3>4, Names, Processes DEF CommonInv, TypeOK
  <2>3. CASE MapperWrites(m)
    <3>1. buffer[m] \in Seq(Nat) /\ buffer[m] # <<>>
      BY <1>5, <2>3 DEF MapperWrites
    <3>2. Head(buffer[m]) \in Nat /\ Tail(buffer[m]) \in Seq(Nat)
      BY <3>1, HeadTailProperties
    <3>3. buffer' \in [Mapper -> Seq(Nat)]
      BY <1>5, <2>3, <3>2 DEF MapperWrites
    <3>4. CASE <<"reducer", Head(buffer[m])>> \in Reducer
      <4>1. PICK r \in Reducer : r = <<"reducer", Head(buffer[m])>>
        BY <3>4
      <4>2. data' = [data EXCEPT ![r] = Append(@, Head(buffer[m]))]
        BY <2>3, <4>1 DEF MapperWrites
      <4>3. r \in Pipe /\ data[r] \in Seq(Nat)
        BY Processes DEF CommonInv, TypeOK
      <4>4. Append(data[r], Head(buffer[m])) \in Seq(Nat)
        BY <3>2, <4>3, AppendProperties
      <4>5. /\ data'[r] = Append(data[r], Head(buffer[m])) /\ DOMAIN data' = Pipe
            /\ \A p \in Pipe : p # r => data'[p] = data[p]
        BY <1>5, <4>2, <4>3
      <4>6. \A n \in Mapper : data'[n] = data[n]
        BY <4>5, Names, Processes
      <4>7. \A s \in Reducer : data'[s] \in Seq(Nat)
        BY <4>4, <4>5, Processes DEF CommonInv, TypeOK
      <4> QED BY <3>3, <4>5, <4>6, <4>7 DEF CommonInv, TypeOK
    <3>5. CASE <<"reducer", Head(buffer[m])>> \notin Reducer
      <4>1. data' = data
        BY <2>3, <3>5 DEF MapperWrites
      <4> QED BY <3>3, <4>1 DEF CommonInv, TypeOK
    <3> QED BY <3>4, <3>5
  <2> QED BY <1>4, <2>1, <2>2, <2>3
<1>7. TypeOK'
  BY <1>2, <1>3, <1>4, <1>6 DEF CommonInv, TypeOK, End, parentVars
<1> QED BY <1>4, <1>7, ChildPhase DEF CommonInv

LEMMA ReducerCommon ==
  ASSUME CommonInv, NEW r \in Reducer, ReducerStep(r)
  PROVE  CommonInv'
<1>1. r \in Child /\ r \in Process /\ r \in Pipe
  BY Processes
<1>2. ends' \in [Process -> SUBSET End]
  <2>1. ends' = ends \/ \E E : closer(r, E)
    BY DEF ReducerStep, ReducerCloses, ReducerReads, ReducerPrints
  <2> QED BY <1>1, <2>1, EndsTyped DEF CommonInv
<1>3. stage' \in [Child -> {"unborn", "closing", "reading", "mapping", "ending",
                            "counting", "exited", "failed"}]
  BY <1>1 DEF ReducerStep, ReducerCloses, ReducerReads, ReducerPrints, Goto, CommonInv, TypeOK
<1>4. UNCHANGED <<parentVars, input, buffer>>
  BY DEF ReducerStep, ReducerCloses, ReducerReads, ReducerPrints
<1>5. DOMAIN data = Pipe /\ data[r] \in Seq(Nat) /\ char_count \in [Reducer -> Nat]
  BY DEF CommonInv, TypeOK
<1>6. char_count' \in [Reducer -> Nat]
  BY <1>5 DEF ReducerStep, ReducerCloses, ReducerReads, ReducerPrints
<1>7. printed' \in Seq(Nat)
  <2>1. printed' = printed \/ printed' = Append(printed, char_count[r])
    BY DEF ReducerStep, ReducerCloses, ReducerReads, ReducerPrints
  <2>2. printed \in Seq(Nat) /\ char_count[r] \in Nat
    BY <1>5 DEF CommonInv, TypeOK
  <2> QED BY <2>1, <2>2, AppendProperties
<1>8. /\ DOMAIN data' = Pipe
      /\ \A m \in Mapper : data'[m] \in Seq(Seq(Nat))
      /\ \A s \in Reducer : data'[s] \in Seq(Nat)
  <2>1. \/ data' = data
        \/ data[r] # <<>> /\ data' = [data EXCEPT ![r] = Tail(@)]
    <3>1. ASSUME ReducerReads(r) PROVE data[r] # <<>> /\ data' = [data EXCEPT ![r] = Tail(@)]
      BY <3>1, Zenon DEF ReducerReads
    <3>2. ReducerCloses(r) \/ ReducerPrints(r) => data' = data
      BY DEF ReducerCloses, ReducerPrints
    <3> QED BY <3>1, <3>2 DEF ReducerStep
  <2>2. CASE data' = data
    BY <2>2 DEF CommonInv, TypeOK
  <2>3. CASE data[r] # <<>> /\ data' = [data EXCEPT ![r] = Tail(@)]
    <3>1. Tail(data[r]) \in Seq(Nat)
      BY <1>5, <2>3, HeadTailProperties
    <3>2. /\ data'[r] = Tail(data[r]) /\ DOMAIN data' = Pipe
          /\ \A p \in Pipe : p # r => data'[p] = data[p]
      BY <1>1, <1>5, <2>3
    <3> QED BY <3>1, <3>2, Names, Processes DEF CommonInv, TypeOK
  <2> QED BY <2>1, <2>2, <2>3
<1>9. TypeOK'
  BY <1>2, <1>3, <1>4, <1>6, <1>7, <1>8 DEF CommonInv, TypeOK, End, parentVars
<1> QED BY <1>4, <1>9, ChildPhase DEF CommonInv

\* Every step keeps the types and the loops.
LEMMA StepCommon ==
  ASSUME CommonInv, [Next]_vars
  PROVE  CommonInv'
<1>1. CASE UNCHANGED vars
  BY <1>1 DEF vars, parentVars, childVars, CommonInv, TypeOK, PhaseInv
<1> QED BY <1>1, ForkMapperCommon, ForkReducerCommon, FeedCommon, OtherParentCommon,
           MapperCommon, ReducerCommon DEF Next, ParentStep

\* TypeOK: a mapper's pipe carries lines and a reducer's pipe letters, and the
\* loops of main stay within their bounds.
THEOREM TypeCorrect == Spec => []TypeOK
<1>1. Init => CommonInv
  BY InitCommon
<1>2. CommonInv /\ [Next]_vars => CommonInv'
  BY StepCommon
<1>3. CommonInv => TypeOK
  BY DEF CommonInv
<1> QED BY <1>1, <1>2, <1>3, PTL DEF Spec

-----------------------------------------------------------------------------
(* What most steps leave alone *)

\* A child that has ended has ended for good, so wait is not ahead.
LEMMA EndedGrows ==
  ASSUME WaitInv, waits \in Nat, waits' = waits, parent' = "exited" => parent = "exited",
         \A c \in Child : stage[c] \in {"exited", "failed"} => stage'[c] \in {"exited", "failed"}
  PROVE  WaitInv'
<1>1. Ended \in SUBSET Ended' /\ Ended' \in SUBSET Child
  BY DEF Ended
<1>2. IsFiniteSet(Ended')
  BY <1>1, ChildCount, FS_Subset
<1>3. Cardinality(Ended) <= Cardinality(Ended')
  BY <1>1, <1>2, FS_Subset
<1>4. IsFiniteSet(Ended)
  BY <1>1, <1>2, FS_Subset
<1>5. Cardinality(Ended) \in Nat /\ Cardinality(Ended') \in Nat
  BY <1>2, <1>4, FS_CardinalityType
<1>6. Ended = Child => Ended' = Child
  BY <1>1
<1> QED BY <1>3, <1>5, <1>6 DEF WaitInv

\* No mapper begins or ends its reading, so the lines are where they were.
LEMMA MapperFrame ==
  ASSUME MapperInv, UNCHANGED <<data, buffer, input>>, Fed' = Fed,
         \A m \in Mapper :
           /\ stage'[m] \in Waiting <=> stage[m] \in Waiting
           /\ stage'[m] \in Waiting \cup {"mapping", "ending", "exited"}
           /\ stage'[m] \in {"ending", "exited"} => buffer[m] = <<>>
  PROVE  MapperInv'
BY DEF MapperInv, HasLine, Line

\* What was sent depends on how far each mapper has come, on nothing else.
LEMMA SentFrame ==
  ASSUME input' = input, \A m \in Mapper : Seen(m)' = Seen(m)
  PROVE  \A n : Sent(n)' = Sent(n)
<1>1. \A k \in 1 .. MAPPER_COUNT : <<"mapper", k - 1>> \in Mapper
  BY Names, MapReduceAssumption
<1> SUFFICES ASSUME NEW n PROVE Sent(n)' = Sent(n)
  OBVIOUS
<1>2. ASSUME NEW x \in (1 .. MAPPER_COUNT) \X Nat
      PROVE  Seen(Reader(x))' = Seen(Reader(x)) /\ Line(Reader(x))' = Line(Reader(x))
  BY <1>1 DEF Reader, Line
<1> QED BY <1>2 DEF Sent

LEMMA SeenFrame ==
  ASSUME UNCHANGED <<buffer, input>>,
         \A m \in Mapper : stage'[m] \in Waiting <=> stage[m] \in Waiting
  PROVE  \A m \in Mapper : Seen(m)' = Seen(m)
BY DEF Seen, Line, Waiting

LEMMA ReducerFrame ==
  ASSUME ReducerInv, UNCHANGED <<data, buffer, input, char_count>>,
         \A m \in Mapper : stage'[m] \in Waiting <=> stage[m] \in Waiting,
         \A r \in Reducer : stage'[r] \in {"unborn", "closing", "counting", "exited"}
  PROVE  ReducerInv'
<1>1. \A n : Sent(n)' = Sent(n)
  BY SeenFrame, SentFrame
<1> QED BY <1>1 DEF ReducerInv

LEMMA PrintedFrame ==
  ASSUME PrintedInv, UNCHANGED printed,
         \A r \in Reducer : stage'[r] = "exited" <=> stage[r] = "exited"
  PROVE  PrintedInv'
BY DEF PrintedInv

\* The parent alone decides what is forked; a child only closes ends.
LEMMA BirthFrame ==
  ASSUME BirthInv, UNCHANGED <<parent, curr_pipe>>,
         \A c \in Child : stage'[c] = "unborn" <=> stage[c] = "unborn"
  PROVE  BirthInv'
BY Processes DEF BirthInv

\* What fork leaves to whom.
LEMMA ForkHolds ==
  ASSUME TypeOK, NEW c \in Child, NEW E, Fork(c, E)
  PROVE  /\ \A d : Holds(c, d)' <=> Holds(Parent, d)
         /\ \A d : Holds(Parent, d)' <=> Holds(Parent, d) /\ <<d, "write">> \notin E
         /\ \A p \in Child : p # c => \A d : (Holds(p, d)' <=> Holds(p, d))
<1>1. c # Parent /\ c \in Process /\ Parent \in Process /\ Child \subseteq Process
  BY Names, Processes
<1>2. \A p \in Child : p # Parent
  BY Names, Processes
<1>3. DOMAIN ends = Process
  BY DEF TypeOK
<1> QED BY <1>1, <1>2, <1>3 DEF Fork, Holds

-----------------------------------------------------------------------------
(* The parent's steps *)

LEMMA ForkMapperMain ==
  ASSUME CommonInv, MainInv, ForkMapper
  PROVE  MainInv'
<1>1. /\ parent = "mappers" /\ curr_pipe \in 0 .. MAPPER_COUNT - 1
      /\ parent' \in {"mappers", "reducers"}
      /\ parent' = "mappers" => curr_pipe' = curr_pipe + 1
      /\ parent' = "reducers" => curr_pipe' = 0 /\ curr_pipe + 1 = MAPPER_COUNT
  BY MapReduceAssumption DEF ForkMapper, CommonInv, TypeOK, PhaseInv
<1>2. PICK m \in Mapper : m = <<"mapper", curr_pipe>> /\ Number(m) = curr_pipe
  BY <1>1, Names
<1>3. Fork(m, ReadEnds({m})) /\ m \in Child
  BY <1>2, Processes DEF ForkMapper
<1>4. stage[m] = "unborn" /\ stage'[m] = "closing" /\ \A c \in Child : c # m => stage'[c] = stage[c]
  BY <1>1, <1>2, <1>3 DEF CommonInv, TypeOK, MainInv, BirthInv, Fork
<1>5. UNCHANGED <<data, input, lines_read, waits, buffer, char_count, printed>> /\ Fed' = Fed
  BY <1>1, <1>3 DEF Fork, Fed
<1>6. \A n \in Mapper : stage'[n] \in Waiting <=> stage[n] \in Waiting
  BY <1>4, Processes DEF Waiting
<1>7. \A r \in Reducer : stage'[r] = stage[r]
  BY <1>4, Names, Processes
<1>8. WaitInv'
  BY <1>1, <1>4, <1>5, EndedGrows DEF MainInv, CommonInv, TypeOK
<1>9. BirthInv'
  <2>1. \A n \in Mapper : Number(n) = curr_pipe => n = m
    BY <1>2, Names
  <2>2. \A n \in Mapper : Number(n) \in 0 .. MAPPER_COUNT - 1
    BY Names
  <2>3. \A n \in Mapper : n # m => (stage'[n] = "unborn" <=> Number(n) >= curr_pipe)
    BY <1>1, <1>4, Processes DEF MainInv, BirthInv
  <2>4. \A n \in Mapper : stage'[n] = "unborn" <=> Number(n) >= curr_pipe + 1
    BY <1>1, <1>2, <1>4, <2>1, <2>2, <2>3, MapReduceAssumption
  <2>5. \A r \in Reducer : stage[r] = "unborn" /\ Number(r) \in 0 .. REDUCER_COUNT - 1
    BY <1>1, Names DEF MainInv, BirthInv
  <2> QED BY <1>1, <1>7, <2>2, <2>4, <2>5, MapReduceAssumption DEF BirthInv
<1>10. EndsInv'
  <2>1. \A c \in Child : Holds(Parent, c) /\ Holds(Parent, c)' /\ Holds(m, c)'
    BY <1>1, <1>3, ForkHolds, WriteEnd DEF CommonInv, MainInv, EndsInv
  <2>2. \A p \in Child, c \in Child : p # m => (Holds(p, c)' <=> Holds(p, c))
    BY <1>3, ForkHolds DEF CommonInv
  <2> QED BY <1>1, <1>4, <1>7, <2>1, <2>2, Names, Processes DEF MainInv, EndsInv
<1>11. MapperInv'
  <2>1. \A n \in Mapper : stage'[n] \in {"ending", "exited"} => buffer[n] = <<>>
    BY <1>4, Processes DEF MainInv, MapperInv, HasLine
  <2>2. \A n \in Mapper : stage'[n] \in Waiting \cup {"mapping", "ending", "exited"}
    BY <1>4, Processes DEF MainInv, MapperInv, HasLine, Waiting
  <2> QED BY <1>5, <1>6, <2>1, <2>2, MapperFrame DEF MainInv
<1>12. ReducerInv'
  <2>1. \A r \in Reducer : stage'[r] \in {"unborn", "closing", "counting", "exited"}
    BY <1>7 DEF MainInv, ReducerInv
  <2> QED BY <1>5, <1>6, <2>1, ReducerFrame DEF MainInv
<1>13. PrintedInv'
  BY <1>5, <1>7, PrintedFrame DEF MainInv
<1> QED BY <1>8, <1>9, <1>10, <1>11, <1>12, <1>13 DEF MainInv

LEMMA ForkReducerMain ==
  ASSUME CommonInv, MainInv, ForkReducer
  PROVE  MainInv'
<1>1. /\ parent = "reducers" /\ curr_pipe \in 0 .. REDUCER_COUNT - 1
      /\ parent' \in {"reducers", "open"}
      /\ parent' = "reducers" => curr_pipe' = curr_pipe + 1
  BY MapReduceAssumption DEF ForkReducer, CommonInv, TypeOK, PhaseInv
<1>2. PICK r \in Reducer : r = <<"reducer", curr_pipe>> /\ Number(r) = curr_pipe
  BY <1>1, Names
<1>3. Fork(r, WriteEnds({r})) /\ r \in Child
  BY <1>2, Processes DEF ForkReducer
<1>4. /\ stage[r] = "unborn" /\ stage'[r] = "closing"
      /\ \A c \in Child : c # r => stage'[c] = stage[c]
  BY <1>1, <1>2, <1>3 DEF CommonInv, TypeOK, MainInv, BirthInv, Fork
<1>5. UNCHANGED <<data, input, lines_read, waits, buffer, char_count, printed>> /\ Fed' = Fed
  BY <1>1, <1>3 DEF Fork, Fed
<1>6. \A m \in Mapper : stage'[m] = stage[m]
  BY <1>4, Names, Processes
<1>7. \A s \in Reducer : Number(s) \in 0 .. REDUCER_COUNT - 1 /\ (Number(s) = curr_pipe => s = r)
  BY <1>2, Names
<1>8. WaitInv'
  BY <1>1, <1>4, <1>5, EndedGrows DEF MainInv, CommonInv, TypeOK
<1>9. BirthInv'
  <2>1. \A s \in Reducer : stage[s] = "unborn" <=> Number(s) >= curr_pipe
    BY <1>1 DEF MainInv, BirthInv
  <2>2. \A s \in Reducer : stage'[s] = "unborn" <=> Number(s) >= curr_pipe + 1
    BY <1>1, <1>2, <1>4, <1>7, <2>1, Processes
  <2>3. \A s, q \in Reducer :
          Number(s) < Number(q) /\ stage'[q] # "unborn" => stage'[s] # "unborn"
    BY <1>1, <1>7, <2>2
  <2>4. \A m \in Mapper : stage'[m] # "unborn"
    BY <1>1, <1>6 DEF MainInv, BirthInv
  <2> QED BY <1>1, <2>2, <2>3, <2>4 DEF BirthInv
<1>10. EndsInv'
  <2>1. \A s \in Reducer : Number(s) > curr_pipe => Holds(Parent, s)' /\ Holds(r, s)'
    <3> SUFFICES ASSUME NEW s \in Reducer, Number(s) > curr_pipe
                 PROVE  Holds(Parent, s)' /\ Holds(r, s)'
      OBVIOUS
    <3>1. Holds(Parent, s)
      BY <1>1, <1>7 DEF MainInv, EndsInv
    <3>2. <<s, "write">> \notin WriteEnds({r})
      BY <1>1, <1>2, WriteEnd
    <3> QED BY <1>3, <3>1, <3>2, ForkHolds DEF CommonInv
  <2>2. \A m \in Mapper : Holds(Parent, m)'
    <3> SUFFICES ASSUME NEW m \in Mapper PROVE Holds(Parent, m)'
      OBVIOUS
    <3>1. Holds(Parent, m)
      BY <1>1 DEF MainInv, EndsInv
    <3>2. <<m, "write">> \notin WriteEnds({r})
      BY Names, WriteEnd
    <3> QED BY <1>3, <3>1, <3>2, ForkHolds DEF CommonInv
  <2>3. \A p \in Child, c \in Child : p # r => (Holds(p, c)' <=> Holds(p, c))
    BY <1>3, ForkHolds DEF CommonInv
  <2>4. \A s \in Reducer : Number(s) >= curr_pipe + 1 => Number(s) > curr_pipe
    BY <1>1, <1>7
  <2>5. \A s, q \in Reducer :
          Number(s) < Number(q) /\ stage'[s] \in {"closing", "counting"} => Holds(s, q)'
    <3> SUFFICES ASSUME NEW s \in Reducer, NEW q \in Reducer, Number(s) < Number(q),
                        stage'[s] \in {"closing", "counting"}
                 PROVE  Holds(s, q)'
      OBVIOUS
    <3>1. CASE s = r
      BY <1>1, <1>2, <1>7, <2>1, <3>1
    <3>2. CASE s # r
      BY <1>4, <2>3, <3>2, Processes DEF MainInv, EndsInv
    <3> QED BY <3>1, <3>2
  <2>6. \A m \in Mapper : m # r
    BY Names
  <2> QED BY <1>1, <1>6, <2>1, <2>2, <2>3, <2>4, <2>5, <2>6, Processes DEF MainInv, EndsInv
<1>11. MapperInv'
  BY <1>5, <1>6, MapperFrame DEF MainInv, MapperInv, HasLine
<1>12. ReducerInv'
  <2>1. \A s \in Reducer : stage'[s] \in {"unborn", "closing", "counting", "exited"}
    BY <1>4, Processes DEF MainInv, ReducerInv
  <2> QED BY <1>5, <1>6, <2>1, ReducerFrame DEF MainInv
<1>13. PrintedInv'
  BY <1>4, <1>5, Processes, PrintedFrame DEF MainInv
<1> QED BY <1>8, <1>9, <1>10, <1>11, <1>12, <1>13 DEF MainInv

\* A step that leaves the children and the data alone.
LEMMA ChildrenFrame ==
  ASSUME MapperInv, ReducerInv, PrintedInv, Fed' = Fed,
         UNCHANGED <<data, input, stage, buffer, char_count, printed>>
  PROVE  MapperInv' /\ ReducerInv' /\ PrintedInv'
<1>1. MapperInv'
  BY MapperFrame DEF MapperInv, HasLine
<1>2. ReducerInv'
  BY ReducerFrame DEF ReducerInv
<1>3. PrintedInv'
  BY PrintedFrame
<1> QED BY <1>1, <1>2, <1>3

LEMMA OpenMain ==
  ASSUME CommonInv, MainInv, Open
  PROVE  MainInv'
<1>1. /\ parent = "open" /\ parent' = "feed" /\ curr_pipe = 0
      /\ UNCHANGED <<ends, curr_pipe, waits, data, input, stage, buffer, char_count, printed>>
  BY DEF Open, CommonInv, PhaseInv, childVars
<1>2. Fed' = Fed
  BY <1>1 DEF Fed
<1>3. WaitInv'
  BY <1>1 DEF MainInv, WaitInv, Ended
<1>4. BirthInv'
  BY <1>1 DEF MainInv, BirthInv
<1>5. EndsInv'
  BY <1>1, Zenon DEF MainInv, EndsInv, Holds
<1> QED BY <1>1, <1>2, <1>3, <1>4, <1>5, ChildrenFrame DEF MainInv

LEMMA EndFeedingMain ==
  ASSUME CommonInv, MainInv, EndFeeding
  PROVE  MainInv'
<1>1. /\ parent = "feed" /\ parent' = "wait"
      /\ UNCHANGED <<ends, curr_pipe, waits, data, input, stage, buffer, char_count, printed>>
  BY DEF EndFeeding, childVars
<1>2. Fed' = Fed
  BY <1>1 DEF Fed
<1>3. WaitInv'
  BY <1>1 DEF MainInv, WaitInv, Ended
<1>4. BirthInv'
  BY <1>1 DEF MainInv, BirthInv
<1>5. EndsInv'
  BY <1>1 DEF MainInv, EndsInv, Holds
<1> QED BY <1>1, <1>2, <1>3, <1>4, <1>5, ChildrenFrame DEF MainInv

LEMMA WaitMain ==
  ASSUME CommonInv, MainInv, Wait
  PROVE  MainInv'
<1>1. /\ parent = "wait" /\ waits < Cardinality(Ended) /\ waits' = waits + 1
      /\ UNCHANGED <<ends, parent, curr_pipe, data, input, stage, buffer, char_count, printed>>
  BY DEF Wait, childVars
<1>2. Fed' = Fed
  BY <1>1 DEF Fed
<1>3. WaitInv'
  <2>1. Ended \in SUBSET Child /\ Ended' = Ended
    BY <1>1 DEF Ended
  <2>2. Cardinality(Ended) \in Nat
    BY <2>1, ChildCount, FS_Subset, FS_CardinalityType
  <2>3. waits \in Nat
    BY DEF CommonInv, TypeOK
  <2> QED BY <1>1, <2>1, <2>2, <2>3 DEF WaitInv
<1>4. BirthInv'
  BY <1>1 DEF MainInv, BirthInv
<1>5. EndsInv'
  BY <1>1 DEF MainInv, EndsInv, Holds
<1> QED BY <1>1, <1>2, <1>3, <1>4, <1>5, ChildrenFrame DEF MainInv

\* The ends that the parent closes are its own.
LEMMA ParentCloses ==
  ASSUME TypeOK, NEW E, closer(Parent, E)
  PROVE  /\ \A p \in Child : \A d : (Holds(p, d)' <=> Holds(p, d))
         /\ \A d : Holds(Parent, d)' <=> Holds(Parent, d) /\ <<d, "write">> \notin E
BY Closing, Names, Processes

\* Having waited for every child, the parent knows that all have ended.
LEMMA ReturnMain ==
  ASSUME CommonInv, MainInv, Return
  PROVE  MainInv'
<1>1. /\ parent = "wait" /\ parent' = "exited" /\ waits = MAPPER_COUNT + REDUCER_COUNT
      /\ closer(Parent, ends[Parent])
      /\ UNCHANGED <<curr_pipe, waits, data, input, stage, buffer, char_count, printed>>
  BY DEF Return, childVars
<1>2. Fed' = Fed
  BY <1>1 DEF Fed
<1>3. WaitInv'
  <2>1. Ended \in SUBSET Child /\ Ended' = Ended
    BY <1>1 DEF Ended
  <2>2. Cardinality(Ended) \in Nat /\ Cardinality(Ended) <= Cardinality(Child)
    BY <2>1, ChildCount, FS_Subset, FS_CardinalityType
  <2>3. Cardinality(Child) <= Cardinality(Ended)
    BY <1>1, ChildCount DEF MainInv, WaitInv
  <2>4. Cardinality(Child) = Cardinality(Ended)
    BY <2>2, <2>3, ChildCount, MapReduceAssumption
  <2>5. Ended = Child
    BY <2>1, <2>4, ChildCount, FS_Subset
  <2> QED BY <1>1, <2>1, <2>5 DEF MainInv, WaitInv
<1>4. BirthInv'
  BY <1>1 DEF MainInv, BirthInv
<1>5. EndsInv'
  <2>1. \A p \in Child : \A d : (Holds(p, d)' <=> Holds(p, d))
    BY <1>1, ParentCloses DEF CommonInv
  <2> QED BY <1>1, <2>1, Processes DEF MainInv, EndsInv
<1> QED BY <1>1, <1>2, <1>3, <1>4, <1>5, ChildrenFrame DEF MainInv

\* fork or fopen fails.  Unless all mappers are there, nothing will be printed.
LEMMA FailStep ==
  ASSUME CommonInv, MainInv, Fail
  PROVE  IF Cut' THEN CutInv' ELSE MainInv'
<1>1. /\ parent \in {"mappers", "reducers", "open"} /\ parent' = "failed"
      /\ closer(Parent, ends[Parent])
      /\ UNCHANGED <<curr_pipe, waits, data, input, stage, buffer, char_count, printed>>
  BY DEF Fail, childVars
<1>2. CASE parent = "mappers"
  <2>1. curr_pipe \in 0 .. MAPPER_COUNT - 1
    BY <1>2, MapReduceAssumption DEF CommonInv, TypeOK, PhaseInv
  <2>2. PICK m \in Mapper : m = <<"mapper", curr_pipe>> /\ Number(m) = curr_pipe
    BY <2>1, Names
  <2>3. Cut'
    BY <1>1, <1>2, <2>1, <2>2 DEF Cut, MainInv, BirthInv
  <2>4. \A r \in Reducer : stage'[r] = "unborn"
    BY <1>1, <1>2 DEF MainInv, BirthInv
  <2>5. printed = <<>>
    <3>1. 0 \in 0 .. REDUCER_COUNT - 1
      BY MapReduceAssumption
    <3>2. PICK r \in Reducer : Number(r) = 0
      BY <3>1, Names
    <3>3. stage[r] # "exited"
      BY <1>1, <2>4
    <3>4. ~ (0 < Len(printed))
      BY <3>2, <3>3 DEF MainInv, PrintedInv
    <3>5. printed \in Seq(Nat)
      BY DEF CommonInv, TypeOK
    <3> QED BY <3>4, <3>5, EmptySeq
  <2> QED BY <1>1, <2>3, <2>4, <2>5 DEF CutInv
<1>3. CASE parent # "mappers"
  <2>1. \A m \in Mapper : stage'[m] # "unborn"
    BY <1>1, <1>3 DEF MainInv, BirthInv
  <2>2. ~ Cut'
    BY <2>1 DEF Cut
  <2>3. Fed' = Fed
    BY <1>1 DEF Fed
  <2>4. WaitInv'
    BY <1>1 DEF MainInv, WaitInv, Ended
  <2>5. BirthInv'
    BY <1>1, <1>3 DEF MainInv, BirthInv
  <2>6. EndsInv'
    <3>1. \A p \in Child : \A d : (Holds(p, d)' <=> Holds(p, d))
      BY <1>1, ParentCloses DEF CommonInv
    <3> QED BY <1>1, <3>1, Processes DEF MainInv, EndsInv
  <2>7. MapperInv' /\ ReducerInv' /\ PrintedInv'
    BY <1>1, <2>3, ChildrenFrame DEF MainInv
  <2> QED BY <2>2, <2>4, <2>5, <2>6, <2>7 DEF MainInv
<1> QED BY <1>2, <1>3

\* A line goes to a mapper that cannot have read yet.
LEMMA FeedMain ==
  ASSUME CommonInv, MainInv, Feed
  PROVE  MainInv'
<1>1. PICK m \in Mapper :
        /\ m = <<"mapper", curr_pipe>> /\ Number(m) = curr_pipe
        /\ data' = [data EXCEPT ![m] = Append(@, input[curr_pipe + 1])]
        /\ closer(Parent, WriteEnds({m}))
  BY FeedCommon
<1>2. /\ parent = "feed" /\ parent' = "feed" /\ curr_pipe' = curr_pipe + 1
      /\ UNCHANGED <<waits, input, stage, buffer, char_count, printed>>
  BY DEF Feed, childVars
<1>3. curr_pipe \in Nat /\ Fed = curr_pipe /\ Fed' = curr_pipe + 1
  <2>1. curr_pipe \in Nat
    BY MapReduceAssumption DEF CommonInv, TypeOK
  <2> QED BY <1>2, <2>1 DEF Fed
<1>4. \A n \in Mapper : Number(n) \in Nat /\ (Number(n) = curr_pipe => n = m)
  BY <1>1, Names, MapReduceAssumption
<1>5. stage[m] \in Waiting /\ data[m] = <<>> /\ buffer[m] = <<>>
  <2>1. ~ (Number(m) < Fed)
    BY <1>1, <1>3
  <2> QED BY <2>1 DEF MainInv, MapperInv, HasLine
<1>6. /\ data'[m] = <<Line(m)>>
      /\ \A p \in Pipe : p # m => data'[p] = data[p]
  <2>1. PICK line : line = input[curr_pipe + 1]
    OBVIOUS
  <2>2. DOMAIN data = Pipe /\ m \in Pipe
    BY Processes DEF CommonInv, TypeOK
  <2>3. data'[m] = Append(<<>>, line) /\ \A p \in Pipe : p # m => data'[p] = data[p]
    BY <1>1, <1>5, <2>1, <2>2
  <2>4. Append(<<>>, line) = <<line>>
    OBVIOUS
  <2> QED BY <1>1, <2>1, <2>3, <2>4 DEF Line
<1>7. WaitInv'
  BY <1>2 DEF MainInv, WaitInv, Ended
<1>8. BirthInv'
  BY <1>2 DEF MainInv, BirthInv
<1>9. EndsInv'
  <2>1. \A p \in Child : \A d : (Holds(p, d)' <=> Holds(p, d))
    BY <1>1, ParentCloses DEF CommonInv
  <2>2. ASSUME NEW n \in Mapper, Number(n) >= curr_pipe + 1 PROVE Holds(Parent, n)'
    <3>1. n # m /\ Number(n) >= curr_pipe
      BY <1>1, <1>3, <1>4, <2>2
    <3>2. Holds(Parent, n)
      BY <1>2, <3>1 DEF MainInv, EndsInv
    <3>3. <<n, "write">> \notin WriteEnds({m})
      BY <3>1, WriteEnd
    <3> QED BY <1>1, <3>2, <3>3, ParentCloses DEF CommonInv
  <2> QED BY <1>2, <2>1, <2>2, Processes DEF MainInv, EndsInv
<1>10. MapperInv'
  <2> SUFFICES ASSUME NEW n \in Mapper
               PROVE  /\ stage[n] \in Waiting \cup {"mapping", "ending", "exited"}
                      /\ stage[n] \in Waiting =>
                           /\ data'[n] = IF Number(n) < Fed' THEN <<Line(n)>> ELSE <<>>
                           /\ buffer[n] = <<>>
                      /\ stage[n] \notin Waiting =>
                           /\ Number(n) < Fed' /\ data'[n] = <<>>
                           /\ Len(buffer[n]) <= Len(Line(n))
                           /\ \A j \in 1 .. Len(buffer[n]) :
                                buffer[n][j] = Line(n)[Len(Line(n)) - Len(buffer[n]) + j]
                      /\ stage[n] \in {"ending", "exited"} => buffer[n] = <<>>
    BY <1>2 DEF MapperInv, HasLine, Line
  <2>1. CASE n = m
    <3>1. Number(m) < Fed'
      BY <1>1, <1>3
    <3>2. stage[m] \notin {"ending", "exited"}
      BY <1>5 DEF Waiting
    <3> QED BY <1>5, <1>6, <2>1, <3>1, <3>2
  <2>2. CASE n # m
    <3>1. data'[n] = data[n] /\ (Number(n) < Fed' <=> Number(n) < Fed)
      BY <1>3, <1>4, <1>6, <2>2, Processes
    <3> QED BY <3>1 DEF MainInv, MapperInv, HasLine
  <2> QED BY <2>1, <2>2
<1>11. ReducerInv'
  <2>1. \A n : Sent(n)' = Sent(n)
    BY <1>2, SeenFrame, SentFrame
  <2>2. \A r \in Reducer : data'[r] = data[r]
    BY <1>6, Names, Processes
  <2> QED BY <1>2, <2>1, <2>2 DEF MainInv, ReducerInv
<1>12. PrintedInv'
  BY <1>2, PrintedFrame DEF MainInv
<1> QED BY <1>7, <1>8, <1>9, <1>10, <1>11, <1>12 DEF MainInv

-----------------------------------------------------------------------------
(* The mappers' steps *)

\* A mapper that was fed was given a line of the input.
LEMMA FedLine ==
  ASSUME CommonInv, NEW m \in Mapper, Number(m) < Fed
  PROVE  Line(m) \in Seq(Nat)
<1>1. Number(m) \in Nat
  BY Names, MapReduceAssumption
<1>2. input \in Seq(Seq(Nat)) /\ curr_pipe \in Nat
  BY MapReduceAssumption DEF CommonInv, TypeOK
<1>3. Number(m) < curr_pipe /\ curr_pipe <= Len(input)
  BY <1>1 DEF CommonInv, PhaseInv, Fed
<1>4. Number(m) + 1 \in 1 .. Len(input)
  BY <1>1, <1>2, <1>3
<1> QED BY <1>2, <1>4, ElementOfSeq DEF Line

\* As long as a mapper has not read, somebody holds the write end of its pipe,
\* or its line is there.
LEMMA NoEarlyEnd ==
  ASSUME NoLoneMapper, CommonInv, MainInv, NEW m \in Mapper, stage[m] = "reading"
  PROVE  ~ EndOfPipe(m)
<1> SUFFICES ASSUME EndOfPipe(m) PROVE FALSE
  OBVIOUS
<1>1. data[m] = <<>> /\ \A q \in Process : ~ Holds(q, m)
  BY DEF EndOfPipe, Holds
<1>2. ~ (Number(m) < Fed)
  <2>1. Number(m) < Fed => data[m] = <<Line(m)>>
    BY DEF MainInv, MapperInv, HasLine, Waiting
  <2>2. \A line : <<line>> # <<>>
    OBVIOUS
  <2> QED BY <1>1, <2>1, <2>2
<1>3. ~ Holds(Parent, m) /\ m \in Child
  BY <1>1, Processes
<1>4. Number(m) \in Nat /\ curr_pipe \in Nat
  BY Names, MapReduceAssumption DEF CommonInv, TypeOK
<1>5. parent \notin {"mappers", "reducers", "open"}
  BY <1>3 DEF MainInv, EndsInv
<1>6. parent \notin {"feed", "wait"}
  <2>1. parent \in {"feed", "wait"} => Number(m) >= curr_pipe
    BY <1>2, <1>4 DEF Fed
  <2> QED BY <1>3, <2>1 DEF MainInv, EndsInv
<1>7. parent # "exited"
  BY <1>3 DEF MainInv, WaitInv, Ended
<1>8. parent = "failed"
  BY <1>5, <1>6, <1>7 DEF CommonInv, TypeOK
<1>9. MAPPER_COUNT > 1
  <2>1. MayFail
    BY <1>8 DEF CommonInv, PhaseInv
  <2> QED BY <2>1 DEF NoLoneMapper
<1>10. PICK n \in Mapper : n # m
  <2>1. PICK i \in 0 .. MAPPER_COUNT - 1 : i # Number(m)
    BY <1>9, MapReduceAssumption
  <2> QED BY <2>1, Names
<1>11. stage[n] \in {"closing", "reading"}
  <2>1. stage[n] # "unborn"
    BY <1>8 DEF MainInv, BirthInv
  <2>2. ~ (Number(n) < Fed)
    BY <1>8, Names, MapReduceAssumption DEF Fed
  <2>3. stage[n] \in Waiting
    BY <2>2 DEF MainInv, MapperInv, HasLine
  <2> QED BY <2>1, <2>3 DEF Waiting
<1>12. Holds(n, m)
  BY <1>10, <1>11 DEF MainInv, EndsInv
<1> QED BY <1>1, <1>12, Processes

\* A mapper keeps the write ends that are not its own until it ends.
LEMMA MapperEndsFrame ==
  ASSUME EndsInv, NEW m \in Mapper, UNCHANGED <<parent, curr_pipe>>,
         \A c \in Child : c # m => stage'[c] = stage[c],
         \A q \in Process : q # m => \A c : (Holds(q, c)' <=> Holds(q, c)),
         stage'[m] \in {"closing", "reading", "mapping", "ending"} =>
           /\ stage[m] \in {"closing", "reading", "mapping", "ending"}
           /\ \A n \in Mapper : n # m => (Holds(m, n)' <=> Holds(m, n)),
         stage'[m] \in {"closing", "reading", "mapping"} =>
           /\ stage[m] \in {"closing", "reading", "mapping"}
           /\ \A r \in Reducer : Holds(m, r)' <=> Holds(m, r)
  PROVE  EndsInv'
<1>1. \A c \in Child : Holds(Parent, c)' <=> Holds(Parent, c)
  BY Names, Processes
<1>2. \A r \in Reducer : stage'[r] = stage[r] /\ \A c : (Holds(r, c)' <=> Holds(r, c))
  BY Names, Processes
<1>3. \A n \in Mapper : n # m => stage'[n] = stage[n] /\ \A c : (Holds(n, c)' <=> Holds(n, c))
  BY Processes
<1>4. /\ parent' = "mappers" => \A c \in Child : Holds(Parent, c)'
      /\ parent' = "reducers" => \A r \in Reducer : Number(r) >= curr_pipe' => Holds(Parent, r)'
      /\ parent' \in {"reducers", "open"} => \A n \in Mapper : Holds(Parent, n)'
      /\ parent' \in {"feed", "wait"} =>
           \A n \in Mapper : Number(n) >= curr_pipe' => Holds(Parent, n)'
  BY <1>1, Processes DEF EndsInv
<1>5. \A p, n \in Mapper :
        p # n /\ stage'[p] \in {"closing", "reading", "mapping", "ending"} => Holds(p, n)'
  BY <1>3 DEF EndsInv
<1>6. \A p \in Mapper, r \in Reducer :
        stage'[p] \in {"closing", "reading", "mapping"} => Holds(p, r)'
  BY <1>3 DEF EndsInv
<1>7. \A r, s \in Reducer :
        Number(r) < Number(s) /\ stage'[r] \in {"closing", "counting"} => Holds(r, s)'
  BY <1>2 DEF EndsInv
<1> QED BY <1>4, <1>5, <1>6, <1>7 DEF EndsInv

\* What a mapper that neither reads nor writes leaves alone.
LEMMA MapperMoves ==
  ASSUME CommonInv, MainInv, NEW m \in Mapper, NEW to,
         UNCHANGED <<data, parentVars, input, buffer, char_count, printed>>,
         Goto(m, stage[m], to), stage[m] # "unborn", stage[m] # "exited",
         to \in Waiting \cup {"mapping", "ending", "exited"}, to # "unborn",
         to \in Waiting <=> stage[m] \in Waiting,
         to \in {"ending", "exited"} => buffer[m] = <<>>,
         EndsInv'
  PROVE  MainInv'
<1>1. /\ \A c \in Child : c # m => stage'[c] = stage[c]
      /\ stage'[m] = to /\ m \in Child
      /\ \A r \in Reducer : stage'[r] = stage[r]
      /\ UNCHANGED <<parent, curr_pipe, waits>>
  <2>1. m \in Child /\ DOMAIN stage = Child
    BY Processes DEF CommonInv, TypeOK
  <2> QED BY <2>1, Names, Processes DEF Goto, parentVars
<1>2. stage[m] # "failed"
  BY DEF MainInv, MapperInv, HasLine, Waiting
<1>3. Fed' = Fed
  BY <1>1 DEF Fed
<1>4. \A n \in Mapper : stage'[n] \in Waiting <=> stage[n] \in Waiting
  BY <1>1, Processes
<1>5. WaitInv'
  BY <1>1, <1>2, EndedGrows DEF MainInv, CommonInv, TypeOK
<1>6. BirthInv'
  BY <1>1, BirthFrame DEF MainInv
<1>7. MapperInv'
  BY <1>1, <1>3, <1>4, Processes, MapperFrame DEF MainInv, MapperInv, HasLine
<1>8. ReducerInv'
  <2>1. \A s \in Reducer : stage'[s] \in {"unborn", "closing", "counting", "exited"}
    BY <1>1 DEF MainInv, ReducerInv
  <2> QED BY <1>4, <2>1, ReducerFrame DEF MainInv
<1>9. PrintedInv'
  BY <1>1, PrintedFrame DEF MainInv
<1> QED BY <1>5, <1>6, <1>7, <1>8, <1>9 DEF MainInv

LEMMA MapperClosesMain ==
  ASSUME CommonInv, MainInv, NEW m \in Mapper, MapperCloses(m)
  PROVE  MainInv'
<1> DEFINE E == WriteEnds({m}) \cup ReadEnds({n \in Mapper : Number(n) > Number(m)})
                  \cup ReadEnds(Reducer)
<1>1. /\ stage[m] = "closing" /\ stage'[m] = "reading" /\ closer(m, E) /\ m \in Process
      /\ \A c \in Child : c # m => stage'[c] = stage[c]
      /\ Goto(m, stage[m], "reading")
      /\ UNCHANGED <<data, parentVars, input, buffer, char_count, printed>>
  BY Processes DEF MapperCloses, Goto, CommonInv, TypeOK
<1>2. \A c : c # m => <<c, "write">> \notin E
  BY WriteEnd
<1>3. /\ \A q \in Process : q # m => \A c : (Holds(q, c)' <=> Holds(q, c))
      /\ \A c : c # m => (Holds(m, c)' <=> Holds(m, c))
  <2> HIDE DEF E
  <2> QED BY <1>1, <1>2, Closing DEF CommonInv
<1>4. EndsInv'
  BY <1>1, <1>3, MapperEndsFrame, Names DEF parentVars, MainInv
<1> QED BY <1>1, <1>4, MapperMoves DEF Waiting

LEMMA MapperEndsMain ==
  ASSUME CommonInv, MainInv, NEW m \in Mapper, MapperEnds(m)
  PROVE  MainInv'
<1>1. /\ stage[m] = "mapping" /\ stage'[m] = "ending" /\ closer(m, WriteEnds(Reducer))
      /\ m \in Process
      /\ \A c \in Child : c # m => stage'[c] = stage[c]
      /\ Goto(m, stage[m], "ending")
      /\ UNCHANGED <<data, parentVars, input, buffer, char_count, printed>>
      /\ buffer[m] = <<>>
  BY Processes DEF MapperEnds, Goto, CommonInv, TypeOK
<1>2. \A n \in Mapper : <<n, "write">> \notin WriteEnds(Reducer)
  BY Names, WriteEnd
<1>3. /\ \A q \in Process : q # m => \A c : (Holds(q, c)' <=> Holds(q, c))
      /\ \A n \in Mapper : Holds(m, n)' <=> Holds(m, n)
  BY <1>1, <1>2, Closing DEF CommonInv
<1>4. EndsInv'
  BY <1>1, <1>3, MapperEndsFrame DEF parentVars, MainInv
<1> QED BY <1>1, <1>4, MapperMoves DEF Waiting

LEMMA MapperExitsMain ==
  ASSUME CommonInv, MainInv, NEW m \in Mapper, MapperExits(m)
  PROVE  MainInv'
<1>1. /\ stage[m] = "ending" /\ stage'[m] = "exited" /\ closer(m, ends[m])
      /\ m \in Process
      /\ \A c \in Child : c # m => stage'[c] = stage[c]
      /\ Goto(m, stage[m], "exited")
      /\ UNCHANGED <<data, parentVars, input, buffer, char_count, printed>>
      /\ buffer[m] = <<>>
  BY Processes DEF MapperExits, Goto, CommonInv, TypeOK, MainInv, MapperInv, HasLine
<1>2. \A q \in Process : q # m => \A c : (Holds(q, c)' <=> Holds(q, c))
  BY <1>1, Closing DEF CommonInv
<1>3. EndsInv'
  BY <1>1, <1>2, MapperEndsFrame DEF parentVars, MainInv
<1> QED BY <1>1, <1>3, MapperMoves DEF Waiting

\* The step of one mapper is of no concern to the lines of the others.
LEMMA OtherLines ==
  ASSUME MapperInv, NEW m \in Mapper, UNCHANGED input, Fed' = Fed, HasLine(m)',
         \A n \in Mapper : n # m => /\ stage'[n] = stage[n] /\ data'[n] = data[n]
                                   /\ buffer'[n] = buffer[n]
  PROVE  MapperInv'
<1> SUFFICES ASSUME NEW n \in Mapper, n # m PROVE HasLine(n)'
  BY DEF MapperInv
<1>1. Line(n)' = Line(n)
  BY DEF Line
<1>2. stage'[n] = stage[n] /\ data'[n] = data[n] /\ buffer'[n] = buffer[n]
  OBVIOUS
<1>3. HasLine(n)
  BY DEF MapperInv
<1> QED BY <1>1, <1>2, <1>3, Zenon DEF HasLine

LEMMA MapperReadsMain ==
  ASSUME NoLoneMapper, CommonInv, MainInv, NEW m \in Mapper, MapperReads(m)
  PROVE  MainInv'
<1>1. /\ stage[m] = "reading" /\ stage'[m] = "mapping"
      /\ m \in Child /\ m \in Process /\ m \in Pipe
      /\ \A c \in Child : c # m => stage'[c] = stage[c]
      /\ UNCHANGED <<ends, parent, curr_pipe, waits, input, char_count, printed>>
  BY Processes DEF MapperReads, Goto, CommonInv, TypeOK, parentVars
<1>2. \A r \in Reducer : stage'[r] = stage[r]
  BY <1>1, Names, Processes
<1>3. /\ data[m] # <<>>
      /\ buffer' = [buffer EXCEPT ![m] = Head(data[m])]
      /\ data' = [data EXCEPT ![m] = Tail(@)]
  BY <1>1, NoEarlyEnd DEF MapperReads
<1>4. Number(m) < Fed /\ data[m] = <<Line(m)>> /\ Line(m) \in Seq(Nat)
  <2>1. Number(m) < Fed /\ data[m] = <<Line(m)>>
    BY <1>1, <1>3 DEF MainInv, MapperInv, HasLine, Waiting
  <2> QED BY <2>1, FedLine
<1>5. Head(data[m]) = Line(m) /\ Tail(data[m]) = <<>>
  <2>1. ASSUME NEW line \in Seq(Nat) PROVE Head(<<line>>) = line /\ Tail(<<line>>) = <<>>
    <3>1. <<line>> \in Seq(Seq(Nat)) /\ <<line>> # <<>> /\ Len(<<line>>) = 1
      BY <2>1
    <3>2. Tail(<<line>>) \in Seq(Seq(Nat)) /\ Len(Tail(<<line>>)) = 0
      BY <3>1, HeadTailProperties
    <3> QED BY <3>1, <3>2, EmptySeq
  <2> QED BY <1>4, <2>1
<1>6. buffer'[m] = Line(m) /\ data'[m] = <<>>
  BY <1>1, <1>3, <1>5 DEF CommonInv, TypeOK
<1>7. /\ \A n \in Mapper : n # m => buffer'[n] = buffer[n]
      /\ \A p \in Pipe : p # m => data'[p] = data[p]
  BY <1>3 DEF CommonInv, TypeOK
<1>8. Fed' = Fed
  BY <1>1 DEF Fed
<1>9. WaitInv'
  BY <1>1, EndedGrows DEF MainInv, CommonInv, TypeOK
<1>10. BirthInv'
  BY <1>1, BirthFrame DEF MainInv
<1>11. EndsInv'
  <2>1. \A q \in Process : \A c : (Holds(q, c)' <=> Holds(q, c))
    BY <1>1 DEF Holds
  <2> QED BY <1>1, <2>1, MapperEndsFrame DEF MainInv
<1>12. MapperInv'
  <2>1. Line(m)' = Line(m)
    BY <1>1 DEF Line
  <2>2. Len(Line(m)) \in Nat
    BY <1>4
  <2>3. HasLine(m)'
    BY <1>1, <1>4, <1>6, <1>8, <2>1, <2>2 DEF HasLine, Waiting
  <2> QED BY <1>1, <1>7, <1>8, <2>3, OtherLines, Processes DEF MainInv
<1>13. \A n : Sent(n)' = Sent(n)
  <2>1. Seen(m)' = 0 /\ Seen(m) = 0
    BY <1>1, <1>4, <1>6 DEF Seen, Line, Waiting
  <2>2. \A n \in Mapper : n # m => Seen(n)' = Seen(n)
    BY <1>1, <1>7, Processes DEF Seen, Line
  <2>3. \A n \in Mapper : Seen(n)' = Seen(n)
    BY <2>1, <2>2
  <2> QED BY <1>1, <2>3, SentFrame
<1>14. ReducerInv'
  <2>1. \A r \in Reducer : data'[r] = data[r]
    BY <1>7, Names, Processes
  <2> QED BY <1>1, <1>2, <1>13, <2>1 DEF MainInv, ReducerInv
<1>15. PrintedInv'
  BY <1>1, <1>2, PrintedFrame DEF MainInv
<1> QED BY <1>9, <1>10, <1>11, <1>12, <1>14, <1>15 DEF MainInv

\* Coming past a character n adds its place to Sent(n), and to no other set.
LEMMA OneMoreSent ==
  ASSUME NEW m \in Mapper, NEW n, UNCHANGED input, Seen(m) \in Nat, Seen(m)' = Seen(m) + 1,
         \A p \in Mapper : p # m => Seen(p)' = Seen(p)
  PROVE  /\ Line(m)[Seen(m) + 1] # n => Sent(n)' = Sent(n)
         /\ Line(m)[Seen(m) + 1] = n =>
              /\ Sent(n)' = Sent(n) \cup {<<Number(m) + 1, Seen(m) + 1>>}
              /\ <<Number(m) + 1, Seen(m) + 1>> \notin Sent(n)
<1> DEFINE new == <<Number(m) + 1, Seen(m) + 1>>
           Place == (1 .. MAPPER_COUNT) \X Nat
<1>1. \A p \in Mapper : Line(p)' = Line(p)
  BY DEF Line
<1>2. new \in Place /\ new[1] = Number(m) + 1 /\ new[2] = Seen(m) + 1 /\ Number(m) \in Nat
  BY Names, MapReduceAssumption
<1>3. \A x \in Place : /\ x[1] \in Int /\ x[2] \in Nat
                      /\ Reader(x) \in Mapper /\ Number(Reader(x)) = x[1] - 1
  BY Names, MapReduceAssumption DEF Reader
<1>4. \A x \in Place : x = new <=> x[1] = Number(m) + 1 /\ x[2] = Seen(m) + 1
  OBVIOUS
<1>5. \A x \in Place : Reader(x) = m <=> x[1] = Number(m) + 1
  BY <1>2, <1>3, Names
<1>6. ASSUME NEW x \in Place
      PROVE  x \in Sent(n)' <=> x \in Sent(n) \/ (Line(m)[Seen(m) + 1] = n /\ x = new)
  <2>1. /\ x \in Sent(n) <=> x[2] \in 1 .. Seen(Reader(x)) /\ Line(Reader(x))[x[2]] = n
        /\ x \in Sent(n)' <=> x[2] \in 1 .. Seen(Reader(x))' /\ Line(Reader(x))[x[2]] = n
    BY <1>1, <1>3 DEF Sent
  <2>2. CASE Reader(x) = m
    <3>1. x[2] \in 1 .. Seen(m)' <=> x[2] \in 1 .. Seen(m) \/ x[2] = Seen(m) + 1
      BY <1>3
    <3>2. x = new <=> x[2] = Seen(m) + 1
      BY <1>4, <1>5, <2>2
    <3>3. x \in Sent(n)' <=> x[2] \in 1 .. Seen(m)' /\ Line(m)[x[2]] = n
      <4>1. PICK p \in Mapper : p = Reader(x)
        BY <1>3
      <4>2. p = m
        BY <2>2, <4>1
      <4>3. Seen(p)' = Seen(m)'
        BY <4>2
      <4>4. Reader(x)' = Reader(x)
        BY DEF Reader
      <4> QED BY <1>1, <2>2, <4>4 DEF Sent
    <3> QED BY <2>1, <2>2, <3>1, <3>2, <3>3
  <2>3. CASE Reader(x) # m
    BY <1>2, <1>3, <1>5, <2>1, <2>3
  <2> QED BY <2>2, <2>3
<1>7. \A x : x \in Sent(n) \/ x \in Sent(n)' => x \in Place
  BY DEF Sent
<1>8. new \notin Sent(n)
  BY <1>2, <1>5 DEF Sent
<1> QED BY <1>2, <1>6, <1>7, <1>8

\* What one call of write does: the next character of the line is e, which goes
\* to the reducer of that number, if there is one.
LEMMA WriteOne ==
  ASSUME CommonInv, MainInv, NEW m \in Mapper, MapperWrites(m)
  PROVE  \E e \in Nat :
           /\ Seen(m) \in Nat /\ Seen(m)' = Seen(m) + 1 /\ Line(m)[Seen(m) + 1] = e
           /\ HasLine(m)'
           /\ \A s \in Reducer :
                data'[s] = IF Number(s) = e THEN Append(data[s], e) ELSE data[s]
           /\ \A n \in Mapper : data'[n] = data[n]
<1>1. /\ stage[m] = "mapping" /\ buffer[m] # <<>> /\ buffer' = [buffer EXCEPT ![m] = Tail(@)]
      /\ m \in Pipe
      /\ UNCHANGED <<parent, curr_pipe, input, stage>>
  BY Processes DEF MapperWrites, parentVars
<1>2. PICK e : e = Head(buffer[m])
  OBVIOUS
<1>3. buffer[m] \in Seq(Nat) /\ m \in DOMAIN buffer /\ DOMAIN data = Pipe
  BY DEF CommonInv, TypeOK
<1>4. PICK b \in Nat : b = Len(buffer[m]) /\ b > 0
  BY <1>1, <1>3, EmptySeq
<1>5. e \in Nat /\ e = buffer[m][1]
  BY <1>1, <1>2, <1>3, HeadTailProperties
<1>6. /\ buffer'[m] = Tail(buffer[m]) /\ Tail(buffer[m]) \in Seq(Nat)
      /\ Len(buffer'[m]) = b - 1
      /\ \A j \in 1 .. b - 1 : buffer'[m][j] = buffer[m][j + 1]
  <2>1. buffer'[m] = Tail(buffer[m])
    BY <1>1, <1>3
  <2> QED BY <1>1, <1>3, <1>4, <2>1, HeadTailProperties
<1>7. /\ Number(m) < Fed /\ data[m] = <<>> /\ b <= Len(Line(m))
      /\ \A j \in 1 .. b : buffer[m][j] = Line(m)[Len(Line(m)) - b + j]
  BY <1>1, <1>4 DEF MainInv, MapperInv, HasLine, Waiting
<1>8. PICK l \in Nat : l = Len(Line(m))
  BY <1>7, FedLine
<1>9. Seen(m) = l - b /\ Seen(m)' = l - (b - 1)
  BY <1>1, <1>4, <1>6, <1>8 DEF Seen, Line, Waiting
<1>10. Seen(m) \in Nat /\ Seen(m)' = Seen(m) + 1
  BY <1>4, <1>7, <1>8, <1>9
<1>11. Line(m)[Seen(m) + 1] = e
  <2>1. 1 \in 1 .. b
    BY <1>4
  <2>2. buffer[m][1] = Line(m)[l - b + 1]
    BY <1>7, <1>8, <2>1
  <2> QED BY <1>5, <1>9, <2>2
<1>12. \A s \in Reducer : Number(s) = e <=> s = <<"reducer", e>>
  BY Names
<1>13. /\ \A s \in Reducer :
             data'[s] = IF Number(s) = e THEN Append(data[s], e) ELSE data[s]
       /\ \A n \in Mapper : data'[n] = data[n]
  <2>1. CASE <<"reducer", e>> \in Reducer
    <3>1. PICK r \in Reducer : r = <<"reducer", e>>
      BY <2>1
    <3>2. data' = [data EXCEPT ![r] = Append(@, e)]
      BY <1>2, <3>1 DEF MapperWrites
    <3>3. r \in DOMAIN data
      BY <1>3, Processes
    <3>4. /\ data'[r] = Append(data[r], e)
          /\ \A p \in Pipe : p # r => data'[p] = data[p]
      BY <1>3, <3>2, <3>3
    <3> QED BY <1>12, <3>1, <3>4, Names, Processes
  <2>2. CASE <<"reducer", e>> \notin Reducer
    <3>1. data' = data
      BY <1>2, <2>2 DEF MapperWrites
    <3> QED BY <1>12, <2>2, <3>1
  <2> QED BY <2>1, <2>2
<1>14. HasLine(m)'
  <2>1. Line(m)' = Line(m) /\ Fed' = Fed /\ data'[m] = <<>> /\ stage'[m] = "mapping"
    BY <1>1, <1>7, <1>13 DEF Line, Fed
  <2>2. b - 1 <= l
    BY <1>4, <1>7, <1>8
  <2>3. ASSUME NEW j \in 1 .. b - 1 PROVE buffer'[m][j] = Line(m)[l - (b - 1) + j]
    <3>1. j + 1 \in 1 .. b /\ l - b + (j + 1) = l - (b - 1) + j
      BY <1>4, <1>8, <2>3
    <3> QED BY <1>6, <1>7, <1>8, <3>1
  <2> QED BY <1>6, <1>7, <1>8, <2>1, <2>2, <2>3 DEF HasLine, Waiting
<1> QED BY <1>5, <1>10, <1>11, <1>13, <1>14

LEMMA MapperWritesMain ==
  ASSUME CommonInv, MainInv, NEW m \in Mapper, MapperWrites(m)
  PROVE  MainInv'
<1>1. /\ stage[m] = "mapping" /\ buffer' = [buffer EXCEPT ![m] = Tail(@)]
      /\ UNCHANGED <<ends, parent, curr_pipe, waits, input, stage, char_count, printed>>
  BY DEF MapperWrites, parentVars
<1>2. PICK e \in Nat :
        /\ Seen(m) \in Nat /\ Seen(m)' = Seen(m) + 1 /\ Line(m)[Seen(m) + 1] = e
        /\ HasLine(m)'
        /\ \A s \in Reducer :
             data'[s] = IF Number(s) = e THEN Append(data[s], e) ELSE data[s]
        /\ \A n \in Mapper : data'[n] = data[n]
  BY WriteOne
<1>3. \A n \in Mapper : n # m => buffer'[n] = buffer[n]
  BY <1>1 DEF CommonInv, TypeOK
<1>4. WaitInv'
  BY <1>1 DEF MainInv, WaitInv, Ended
<1>5. BirthInv'
  BY <1>1 DEF MainInv, BirthInv
<1>6. EndsInv'
  BY <1>1 DEF MainInv, EndsInv, Holds
<1>7. MapperInv'
  <2>1. Fed' = Fed
    BY <1>1 DEF Fed
  <2> QED BY <1>1, <1>2, <1>3, <2>1, OtherLines DEF MainInv
<1>8. ReducerInv'
  <2>1. \A n \in Mapper : n # m => Seen(n)' = Seen(n)
    BY <1>1, <1>3 DEF Seen, Line
  <2> SUFFICES ASSUME NEW r \in Reducer
               PROVE  /\ stage'[r] \in {"unborn", "closing", "counting", "exited"}
                      /\ \A j \in 1 .. Len(data'[r]) : data'[r][j] = Number(r)
                      /\ IsFiniteSet(Sent(Number(r))')
                      /\ Cardinality(Sent(Number(r))') = char_count'[r] + Len(data'[r])
    BY DEF ReducerInv
  <2>2. /\ stage[r] \in {"unborn", "closing", "counting", "exited"}
        /\ \A j \in 1 .. Len(data[r]) : data[r][j] = Number(r)
        /\ IsFiniteSet(Sent(Number(r)))
        /\ Cardinality(Sent(Number(r))) = char_count[r] + Len(data[r])
    BY DEF MainInv, ReducerInv
  <2>3. CASE Number(r) # e
    <3>1. Sent(Number(r))' = Sent(Number(r))
      BY <1>1, <1>2, <2>1, <2>3, OneMoreSent
    <3> QED BY <1>1, <1>2, <2>2, <2>3, <3>1
  <2>4. CASE Number(r) = e
    <3> DEFINE new == <<Number(m) + 1, Seen(m) + 1>>
    <3>1. Sent(Number(r))' = Sent(Number(r)) \cup {new} /\ new \notin Sent(Number(r))
      BY <1>1, <1>2, <2>1, <2>4, OneMoreSent
    <3>2. /\ IsFiniteSet(Sent(Number(r))')
          /\ Cardinality(Sent(Number(r))') = Cardinality(Sent(Number(r))) + 1
      BY <2>2, <3>1, FS_AddElement
    <3>3. data[r] \in Seq(Nat) /\ char_count[r] \in Nat
      BY DEF CommonInv, TypeOK
    <3>4. data'[r] = Append(data[r], e)
      BY <1>2, <2>4
    <3>5. /\ Len(data'[r]) = Len(data[r]) + 1
          /\ \A j \in 1 .. Len(data[r]) : data'[r][j] = data[r][j]
          /\ data'[r][Len(data[r]) + 1] = e
      BY <3>3, <3>4, AppendProperties
    <3>6. PICK l \in Nat : l = Len(data[r])
      BY <3>3
    <3>7. \A j \in 1 .. Len(data'[r]) : data'[r][j] = Number(r)
      BY <2>2, <2>4, <3>5, <3>6
    <3>8. Cardinality(Sent(Number(r))') = char_count'[r] + Len(data'[r])
      BY <1>1, <2>2, <3>2, <3>3, <3>5, <3>6
    <3> QED BY <1>1, <2>2, <3>2, <3>7, <3>8
  <2> QED BY <2>3, <2>4
<1>9. PrintedInv'
  BY <1>1, PrintedFrame DEF MainInv
<1> QED BY <1>4, <1>5, <1>6, <1>7, <1>8, <1>9 DEF MainInv

-----------------------------------------------------------------------------
(* The reducers' steps *)

\* A reducer keeps the write ends of the later ones until it ends.
LEMMA ReducerEndsFrame ==
  ASSUME EndsInv, NEW r \in Reducer, UNCHANGED <<parent, curr_pipe>>,
         \A c \in Child : c # r => stage'[c] = stage[c],
         \A q \in Process : q # r => \A c : (Holds(q, c)' <=> Holds(q, c)),
         stage'[r] \in {"closing", "counting"} =>
           /\ stage[r] \in {"closing", "counting"}
           /\ \A s \in Reducer : Number(r) < Number(s) => (Holds(r, s)' <=> Holds(r, s))
  PROVE  EndsInv'
<1>1. \A c \in Child : Holds(Parent, c)' <=> Holds(Parent, c)
  BY Names, Processes
<1>2. \A m \in Mapper : stage'[m] = stage[m] /\ \A c : (Holds(m, c)' <=> Holds(m, c))
  BY Names, Processes
<1>3. \A s \in Reducer : s # r => stage'[s] = stage[s] /\ \A c : (Holds(s, c)' <=> Holds(s, c))
  BY Processes
<1>4. /\ parent' = "mappers" => \A c \in Child : Holds(Parent, c)'
      /\ parent' = "reducers" => \A s \in Reducer : Number(s) >= curr_pipe' => Holds(Parent, s)'
      /\ parent' \in {"reducers", "open"} => \A n \in Mapper : Holds(Parent, n)'
      /\ parent' \in {"feed", "wait"} =>
           \A n \in Mapper : Number(n) >= curr_pipe' => Holds(Parent, n)'
  BY <1>1, Processes DEF EndsInv
<1>5. \A s, q \in Reducer :
        Number(s) < Number(q) /\ stage'[s] \in {"closing", "counting"} => Holds(s, q)'
  BY <1>3 DEF EndsInv
<1>6. /\ \A p, n \in Mapper :
            p # n /\ stage'[p] \in {"closing", "reading", "mapping", "ending"} => Holds(p, n)'
      /\ \A p \in Mapper, s \in Reducer :
            stage'[p] \in {"closing", "reading", "mapping"} => Holds(p, s)'
  BY <1>2 DEF EndsInv
<1> QED BY <1>4, <1>5, <1>6 DEF EndsInv

LEMMA ReducerClosesMain ==
  ASSUME CommonInv, MainInv, NEW r \in Reducer, ReducerCloses(r)
  PROVE  MainInv'
<1> DEFINE E == WriteEnds({r}) \cup WriteEnds(Mapper) \cup ReadEnds(Reducer \ {r})
<1>1. /\ stage[r] = "closing" /\ stage'[r] = "counting" /\ closer(r, E)
      /\ r \in Child /\ r \in Process
      /\ \A c \in Child : c # r => stage'[c] = stage[c]
      /\ UNCHANGED <<data, parent, curr_pipe, waits, input, buffer, char_count, printed>>
  BY Processes DEF ReducerCloses, Goto, CommonInv, TypeOK, parentVars
<1>2. \A m \in Mapper : stage'[m] = stage[m]
  BY <1>1, Names, Processes
<1>3. \A s \in Reducer : s # r => <<s, "write">> \notin E
  BY Names, WriteEnd
<1>4. \A s \in Reducer : Number(r) < Number(s) => s # r
  BY Names
<1>5. /\ \A q \in Process : q # r => \A c : (Holds(q, c)' <=> Holds(q, c))
      /\ \A s \in Reducer : s # r => (Holds(r, s)' <=> Holds(r, s))
  <2> HIDE DEF E
  <2> QED BY <1>1, <1>3, Closing DEF CommonInv
<1>6. Fed' = Fed
  BY <1>1 DEF Fed
<1>7. WaitInv'
  BY <1>1, EndedGrows DEF MainInv, CommonInv, TypeOK
<1>8. BirthInv'
  BY <1>1, BirthFrame DEF MainInv
<1>9. EndsInv'
  BY <1>1, <1>4, <1>5, ReducerEndsFrame DEF MainInv
<1>10. MapperInv'
  BY <1>1, <1>2, <1>6, MapperFrame DEF MainInv, MapperInv, HasLine
<1>11. ReducerInv'
  <2>1. \A s \in Reducer : stage'[s] \in {"unborn", "closing", "counting", "exited"}
    BY <1>1, Processes DEF MainInv, ReducerInv
  <2> QED BY <1>1, <1>2, <2>1, ReducerFrame DEF MainInv
<1>12. PrintedInv'
  BY <1>1, Processes, PrintedFrame DEF MainInv
<1> QED BY <1>7, <1>8, <1>9, <1>10, <1>11, <1>12 DEF MainInv

\* A reducer finds nothing but its own letter in its pipe.
LEMMA ReducerReadsMain ==
  ASSUME CommonInv, MainInv, NEW r \in Reducer, ReducerReads(r)
  PROVE  MainInv'
<1>1. /\ data[r] \in Seq(Nat) /\ data[r] # <<>> /\ r \in Pipe /\ DOMAIN data = Pipe
      /\ char_count \in [Reducer -> Nat]
      /\ data' = [data EXCEPT ![r] = Tail(@)]
      /\ UNCHANGED <<parent, curr_pipe, waits, input, buffer, printed>>
  BY Processes DEF ReducerReads, CommonInv, TypeOK, parentVars
<1>2. PICK l \in Nat : l = Len(data[r]) /\ l > 0
  BY <1>1, EmptySeq
<1>3. Head(data[r]) = Number(r)
  <2>1. Head(data[r]) = data[r][1] /\ 1 \in 1 .. Len(data[r])
    BY <1>1, <1>2
  <2> QED BY <2>1 DEF MainInv, ReducerInv
<1>4. char_count' = [char_count EXCEPT ![r] = @ + 1] /\ UNCHANGED <<ends, stage>>
  BY <1>3 DEF ReducerReads
<1>5. /\ data'[r] = Tail(data[r])
      /\ \A p \in Pipe : p # r => data'[p] = data[p]
  BY <1>1
<1>6. \A m \in Mapper : data'[m] = data[m]
  BY <1>5, Names, Processes
<1>7. WaitInv'
  BY <1>1, <1>4 DEF MainInv, WaitInv, Ended
<1>8. BirthInv'
  BY <1>1, <1>4 DEF MainInv, BirthInv
<1>9. EndsInv'
  BY <1>1, <1>4 DEF MainInv, EndsInv, Holds
<1>10. MapperInv'
  <2> SUFFICES ASSUME NEW m \in Mapper PROVE HasLine(m)'
    BY DEF MapperInv
  <2>1. Line(m)' = Line(m) /\ Fed' = Fed
    BY <1>1 DEF Line, Fed
  <2>2. stage' = stage /\ data'[m] = data[m] /\ buffer' = buffer
    BY <1>1, <1>4, <1>6
  <2>3. HasLine(m)
    BY DEF MainInv, MapperInv
  <2> QED BY <2>1, <2>2, <2>3, Zenon DEF HasLine
<1>11. ReducerInv'
  <2>1. \A n : Sent(n)' = Sent(n)
    BY <1>1, <1>4, SeenFrame, SentFrame
  <2>2. ASSUME NEW s \in Reducer
        PROVE  /\ \A j \in 1 .. Len(data'[s]) : data'[s][j] = Number(s)
               /\ Cardinality(Sent(Number(s))) = char_count'[s] + Len(data'[s])
    <3>1. CASE s # r
      <4>1. data'[s] = data[s] /\ char_count'[s] = char_count[s]
        BY <1>1, <1>4, <1>5, <3>1, Processes
      <4> QED BY <4>1 DEF MainInv, ReducerInv
    <3>2. CASE s = r
      <4>1. /\ Len(data'[r]) = l - 1
            /\ \A j \in 1 .. l - 1 : data'[r][j] = data[r][j + 1]
        BY <1>1, <1>2, <1>5, HeadTailProperties
      <4>2. \A j \in 1 .. l : data[r][j] = Number(r)
        BY <1>2 DEF MainInv, ReducerInv
      <4>3. \A j \in 1 .. l - 1 : j + 1 \in 1 .. l
        BY <1>2
      <4>4. char_count'[r] = char_count[r] + 1 /\ char_count[r] \in Nat
        BY <1>1, <1>4
      <4>5. Cardinality(Sent(Number(r))) = char_count[r] + l
        BY <1>2 DEF MainInv, ReducerInv
      <4>6. Cardinality(Sent(Number(r))) = char_count'[r] + Len(data'[r])
        <5>1. PICK count \in Nat : count = char_count[r]
          BY <4>4
        <5>2. char_count'[r] + Len(data'[r]) = (count + 1) + (l - 1)
          BY <4>1, <4>4, <5>1
        <5> QED BY <1>2, <4>5, <5>1, <5>2
      <4>7. ASSUME NEW j \in 1 .. Len(data'[r]) PROVE data'[r][j] = Number(r)
        <5>1. j \in 1 .. l - 1
          BY <4>1, <4>7
        <5>2. data'[r][j] = data[r][j + 1]
          BY <4>1, <5>1
        <5> QED BY <4>2, <4>3, <5>1, <5>2
      <4> QED BY <3>2, <4>6, <4>7
    <3> QED BY <3>1, <3>2
  <2> QED BY <1>4, <2>1, <2>2 DEF MainInv, ReducerInv
<1>12. PrintedInv'
  BY <1>1, <1>4, PrintedFrame DEF MainInv
<1> QED BY <1>7, <1>8, <1>9, <1>10, <1>11, <1>12 DEF MainInv

\* The pipe of a reducer ends when the mappers have written all they had and the
\* reducers before it have ended: theirs are the last write ends.
LEMMA ReducersEnd ==
  ASSUME CommonInv, MainInv, NEW r \in Reducer, stage[r] = "counting", EndOfPipe(r)
  PROVE  /\ \A m \in Mapper : stage[m] \in {"ending", "exited"}
         /\ Number(r) = Len(printed)
<1>1. \A q \in Process : ~ Holds(q, r)
  BY DEF EndOfPipe, Holds
<1>2. parent # "mappers"
  BY DEF MainInv, BirthInv
<1>3. ASSUME NEW m \in Mapper PROVE stage[m] \in {"ending", "exited"}
  <2>1. stage[m] \notin {"closing", "reading", "mapping"}
    BY <1>1, Processes DEF MainInv, EndsInv
  <2>2. stage[m] # "unborn"
    BY <1>2 DEF MainInv, BirthInv
  <2> QED BY <2>1, <2>2 DEF MainInv, MapperInv, HasLine, Waiting
<1>4. ASSUME NEW s \in Reducer, Number(s) < Number(r) PROVE stage[s] = "exited"
  <2>1. stage[s] \notin {"closing", "counting"}
    BY <1>1, <1>4, Processes DEF MainInv, EndsInv
  <2>2. stage[s] # "unborn"
    BY <1>4 DEF MainInv, BirthInv
  <2> QED BY <2>1, <2>2 DEF MainInv, ReducerInv
<1>5. PICK l \in Nat : l = Len(printed)
  BY DEF CommonInv, TypeOK
<1>6. \A s \in Reducer : stage[s] = "exited" <=> Number(s) < l
  BY <1>5 DEF MainInv, PrintedInv
<1>7. Number(r) \in 0 .. REDUCER_COUNT - 1
  BY Names
<1>8. ~ (Number(r) < l)
  BY <1>6
<1>9. ~ (l < Number(r))
  <2> SUFFICES ASSUME l < Number(r) PROVE FALSE
    OBVIOUS
  <2>1. l \in 0 .. REDUCER_COUNT - 1
    BY <1>7, MapReduceAssumption
  <2>2. PICK s \in Reducer : Number(s) = l
    BY <2>1, Names
  <2> QED BY <1>4, <1>5, <1>6, <2>2
<1> QED BY <1>3, <1>5, <1>7, <1>8, <1>9

\* Then its count is that of the letter in the lines the mappers were given.
LEMMA CountIsFinal ==
  ASSUME CommonInv, MainInv, NEW r \in Reducer, stage[r] = "counting", EndOfPipe(r)
  PROVE  char_count[r] = Report!Occurrences(Number(r))
<1> DEFINE n == Number(r)
           t == FirstLines(input)
           Column(k) == {j \in DOMAIN t[k] : t[k][j] = n}
           Columns == {{k} \X Column(k) : k \in DOMAIN t}
<1>1. \A m \in Mapper : stage[m] \notin Waiting /\ buffer[m] = <<>> /\ Number(m) < Fed
  BY ReducersEnd DEF MainInv, MapperInv, HasLine, Waiting
<1>2. \A m \in Mapper : Seen(m) = Len(Line(m)) /\ Line(m) \in Seq(Nat)
  <2> SUFFICES ASSUME NEW m \in Mapper
               PROVE  Seen(m) = Len(Line(m)) /\ Line(m) \in Seq(Nat)
    OBVIOUS
  <2>1. Line(m) \in Seq(Nat)
    BY <1>1, FedLine
  <2>2. Seen(m) = Len(Line(m)) - 0
    BY <1>1, EmptySeq DEF Seen
  <2> QED BY <2>1, <2>2
<1>3. input \in Seq(Seq(Nat)) /\ Len(input) >= MAPPER_COUNT
  <2>1. input \in Seq(Seq(Nat))
    BY MapReduceAssumption DEF CommonInv, TypeOK
  <2>2. MAPPER_COUNT - 1 \in 0 .. MAPPER_COUNT - 1
    BY MapReduceAssumption
  <2>3. PICK m \in Mapper : Number(m) = MAPPER_COUNT - 1
    BY <2>2, Names
  <2>4. MAPPER_COUNT - 1 < Fed
    BY <1>1, <2>3
  <2>5. Fed = curr_pipe /\ curr_pipe <= Len(input) /\ curr_pipe \in Int
    BY <2>4, MapReduceAssumption DEF Fed, CommonInv, PhaseInv, TypeOK
  <2> QED BY <2>1, <2>4, <2>5, MapReduceAssumption
<1>4. /\ DOMAIN t = 1 .. MAPPER_COUNT
      /\ \A k \in 1 .. MAPPER_COUNT : t[k] = input[k]
  <2>1. t = SubSeq(input, 1, MAPPER_COUNT)
    BY <1>3, MapReduceAssumption DEF FirstLines
  <2>2. MAPPER_COUNT \in Nat \ {0} /\ Len(input) \in Nat
    BY <1>3, MapReduceAssumption
  <2>3. \A i \in 1 .. MAPPER_COUNT : i \in 1 .. Len(input) /\ 1 + i - 1 = i
    BY <1>3, <2>2
  <2>4. \A i \in 1 .. MAPPER_COUNT : input[i] \in Seq(Nat)
    BY <1>3, <2>3, ElementOfSeq
  <2>5. /\ SubSeq(input, 1, MAPPER_COUNT) \in Seq(Seq(Nat))
        /\ Len(SubSeq(input, 1, MAPPER_COUNT)) = MAPPER_COUNT
        /\ \A i \in 1 .. MAPPER_COUNT : SubSeq(input, 1, MAPPER_COUNT)[i] = input[i]
    <3>1. 1 \in Int /\ MAPPER_COUNT \in Int /\ 1 <= MAPPER_COUNT
          /\ MAPPER_COUNT - 1 + 1 = MAPPER_COUNT
      BY <2>2
    <3> QED BY <2>3, <2>4, <3>1, SubSeqProperties
  <2> QED BY <2>1, <2>5, LenProperties
<1>5. \A k \in 1 .. MAPPER_COUNT :
        \E m \in Mapper : m = <<"mapper", k - 1>> /\ Line(m) = input[k]
  <2> SUFFICES ASSUME NEW k \in 1 .. MAPPER_COUNT
               PROVE  \E m \in Mapper : m = <<"mapper", k - 1>> /\ Line(m) = input[k]
    OBVIOUS
  <2>1. k - 1 \in 0 .. MAPPER_COUNT - 1 /\ (k - 1) + 1 = k
    BY MapReduceAssumption
  <2>2. PICK m \in Mapper : m = <<"mapper", k - 1>> /\ Number(m) = k - 1
    BY <2>1, Names
  <2> QED BY <2>1, <2>2 DEF Line
<1>6. ASSUME NEW k \in 1 .. MAPPER_COUNT, NEW x \in {k} \X Nat
      PROVE  x \in Sent(n) <=> x \in {k} \X Column(k)
  <2>1. PICK m \in Mapper : m = <<"mapper", k - 1>> /\ Line(m) = input[k]
    BY <1>5
  <2>2. Reader(x) = m /\ x \in (1 .. MAPPER_COUNT) \X Nat
    BY <2>1 DEF Reader
  <2>3. x \in Sent(n) <=> x[2] \in 1 .. Seen(m) /\ Line(m)[x[2]] = n
    BY <2>2 DEF Sent
  <2>4. Seen(m) = Len(Line(m)) /\ DOMAIN Line(m) = 1 .. Len(Line(m))
    BY <1>2, LenProperties
  <2>5. t[k] = Line(m)
    BY <1>4, <2>1
  <2>6. x \in {k} \X Column(k) <=> x[2] \in DOMAIN t[k] /\ t[k][x[2]] = n
    OBVIOUS
  <2> QED BY <2>3, <2>4, <2>5, <2>6
<1>7. \A k \in 1 .. MAPPER_COUNT : {k} \X Column(k) \subseteq {k} \X Nat
  <2> SUFFICES ASSUME NEW k \in 1 .. MAPPER_COUNT PROVE DOMAIN t[k] \subseteq Nat
    OBVIOUS
  <2>1. PICK m \in Mapper : Line(m) = input[k]
    BY <1>5
  <2>2. t[k] = Line(m) /\ Line(m) \in Seq(Nat)
    BY <1>2, <1>4, <2>1
  <2> QED BY <2>2, LenProperties
<1>8. Sent(n) = UNION Columns
  <2>1. ASSUME NEW x \in Sent(n) PROVE x \in UNION Columns
    <3>1. x \in (1 .. MAPPER_COUNT) \X Nat
      BY DEF Sent
    <3>2. PICK k \in 1 .. MAPPER_COUNT : x \in {k} \X Nat
      BY <3>1
    <3>3. x \in {k} \X Column(k)
      BY <1>6, <3>2
    <3>4. {k} \X Column(k) \in Columns
      BY <1>4
    <3> QED BY <3>3, <3>4
  <2>2. ASSUME NEW x \in UNION Columns PROVE x \in Sent(n)
    <3>1. PICK k \in 1 .. MAPPER_COUNT : x \in {k} \X Column(k)
      BY <1>4
    <3>2. x \in {k} \X Nat
      BY <1>7, <3>1
    <3> QED BY <1>6, <3>1, <3>2
  <2> QED BY <2>1, <2>2
<1>9. Report!Occurrences(n) = Cardinality(UNION Columns)
  <2>1. \A S : Report!Cardinality(S) = Cardinality(S)
    BY DEF Report!Cardinality, Cardinality
  <2> QED BY <2>1 DEF Report!Occurrences
<1>10. Cardinality(Sent(n)) = char_count[r] + Len(data[r]) /\ data[r] = <<>>
  BY DEF MainInv, ReducerInv, EndOfPipe
<1>11. char_count[r] \in Nat
  BY DEF CommonInv, TypeOK
<1>12. char_count[r] + Len(data[r]) = char_count[r]
  BY <1>10, <1>11
<1> QED BY <1>8, <1>9, <1>10, <1>12

LEMMA ReducerPrintsMain ==
  ASSUME CommonInv, MainInv, NEW r \in Reducer, ReducerPrints(r)
  PROVE  MainInv'
<1>1. /\ stage[r] = "counting" /\ stage'[r] = "exited" /\ closer(r, ends[r])
      /\ r \in Child /\ r \in Process
      /\ \A c \in Child : c # r => stage'[c] = stage[c]
      /\ printed' = Append(printed, char_count[r])
      /\ UNCHANGED <<data, parent, curr_pipe, waits, input, buffer, char_count>>
  BY Processes DEF ReducerPrints, Goto, CommonInv, TypeOK, parentVars
<1>2. \A m \in Mapper : stage'[m] = stage[m]
  BY <1>1, Names, Processes
<1>3. \A q \in Process : q # r => \A c : (Holds(q, c)' <=> Holds(q, c))
  BY <1>1, Closing DEF CommonInv
<1>4. Number(r) = Len(printed)
  BY ReducersEnd DEF ReducerPrints, Goto
<1>5. Fed' = Fed
  BY <1>1 DEF Fed
<1>6. WaitInv'
  BY <1>1, EndedGrows DEF MainInv, CommonInv, TypeOK
<1>7. BirthInv'
  BY <1>1, BirthFrame DEF MainInv
<1>8. EndsInv'
  BY <1>1, <1>3, ReducerEndsFrame DEF MainInv
<1>9. MapperInv'
  BY <1>1, <1>2, <1>5, MapperFrame DEF MainInv, MapperInv, HasLine
<1>10. ReducerInv'
  <2>1. \A s \in Reducer : stage'[s] \in {"unborn", "closing", "counting", "exited"}
    BY <1>1, Processes DEF MainInv, ReducerInv
  <2> QED BY <1>1, <1>2, <2>1, ReducerFrame DEF MainInv
<1>11. PrintedInv'
  <2>1. printed \in Seq(Nat) /\ char_count[r] \in Nat
    BY DEF CommonInv, TypeOK
  <2>2. PICK l \in Nat : l = Len(printed)
    BY <2>1
  <2>3. Len(printed') = l + 1
    BY <1>1, <2>1, <2>2, AppendProperties
  <2>4. Number(r) \in 0 .. REDUCER_COUNT - 1
    BY Names
  <2>5. l + 1 <= REDUCER_COUNT
    BY <1>4, <2>2, <2>4, MapReduceAssumption
  <2>6. ASSUME NEW s \in Reducer PROVE stage'[s] = "exited" <=> Number(s) < l + 1
    <3>1. CASE s = r
      BY <1>1, <1>4, <2>2, <3>1
    <3>2. CASE s # r
      <4>1. Number(s) \in Nat /\ Number(s) # l
        BY <1>4, <2>2, <3>2, Names, MapReduceAssumption
      <4>2. stage'[s] = "exited" <=> Number(s) < l
        BY <1>1, <2>2, <3>2, Processes DEF MainInv, PrintedInv
      <4> QED BY <4>1, <4>2
    <3> QED BY <3>1, <3>2
  <2> QED BY <2>3, <2>5, <2>6 DEF PrintedInv
<1> QED BY <1>6, <1>7, <1>8, <1>9, <1>10, <1>11 DEF MainInv

-----------------------------------------------------------------------------
(* The theorems *)

LEMMA InitMain ==
  ASSUME Init
  PROVE  ReportInv
<1>1. CommonInv
  BY InitCommon
<1>2. ~ Cut
  BY DEF Init, Cut
<1>3. WaitInv
  <2>1. Ended = {}
    BY DEF Init, Ended
  <2> QED BY <2>1, FS_EmptySet DEF Init, WaitInv
<1>4. BirthInv
  BY Names, MapReduceAssumption, Processes DEF Init, BirthInv
<1>5. EndsInv
  <2>1. \A c \in Child : Holds(Parent, c)
    <3>1. \A c \in Child : <<c, "write">> \in WriteEnds(Pipe)
      BY Processes, WriteEnd
    <3> QED BY <3>1, Processes DEF Init, Holds
  <2>2. \A c \in Child : stage[c] = "unborn"
    BY DEF Init
  <2> QED BY <2>1, <2>2, Processes DEF Init, EndsInv
<1>6. MapperInv
  <2>1. \A m \in Mapper : ~ (Number(m) < Fed)
    BY Names, MapReduceAssumption DEF Init, Fed
  <2>2. \A m \in Mapper : stage[m] = "unborn" /\ data[m] = <<>> /\ buffer[m] = <<>>
    BY Processes DEF Init
  <2> QED BY <2>1, <2>2 DEF MapperInv, HasLine, Waiting
<1>7. ReducerInv
  <2>1. ASSUME NEW n PROVE Sent(n) = {}
    <3>1. \A m \in Mapper : Seen(m) = 0
      BY Processes DEF Init, Seen, Waiting
    <3>2. \A x \in (1 .. MAPPER_COUNT) \X Nat : Reader(x) \in Mapper
      BY Names, MapReduceAssumption DEF Reader
    <3> QED BY <3>1, <3>2 DEF Sent
  <2>2. IsFiniteSet({}) /\ Cardinality({}) = 0
    BY FS_EmptySet
  <2>3. \A r \in Reducer :
          stage[r] = "unborn" /\ char_count[r] = 0 /\ data[r] = <<>> /\ Len(data[r]) = 0
    BY Processes DEF Init
  <2> SUFFICES ASSUME NEW r \in Reducer
               PROVE  /\ stage[r] = "unborn"
                      /\ \A j \in 1 .. Len(data[r]) : data[r][j] = Number(r)
                      /\ IsFiniteSet(Sent(Number(r)))
                      /\ Cardinality(Sent(Number(r))) = char_count[r] + Len(data[r])
    BY DEF ReducerInv
  <2>4. Sent(Number(r)) = {}
    BY <2>1
  <2> QED BY <2>2, <2>3, <2>4
<1>8. PrintedInv
  BY Names, MapReduceAssumption, Processes DEF Init, PrintedInv
<1> QED BY <1>1, <1>2, <1>3, <1>4, <1>5, <1>6, <1>7, <1>8 DEF ReportInv, MainInv

\* If the parent fails before it has forked all mappers, no reducer is forked.
LEMMA CutStep ==
  ASSUME CommonInv, Cut, CutInv, [Next]_vars
  PROVE  Cut' /\ CutInv'
<1>1. PICK u \in Mapper : stage[u] = "unborn"
  BY DEF Cut
<1>2. CASE UNCHANGED vars
  BY <1>2 DEF vars, parentVars, childVars, Cut, CutInv
<1>3. ~ ParentStep /\ ~ Fail
  BY DEF Cut, ParentStep, ForkMapper, ForkReducer, Open, Feed, EndFeeding, Wait, Return, Fail
<1>4. ASSUME NEW m \in Mapper, MapperStep(m) PROVE Cut' /\ CutInv'
  <2>1. stage[m] # "unborn" /\ \A c \in Child : c # m => stage'[c] = stage[c]
    BY <1>4 DEF MapperStep, MapperCloses, MapperReads, MapperWrites, MapperEnds, MapperExits, Goto,
                CommonInv, TypeOK
  <2>2. UNCHANGED <<parent, printed>>
    BY <1>4 DEF MapperStep, MapperCloses, MapperReads, MapperWrites, MapperEnds, MapperExits,
                parentVars
  <2>3. stage'[u] = "unborn"
    BY <1>1, <2>1, Processes
  <2>4. \A r \in Reducer : stage'[r] = stage[r]
    BY <2>1, Names, Processes
  <2> QED BY <2>2, <2>3, <2>4 DEF Cut, CutInv
<1>5. ASSUME NEW r \in Reducer, ReducerStep(r) PROVE FALSE
  BY <1>5 DEF CutInv, ReducerStep, ReducerCloses, ReducerReads, ReducerPrints, Goto
<1> QED BY <1>2, <1>3, <1>4, <1>5 DEF Next

\* Without a failure the main part of the invariant holds on.
LEMMA MainStep ==
  ASSUME NoLoneMapper, CommonInv, MainInv, [Next]_vars
  PROVE  IF Cut' THEN CutInv' ELSE MainInv'
<1>1. MainInv' => ~ Cut'
  BY DEF MainInv, BirthInv, Cut
<1>2. CASE Fail
  BY <1>2, FailStep
<1>3. CASE UNCHANGED vars
  <2>1. WaitInv' /\ BirthInv' /\ EndsInv'
    BY <1>3 DEF vars, parentVars, childVars, MainInv, WaitInv, Ended, BirthInv, EndsInv, Holds
  <2>2. Fed' = Fed
    BY <1>3 DEF vars, parentVars, Fed
  <2>3. MapperInv' /\ ReducerInv' /\ PrintedInv'
    BY <1>3, <2>2, ChildrenFrame DEF vars, childVars, MainInv
  <2> QED BY <1>1, <2>1, <2>3 DEF MainInv
<1>4. CASE ParentStep
  BY <1>1, <1>4, ForkMapperMain, ForkReducerMain, OpenMain, FeedMain, EndFeedingMain, WaitMain,
     ReturnMain DEF ParentStep
<1>5. ASSUME NEW m \in Mapper, MapperStep(m) PROVE MainInv'
  BY <1>5, MapperClosesMain, MapperReadsMain, MapperWritesMain, MapperEndsMain, MapperExitsMain
     DEF MapperStep
<1>6. ASSUME NEW r \in Reducer, ReducerStep(r) PROVE MainInv'
  BY <1>6, ReducerClosesMain, ReducerReadsMain, ReducerPrintsMain DEF ReducerStep
<1> QED BY <1>1, <1>2, <1>3, <1>4, <1>5, <1>6 DEF Next

\* The invariant: who holds which write ends, and what was sent is counted.
THEOREM ReportInvHolds == NoLoneMapper /\ Spec => []ReportInv
<1> SUFFICES ASSUME NoLoneMapper PROVE Spec => []ReportInv
  OBVIOUS
<1>1. Init => ReportInv
  BY InitMain
<1>2. ReportInv /\ [Next]_vars => ReportInv'
  BY StepCommon, CutStep, MainStep DEF ReportInv
<1> QED BY <1>1, <1>2, PTL DEF Spec

\* A step of the program prints the number of the next letter in the lines the
\* mappers were given, or nothing.
LEMMA StepReports ==
  ASSUME ReportInv, [Next]_vars
  PROVE  [Report!PrintLetter]_(Report!vars)
<1>1. ASSUME NEW r \in Reducer, ReducerPrints(r) PROVE Report!PrintLetter
  <2>1. stage[r] = "counting" /\ EndOfPipe(r) /\ printed' = Append(printed, char_count[r])
    BY <1>1 DEF ReducerPrints, Goto
  <2>2. CommonInv /\ MainInv
    BY <2>1 DEF ReportInv, CutInv
  <2>3. Number(r) = Len(printed) /\ char_count[r] = Report!Occurrences(Number(r))
    BY <2>1, <2>2, ReducersEnd, CountIsFinal
  <2>4. Number(r) < REDUCER_COUNT
    BY Names, MapReduceAssumption
  <2>5. FirstLines(input)' = FirstLines(input)
    BY <1>1 DEF ReducerPrints, FirstLines
  <2> QED BY <2>1, <2>3, <2>4, <2>5 DEF Report!PrintLetter
<1>2. UNCHANGED <<input, printed>> => UNCHANGED Report!vars
  BY DEF Report!vars, FirstLines
<1>3. (\E r \in Reducer : ReducerPrints(r)) \/ UNCHANGED <<input, printed>>
  <2>1. CASE UNCHANGED vars
    BY <2>1 DEF vars, childVars
  <2>2. CASE ParentStep \/ Fail
    BY <2>2 DEF ParentStep, ForkMapper, ForkReducer, Fork, Open, Feed, EndFeeding, Wait, Return, Fail,
                childVars
  <2>3. ASSUME NEW m \in Mapper, MapperStep(m) PROVE UNCHANGED <<input, printed>>
    BY <2>3 DEF MapperStep, MapperCloses, MapperReads, MapperWrites, MapperEnds, MapperExits
  <2>4. ASSUME NEW r \in Reducer, ReducerStep(r)
        PROVE  ReducerPrints(r) \/ UNCHANGED <<input, printed>>
    BY <2>4 DEF ReducerStep, ReducerCloses, ReducerReads
  <2> QED BY <2>1, <2>2, <2>3, <2>4 DEF Next
<1> QED BY <1>1, <1>2, <1>3

\* as2 reports how often each letter is in the lines it gave to its mappers,
\* letter by letter, each number once and final, in every interleaving and also
\* when fork or fopen fails (as2.c:128-150, 275-284).
THEOREM ReportImplemented == NoLoneMapper /\ Spec => ImplementsReport
<1> SUFFICES ASSUME NoLoneMapper PROVE Spec => ImplementsReport
  OBVIOUS
<1>1. Init => Report!Init
  BY DEF Init, TypeOK, Report!Init
<1>2. ReportInv /\ [Next]_vars => [Report!PrintLetter]_(Report!vars)
  BY StepReports
<1>3. Spec => []ReportInv
  BY ReportInvHolds
<1> QED BY <1>1, <1>2, <1>3, PTL DEF Spec, ImplementsReport, Report!Spec

-----------------------------------------------------------------------------
(* When nobody can go on *)

\* Who may hold write ends: those of a reducer's pipe the parent until it has
\* forked the reducer, the mappers, and the reducers up to this one; nobody who
\* is not there any more, or not yet.
HolderInv ==
  /\ parent # "mappers" =>
       \A r \in Reducer : Holds(Parent, r) => parent = "reducers" /\ Number(r) >= curr_pipe
  /\ \A c \in Child : stage[c] \in {"unborn", "exited", "failed"} => \A d \in Child : ~ Holds(c, d)
  /\ \A q, r \in Reducer :
       Holds(q, r) => Number(q) <= Number(r) /\ (stage[q] = "counting" => q # r)

\* The parent waits when its mappers or its lines are used up, with all reducers
\* forked; what has printed or was never fed has left nothing in the pipes.
RestInv ==
  /\ parent = "wait" => curr_pipe = MAPPER_COUNT \/ curr_pipe = Len(input)
  /\ parent \in {"open", "feed", "wait"} => \A r \in Reducer : stage[r] # "unborn"
  /\ printed # <<>> => \A m \in Mapper : stage[m] \in {"ending", "exited"}
  /\ \A r \in Reducer : stage[r] = "exited" => data[r] = <<>>
  /\ Cut => /\ \A c \in Child : data[c] = <<>>
            /\ \A m \in Mapper : buffer[m] = <<>> /\ stage[m] # "counting"

HangInv == ReportInv /\ HolderInv /\ RestInv

LEMMA InitHang == Init => HangInv
<1> SUFFICES ASSUME Init PROVE HangInv
  OBVIOUS
<1>1. ReportInv
  BY InitMain
<1>2. HolderInv
  <2>1. \A c \in Child : c # Parent /\ c \in Process
    BY Names, Processes
  <2>2. \A c \in Child : ends[c] = {}
    BY <2>1 DEF Init
  <2> QED BY <2>2, Processes DEF Init, HolderInv, Holds
<1>3. RestInv
  BY Processes DEF Init, RestInv, Cut
<1> QED BY <1>1, <1>2, <1>3 DEF HangInv

\* A fork hands on the write ends that the parent has at that time.
LEMMA ForkHolders ==
  ASSUME CommonInv, HolderInv, ForkMapper \/ ForkReducer
  PROVE  HolderInv'
<1>1. CASE ForkMapper
  <2>1. /\ parent = "mappers" /\ curr_pipe \in 0 .. MAPPER_COUNT - 1
        /\ parent' = "mappers" \/ (parent' = "reducers" /\ curr_pipe' = 0)
    BY <1>1, MapReduceAssumption DEF ForkMapper, CommonInv, TypeOK, PhaseInv
  <2>2. PICK m \in Mapper : m = <<"mapper", curr_pipe>>
    BY <2>1, Names
  <2>3. Fork(m, ReadEnds({m})) /\ m \in Child
    BY <1>1, <2>2, Processes DEF ForkMapper
  <2>4. stage'[m] = "closing" /\ \A c \in Child : c # m => stage'[c] = stage[c]
    BY <2>3 DEF CommonInv, TypeOK, Fork
  <2>5. \A p \in Child : p # m => \A d : (Holds(p, d)' <=> Holds(p, d))
    BY <2>3, ForkHolds DEF CommonInv
  <2>6. \A c \in Child : stage'[c] \in {"unborn", "exited", "failed"} =>
          \A d \in Child : ~ Holds(c, d)'
    BY <2>4, <2>5 DEF HolderInv
  <2>7. \A q, r \in Reducer :
          Holds(q, r)' => Number(q) <= Number(r) /\ (stage'[q] = "counting" => q # r)
    BY <2>4, <2>5, Names, Processes DEF HolderInv
  <2>8. parent' # "mappers" =>
          \A r \in Reducer : Holds(Parent, r)' => parent' = "reducers" /\ Number(r) >= curr_pipe'
    BY <2>1, Names
  <2> QED BY <2>6, <2>7, <2>8 DEF HolderInv
<1>2. CASE ForkReducer
  <2>1. /\ parent = "reducers" /\ curr_pipe \in 0 .. REDUCER_COUNT - 1
        /\ \/ parent' = "reducers" /\ curr_pipe' = curr_pipe + 1
           \/ parent' = "open" /\ curr_pipe + 1 = REDUCER_COUNT
    BY <1>2, MapReduceAssumption DEF ForkReducer, CommonInv, TypeOK, PhaseInv
  <2>2. PICK r \in Reducer : r = <<"reducer", curr_pipe>> /\ Number(r) = curr_pipe
    BY <2>1, Names
  <2>3. Fork(r, WriteEnds({r})) /\ r \in Child
    BY <1>2, <2>2, Processes DEF ForkReducer
  <2>4. stage'[r] = "closing" /\ \A c \in Child : c # r => stage'[c] = stage[c]
    BY <2>3 DEF CommonInv, TypeOK, Fork
  <2>5. /\ \A d : Holds(r, d)' <=> Holds(Parent, d)
        /\ \A d : Holds(Parent, d)' <=> Holds(Parent, d) /\ d # r
        /\ \A p \in Child : p # r => \A d : (Holds(p, d)' <=> Holds(p, d))
    <3>1. \A d : <<d, "write">> \in WriteEnds({r}) <=> d = r
      BY DEF WriteEnds
    <3>2. \A d : Holds(Parent, d)' <=> Holds(Parent, d) /\ <<d, "write">> \notin WriteEnds({r})
      BY <2>3, ForkHolds DEF CommonInv
    <3>3. /\ \A d : Holds(r, d)' <=> Holds(Parent, d)
          /\ \A p \in Child : p # r => \A d : (Holds(p, d)' <=> Holds(p, d))
      BY <2>3, ForkHolds DEF CommonInv
    <3> QED BY <3>1, <3>2, <3>3
  <2>6. \A s \in Reducer : Holds(Parent, s) => Number(s) >= curr_pipe
    BY <2>1 DEF HolderInv
  <2>7. \A c \in Child : stage'[c] \in {"unborn", "exited", "failed"} =>
          \A d \in Child : ~ Holds(c, d)'
    BY <2>4, <2>5 DEF HolderInv
  <2>8. \A q, s \in Reducer :
          Holds(q, s)' => Number(q) <= Number(s) /\ (stage'[q] = "counting" => q # s)
    <3> SUFFICES ASSUME NEW q \in Reducer, NEW s \in Reducer, Holds(q, s)'
                 PROVE  Number(q) <= Number(s) /\ (stage'[q] = "counting" => q # s)
      OBVIOUS
    <3>1. CASE q = r
      <4>1. Number(r) \in Nat /\ Number(s) \in Nat /\ Number(s) >= Number(r)
        BY <2>2, <2>5, <2>6, <3>1, Names, MapReduceAssumption
      <4> QED BY <2>4, <3>1, <4>1
    <3>2. CASE q # r
      BY <2>4, <2>5, <3>2, Processes DEF HolderInv
    <3> QED BY <3>1, <3>2
  <2>9. ASSUME NEW s \in Reducer, Holds(Parent, s)'
        PROVE  parent' = "reducers" /\ Number(s) >= curr_pipe'
    <3>1. Number(s) >= curr_pipe /\ s # r
      BY <2>5, <2>6, <2>9
    <3>2. Number(s) # curr_pipe /\ Number(s) \in 0 .. REDUCER_COUNT - 1
      BY <2>2, <3>1, Names
    <3> QED BY <2>1, <3>1, <3>2, MapReduceAssumption
  <2> QED BY <2>7, <2>8, <2>9 DEF HolderInv
<1> QED BY <1>1, <1>2

\* The other steps of the parent close what they close, and none is handed on.
LEMMA ParentHolders ==
  ASSUME CommonInv, HolderInv, Open \/ Fail \/ Feed \/ EndFeeding \/ Wait \/ Return
  PROVE  HolderInv'
<1>1. stage' = stage
  BY DEF Open, Fail, Feed, EndFeeding, Wait, Return, childVars
<1>2. ends' = ends \/ \E E : closer(Parent, E)
  BY DEF Open, Fail, Feed, EndFeeding, Wait, Return
<1>3. /\ \A c \in Child : \A d : Holds(c, d)' <=> Holds(c, d)
      /\ \A d : Holds(Parent, d)' => Holds(Parent, d)
  <2>1. \A c \in Child : c # Parent /\ c \in Process
    BY Names, Processes
  <2>2. Parent \in Process
    BY Processes
  <2>3. CASE ends' = ends
    BY <2>3 DEF Holds
  <2>4. ASSUME NEW E, closer(Parent, E)
        PROVE  /\ \A c \in Child : \A d : Holds(c, d)' <=> Holds(c, d)
               /\ \A d : Holds(Parent, d)' => Holds(Parent, d)
    BY <2>1, <2>2, <2>4, Closing DEF CommonInv
  <2> QED BY <1>2, <2>3, <2>4
<1>4. \A r \in Reducer : ~ Holds(Parent, r)'
  <2>1. CASE Fail
    BY <2>1, Processes DEF Fail, closer, Holds, CommonInv, TypeOK
  <2>2. CASE ~ Fail
    <3>1. parent \notin {"mappers", "reducers"}
      BY <2>2 DEF Open, Feed, EndFeeding, Wait, Return
    <3>2. \A r \in Reducer : ~ Holds(Parent, r)
      BY <3>1 DEF HolderInv
    <3> QED BY <1>3, <3>2
  <2> QED BY <2>1, <2>2
<1> QED BY <1>1, <1>3, <1>4, Processes DEF HolderInv

\* A child closes ends too, all of them when it ends.
LEMMA ChildHolders ==
  ASSUME CommonInv, HolderInv, NEW c \in Child,
         \/ c \in Mapper /\ MapperStep(c)
         \/ c \in Reducer /\ ReducerStep(c)
  PROVE  HolderInv'
<1>1. /\ UNCHANGED <<parent, curr_pipe>>
      /\ stage[c] \notin {"unborn", "exited", "failed"} /\ stage'[c] # "unborn"
      /\ \A d \in Child : d # c => stage'[d] = stage[d]
  BY DEF MapperStep, MapperCloses, MapperReads, MapperWrites, MapperEnds, MapperExits,
     ReducerStep, ReducerCloses, ReducerReads, ReducerPrints, Goto, parentVars, CommonInv, TypeOK
<1>2. ends' = ends \/ \E E : closer(c, E)
  BY DEF MapperStep, MapperCloses, MapperReads, MapperWrites, MapperEnds, MapperExits,
     ReducerStep, ReducerCloses, ReducerReads, ReducerPrints
<1>3. c \in Process /\ c # Parent /\ \A d \in Child : d \in Process
  BY Names, Processes
<1>4. /\ \A q \in Process : q # c => \A d : (Holds(q, d)' <=> Holds(q, d))
      /\ \A d : Holds(c, d)' => Holds(c, d)
  <2>1. CASE ends' = ends
    BY <2>1 DEF Holds
  <2>2. ASSUME NEW E, closer(c, E)
        PROVE  /\ \A q \in Process : q # c => \A d : (Holds(q, d)' <=> Holds(q, d))
               /\ \A d : Holds(c, d)' => Holds(c, d)
    BY <1>3, <2>2, Closing DEF CommonInv
  <2> QED BY <1>2, <2>1, <2>2
<1>5. stage'[c] \in {"exited", "failed"} => \A d \in Child : ~ Holds(c, d)'
  <2>1. stage'[c] \in {"exited", "failed"} => closer(c, ends[c])
    BY <1>1 DEF MapperStep, MapperCloses, MapperReads, MapperWrites, MapperEnds, MapperExits,
       ReducerStep, ReducerCloses, ReducerReads, ReducerPrints, Goto, CommonInv, TypeOK
  <2>2. closer(c, ends[c]) => \A d \in Child : ~ Holds(c, d)'
    BY <1>3 DEF closer, Holds, CommonInv, TypeOK
  <2> QED BY <2>1, <2>2
<1>6. stage'[c] = "counting" => stage[c] = "counting" \/ ~ Holds(c, c)'
  <2>1. stage'[c] = "counting" =>
          stage[c] = "counting" \/ \E E : closer(c, E) /\ <<c, "write">> \in E
    <3>1. <<c, "write">> \in WriteEnds({c})
      BY WriteEnd
    <3>2. ReducerCloses(c) => \E E : closer(c, E) /\ <<c, "write">> \in E
      BY <3>1 DEF ReducerCloses
    <3> QED
      BY <1>1, <3>2 DEF MapperStep, MapperCloses, MapperReads, MapperWrites, MapperEnds, MapperExits,
         ReducerStep, ReducerReads, ReducerPrints, Goto, CommonInv, TypeOK
  <2>2. ASSUME NEW E, closer(c, E), <<c, "write">> \in E
        PROVE  ~ Holds(c, c)'
    BY <1>3, <2>2, Closing DEF CommonInv
  <2> QED BY <2>1, <2>2
<1>7. \A r \in Reducer : Holds(Parent, r)' <=> Holds(Parent, r)
  BY <1>3, <1>4, Processes
<1>8. \A d \in Child : stage'[d] \in {"unborn", "exited", "failed"} => \A e \in Child : ~ Holds(d, e)'
  <2> SUFFICES ASSUME NEW d \in Child, stage'[d] \in {"unborn", "exited", "failed"}
               PROVE  \A e \in Child : ~ Holds(d, e)'
    OBVIOUS
  <2>1. CASE d = c
    BY <1>1, <1>5, <2>1
  <2>2. CASE d # c
    BY <1>1, <1>3, <1>4, <2>2 DEF HolderInv
  <2> QED BY <2>1, <2>2
<1>9. \A q, r \in Reducer :
        Holds(q, r)' => Number(q) <= Number(r) /\ (stage'[q] = "counting" => q # r)
  <2> SUFFICES ASSUME NEW q \in Reducer, NEW r \in Reducer, Holds(q, r)'
               PROVE  Number(q) <= Number(r) /\ (stage'[q] = "counting" => q # r)
    OBVIOUS
  <2>1. Holds(q, r) /\ q \in Child
    BY <1>3, <1>4, Processes
  <2>2. CASE q = c
    BY <1>6, <2>1, <2>2 DEF HolderInv
  <2>3. CASE q # c
    BY <1>1, <2>1, <2>3 DEF HolderInv
  <2> QED BY <2>2, <2>3
<1> QED BY <1>1, <1>7, <1>8, <1>9 DEF HolderInv

LEMMA HolderStep ==
  ASSUME CommonInv, HolderInv, [Next]_vars
  PROVE  HolderInv'
<1>1. CASE UNCHANGED vars
  BY <1>1 DEF vars, parentVars, childVars, HolderInv, Holds
<1> QED
  BY <1>1, ForkHolders, ParentHolders, ChildHolders, Processes DEF Next, ParentStep
\* Before any line is fed, nothing is in a pipe or a buffer.
LEMMA NothingSent ==
  ASSUME CommonInv, MainInv, Fed = 0
  PROVE  /\ \A c \in Child : data[c] = <<>>
         /\ \A m \in Mapper : stage[m] \in Waiting /\ buffer[m] = <<>>
<1>1. \A m \in Mapper : ~ (Number(m) < Fed)
  BY Names, MapReduceAssumption
<1>2. \A m \in Mapper : stage[m] \in Waiting /\ buffer[m] = <<>> /\ data[m] = <<>>
  BY <1>1 DEF MainInv, MapperInv, HasLine
<1>3. ASSUME NEW r \in Reducer PROVE data[r] = <<>>
  <2>1. Sent(Number(r)) = {}
    <3>1. \A m \in Mapper : Seen(m) = 0
      BY <1>2 DEF Seen
    <3>2. \A x \in (1 .. MAPPER_COUNT) \X Nat : Reader(x) \in Mapper
      BY Names, MapReduceAssumption DEF Reader
    <3> QED BY <3>1, <3>2 DEF Sent
  <2>2. Cardinality({}) = 0
    BY FS_EmptySet
  <2>3. Cardinality(Sent(Number(r))) = char_count[r] + Len(data[r])
    BY DEF MainInv, ReducerInv
  <2>4. char_count[r] \in Nat /\ data[r] \in Seq(Nat)
    BY DEF CommonInv, TypeOK
  <2>5. PICK l \in Nat : l = Len(data[r])
    BY <2>4
  <2>6. l = 0
    BY <2>1, <2>2, <2>3, <2>4, <2>5
  <2> QED BY <2>4, <2>5, <2>6, EmptySeq
<1> QED BY <1>2, <1>3, Processes

\* A step of a child is nobody else's.
LEMMA OneChild ==
  ASSUME TypeOK, NEW c \in Child,
         \/ c \in Mapper /\ MapperStep(c)
         \/ c \in Reducer /\ ReducerStep(c)
  PROVE  /\ UNCHANGED <<parent, curr_pipe, input>>
         /\ stage[c] \notin {"unborn", "exited", "failed"} /\ stage'[c] # "unborn"
         /\ \A d \in Child : d # c => stage'[d] = stage[d]
BY DEF MapperStep, MapperCloses, MapperReads, MapperWrites, MapperEnds, MapperExits,
   ReducerStep, ReducerCloses, ReducerReads, ReducerPrints, Goto, parentVars, TypeOK

\* After a failure among the mappers' forks nothing moves any more.
LEMMA CutRest ==
  ASSUME CommonInv, Cut, CutInv, RestInv, [Next]_vars
  PROVE  RestInv'
<1>1. Cut' /\ CutInv'
  BY CutStep
<1>2. /\ \A c \in Child : data[c] = <<>>
      /\ \A m \in Mapper : buffer[m] = <<>> /\ stage[m] # "counting"
  BY DEF RestInv
<1>3. UNCHANGED <<data, buffer>>
  <2>1. CASE UNCHANGED vars
    BY <2>1 DEF vars, childVars
  <2>2. ~ ParentStep /\ ~ Fail
    BY DEF Cut, ParentStep, ForkMapper, ForkReducer, Open, Feed, EndFeeding, Wait, Return, Fail
  <2>3. ASSUME NEW m \in Mapper, MapperStep(m) PROVE UNCHANGED <<data, buffer>>
    <3>1. data[m] = <<>> /\ buffer[m] = <<>>
      BY <1>2, Processes
    <3> QED BY <2>3, <3>1 DEF MapperStep, MapperCloses, MapperReads, MapperWrites, MapperEnds,
               MapperExits
  <2>4. ASSUME NEW r \in Reducer, ReducerStep(r) PROVE FALSE
    BY <2>4 DEF CutInv, ReducerStep, ReducerCloses, ReducerReads, ReducerPrints, Goto
  <2> QED BY <2>1, <2>2, <2>3, <2>4 DEF Next
<1>4. parent' \notin {"wait", "open", "feed"} /\ printed' = <<>>
  BY <1>1 DEF Cut, CutInv
<1>5. \A r \in Reducer : stage'[r] # "exited"
  BY <1>1 DEF CutInv
<1>6. \A m \in Mapper : stage'[m] # "counting"
  <2>1. CASE UNCHANGED vars
    BY <1>2, <2>1 DEF vars, childVars
  <2>2. ~ ParentStep /\ ~ Fail
    BY DEF Cut, ParentStep, ForkMapper, ForkReducer, Open, Feed, EndFeeding, Wait, Return, Fail
  <2>3. ASSUME NEW m \in Mapper, MapperStep(m) PROVE \A n \in Mapper : stage'[n] # "counting"
    <3>1. stage'[m] # "counting"
      BY <1>2, <2>3, Processes DEF MapperStep, MapperCloses, MapperReads, MapperWrites, MapperEnds,
         MapperExits, Goto, CommonInv, TypeOK
    <3>2. \A c \in Child : c # m => stage'[c] = stage[c]
      BY <2>3, OneChild, Processes DEF CommonInv
    <3> QED BY <1>2, <3>1, <3>2, Processes
  <2>4. ASSUME NEW r \in Reducer, ReducerStep(r) PROVE FALSE
    BY <2>4 DEF CutInv, ReducerStep, ReducerCloses, ReducerReads, ReducerPrints, Goto
  <2> QED BY <2>1, <2>2, <2>3, <2>4 DEF Next
<1> QED BY <1>2, <1>3, <1>4, <1>5, <1>6 DEF RestInv

\* The last fork makes the last child there; no fork comes after a number printed.
LEMMA ForkRest ==
  ASSUME CommonInv, MainInv, RestInv, ForkMapper \/ ForkReducer
  PROVE  RestInv'
<1>1. CASE ForkMapper
  <2>1. /\ parent = "mappers" /\ curr_pipe \in 0 .. MAPPER_COUNT - 1
        /\ parent' \in {"mappers", "reducers"}
    BY <1>1, MapReduceAssumption DEF ForkMapper, CommonInv, TypeOK, PhaseInv
  <2>2. PICK m \in Mapper : m = <<"mapper", curr_pipe>> /\ Number(m) = curr_pipe
    BY <2>1, Names
  <2>3. Fork(m, ReadEnds({m})) /\ m \in Child
    BY <1>1, <2>2, Processes DEF ForkMapper
  <2>4. \A c \in Child : c # m => stage'[c] = stage[c]
    BY <2>3 DEF CommonInv, TypeOK, Fork
  <2>5. UNCHANGED <<data, printed>>
    BY <2>3 DEF Fork
  <2>6. stage[m] = "unborn"
    BY <2>1, <2>2 DEF MainInv, BirthInv
  <2>7. printed = <<>>
    BY <2>6 DEF RestInv
  <2>8. \A r \in Reducer : stage'[r] = stage[r]
    BY <2>4, Names, Processes
  <2>9. parent' \notin {"wait", "open", "feed", "failed"}
    BY <2>1
  <2> QED BY <2>5, <2>7, <2>8, <2>9 DEF RestInv, Cut
<1>2. CASE ForkReducer
  <2>1. /\ parent = "reducers" /\ curr_pipe \in 0 .. REDUCER_COUNT - 1
        /\ \/ parent' = "reducers"
           \/ parent' = "open" /\ curr_pipe + 1 = REDUCER_COUNT
    BY <1>2, MapReduceAssumption DEF ForkReducer, CommonInv, TypeOK, PhaseInv
  <2>2. PICK r \in Reducer : r = <<"reducer", curr_pipe>> /\ Number(r) = curr_pipe
    BY <2>1, Names
  <2>3. Fork(r, WriteEnds({r})) /\ r \in Child
    BY <1>2, <2>2, Processes DEF ForkReducer
  <2>4. stage'[r] = "closing" /\ \A c \in Child : c # r => stage'[c] = stage[c]
    BY <2>3 DEF CommonInv, TypeOK, Fork
  <2>5. UNCHANGED <<data, printed>>
    BY <2>3 DEF Fork
  <2>6. \A m \in Mapper : stage'[m] = stage[m]
    BY <2>4, Names, Processes
  <2>7. parent' \notin {"wait", "feed", "failed"}
    BY <2>1
  <2>8. ASSUME parent' = "open", NEW s \in Reducer PROVE stage'[s] # "unborn"
    <3>1. CASE s = r
      BY <2>4, <3>1
    <3>2. CASE s # r
      <4>1. Number(s) # curr_pipe /\ Number(s) \in 0 .. REDUCER_COUNT - 1
        BY <2>2, <3>2, Names
      <4>2. ~ (Number(s) >= curr_pipe)
        BY <2>1, <2>8, <4>1, MapReduceAssumption
      <4>3. stage[s] # "unborn"
        BY <2>1, <4>2 DEF MainInv, BirthInv
      <4> QED BY <2>4, <3>2, <4>3, Processes
    <3> QED BY <3>1, <3>2
  <2>9. \A s \in Reducer : stage'[s] = "exited" => data'[s] = <<>>
    BY <2>4, <2>5, Processes DEF RestInv
  <2> QED BY <2>5, <2>6, <2>7, <2>8, <2>9 DEF RestInv, Cut
<1> QED BY <1>1, <1>2

\* The other steps of the parent: what they feed goes to a mapper.
LEMMA ParentRest ==
  ASSUME CommonInv, MainInv, RestInv, Open \/ Fail \/ Feed \/ EndFeeding \/ Wait \/ Return
  PROVE  RestInv'
<1>1. UNCHANGED <<stage, printed, buffer, input>>
  BY DEF Open, Fail, Feed, EndFeeding, Wait, Return, childVars
<1>2. \A r \in Reducer : data'[r] = data[r]
  <2>1. CASE Feed
    <3>1. data' = [data EXCEPT ![<<"mapper", curr_pipe>>] = Append(@, input[lines_read + 1])]
      BY <2>1 DEF Feed
    <3>2. \A r \in Reducer : r # <<"mapper", curr_pipe>>
      BY DEF Reducer
    <3> QED BY <3>1, <3>2, Processes DEF CommonInv, TypeOK
  <2>2. CASE ~ Feed
    BY <2>2 DEF Open, Fail, EndFeeding, Wait, Return, childVars
  <2> QED BY <2>1, <2>2
<1>3. parent' = "wait" => curr_pipe' = MAPPER_COUNT \/ curr_pipe' = Len(input')
  <2>1. CASE EndFeeding
    BY <1>1, <2>1 DEF EndFeeding, CommonInv, PhaseInv
  <2>2. CASE Wait
    BY <1>1, <2>2 DEF Wait, RestInv
  <2>3. CASE Open \/ Fail \/ Feed \/ Return
    BY <2>3 DEF Open, Fail, Feed, Return
  <2> QED BY <2>1, <2>2, <2>3
<1>4. parent' \in {"open", "feed", "wait"} => \A r \in Reducer : stage'[r] # "unborn"
  <2>1. parent' \in {"open", "feed", "wait"} => parent \in {"open", "feed", "wait"}
    BY DEF Open, Fail, Feed, EndFeeding, Wait, Return
  <2> QED BY <1>1, <2>1 DEF RestInv
<1>5. Cut' => /\ \A c \in Child : data'[c] = <<>>
              /\ \A m \in Mapper : buffer'[m] = <<>> /\ stage'[m] # "counting"
  <2>1. CASE Fail
    <3>1. Fed = 0 /\ data' = data
      BY <2>1 DEF Fail, Fed
    <3> QED BY <1>1, <3>1, NothingSent DEF Waiting
  <2>2. CASE ~ Fail
    <3>1. parent' # "failed"
      BY <2>2 DEF Open, Feed, EndFeeding, Wait, Return
    <3> QED BY <3>1 DEF Cut
  <2> QED BY <2>1, <2>2
<1> QED BY <1>1, <1>2, <1>3, <1>4, <1>5 DEF RestInv

\* A mapper that still writes finds every reducer counting.
LEMMA MapperRest ==
  ASSUME CommonInv, MainInv, RestInv, NEW m \in Mapper, MapperStep(m)
  PROVE  RestInv'
<1>1. /\ UNCHANGED <<parent, curr_pipe, input>>
      /\ stage[m] # "unborn" /\ stage'[m] # "unborn"
      /\ \A d \in Child : d # m => stage'[d] = stage[d]
  BY OneChild, Processes DEF CommonInv
<1>2. printed' = printed /\ (stage[m] = "ending" => stage'[m] = "exited") /\ stage[m] # "exited"
  BY Processes DEF MapperStep, MapperCloses, MapperReads, MapperWrites, MapperEnds, MapperExits, Goto,
     CommonInv, TypeOK
<1>3. \A r \in Reducer : stage'[r] = stage[r]
  BY <1>1, Names, Processes
<1>4. printed' # <<>> => \A n \in Mapper : stage'[n] \in {"ending", "exited"}
  BY <1>1, <1>2, Processes DEF RestInv
<1>5. ASSUME NEW r \in Reducer, stage[r] = "exited" PROVE data'[r] = <<>>
  <2>1. data[r] = <<>>
    BY <1>5 DEF RestInv
  <2>2. printed # <<>>
    <3> SUFFICES ASSUME printed = <<>> PROVE FALSE
      OBVIOUS
    <3>1. Len(printed) = 0
      OBVIOUS
    <3>2. Number(r) < Len(printed)
      BY <1>5 DEF MainInv, PrintedInv
    <3> QED BY <3>1, <3>2, Names, MapReduceAssumption
  <2>3. stage[m] \in {"ending", "exited"}
    BY <2>2 DEF RestInv
  <2>4. data' = data
    BY <2>3 DEF MapperStep, MapperCloses, MapperReads, MapperWrites, MapperEnds, MapperExits, Goto
  <2> QED BY <2>1, <2>4
<1>6. ~ Cut'
  BY <1>1, Processes DEF MainInv, BirthInv, Cut
<1> QED BY <1>1, <1>3, <1>4, <1>5, <1>6 DEF RestInv

\* A reducer that prints has found its pipe empty and no mapper at work.
LEMMA ReducerRest ==
  ASSUME CommonInv, MainInv, RestInv, NEW r \in Reducer, ReducerStep(r)
  PROVE  RestInv'
<1>1. /\ UNCHANGED <<parent, curr_pipe, input>>
      /\ stage[r] # "exited" /\ stage'[r] # "unborn"
      /\ \A d \in Child : d # r => stage'[d] = stage[d]
  BY OneChild, Processes DEF CommonInv
<1>2. \A m \in Mapper : stage'[m] = stage[m]
  BY <1>1, Names, Processes
<1>3. printed' # <<>> => \A m \in Mapper : stage[m] \in {"ending", "exited"}
  <2>1. CASE ReducerPrints(r)
    <3>1. stage[r] = "counting" /\ EndOfPipe(r)
      BY <2>1 DEF ReducerPrints, Goto
    <3> QED BY <3>1, ReducersEnd
  <2>2. CASE ~ ReducerPrints(r)
    <3>1. printed' = printed
      BY <2>2 DEF ReducerStep, ReducerCloses, ReducerReads
    <3> QED BY <3>1 DEF RestInv
  <2> QED BY <2>1, <2>2
<1>4. \A s \in Reducer : s # r => data'[s] = data[s]
  BY Processes DEF ReducerStep, ReducerCloses, ReducerReads, ReducerPrints, CommonInv, TypeOK
<1>5. stage'[r] = "exited" => data'[r] = <<>>
  BY Processes DEF ReducerStep, ReducerCloses, ReducerReads, ReducerPrints, EndOfPipe, Goto, CommonInv,
     TypeOK
<1>6. \A s \in Reducer : stage'[s] = "exited" => data'[s] = <<>>
  BY <1>1, <1>4, <1>5, Processes DEF RestInv
<1>7. ~ Cut'
  BY <1>1, <1>2 DEF MainInv, BirthInv, Cut
<1>8. \A s \in Reducer : stage[s] # "unborn" => stage'[s] # "unborn"
  BY <1>1, Processes
<1> QED BY <1>1, <1>2, <1>3, <1>6, <1>7, <1>8 DEF RestInv

LEMMA RestStep ==
  ASSUME ReportInv, RestInv, [Next]_vars
  PROVE  RestInv'
<1>1. CASE Cut
  BY <1>1, CutRest DEF ReportInv
<1>2. CASE ~ Cut
  <2>1. CommonInv /\ MainInv
    BY <1>2 DEF ReportInv
  <2>2. CASE UNCHANGED vars
    BY <2>2 DEF vars, parentVars, childVars, RestInv, Cut
  <2> QED
    BY <2>1, <2>2, ForkRest, ParentRest, MapperRest, ReducerRest DEF Next, ParentStep
<1> QED BY <1>1, <1>2

\* The invariant about who can be left waiting.
THEOREM HangInvHolds == NoLoneMapper /\ Spec => []HangInv
<1> SUFFICES ASSUME NoLoneMapper PROVE Spec => []HangInv
  OBVIOUS
<1>1. Init => HangInv
  BY InitHang
<1>2. ReportInv /\ HolderInv /\ RestInv /\ [Next]_vars => HolderInv' /\ RestInv'
  BY HolderStep, RestStep DEF ReportInv
<1>3. Spec => []ReportInv
  BY ReportInvHolds
<1> QED BY <1>1, <1>2, <1>3, PTL DEF Spec, HangInv
\* When nobody goes on, a mapper is reading: else the lowest reducer left would
\* find the end of its pipe, once every mapper has gone.
LEMMA SomeMapperReads ==
  ASSUME HangInv, Stuck
  PROVE  \E m \in Mapper : stage[m] = "reading"
<1>1. CASE Cut
  <2>1. PICK c \in Child : c \in Alive /\ stage[c] \in {"reading", "counting"}
    BY DEF Stuck, Alive, Blocked
  <2>2. stage[c] # "unborn"
    BY <2>1
  <2>3. c \in Mapper
    BY <1>1, <2>2, Processes DEF HangInv, ReportInv, CutInv
  <2> QED BY <1>1, <2>1, <2>3 DEF HangInv, RestInv
<1>2. CASE ~ Cut
  <2> SUFFICES ASSUME \A m \in Mapper : stage[m] # "reading" PROVE FALSE
    OBVIOUS
  <2>1. CommonInv /\ MainInv /\ HolderInv
    BY <1>2 DEF HangInv, ReportInv
  <2>2. parent \in {"wait", "exited", "failed"}
    BY DEF Stuck, ParentWaits
  <2>3. \A c \in Child : stage[c] \notin {"unborn", "exited", "failed"} => Blocked(c)
    BY DEF Stuck, Alive, Ended
  <2>4. ASSUME NEW m \in Mapper PROVE stage[m] = "exited"
    <3>1. stage[m] # "unborn"
      BY <2>1, <2>2 DEF MainInv, BirthInv
    <3>2. stage[m] \in Waiting \cup {"mapping", "ending", "exited"}
      BY <2>1 DEF MainInv, MapperInv, HasLine
    <3> QED BY <2>3, <3>1, <3>2, Processes DEF Blocked, Waiting
  <2>5. PICK s \in Reducer : stage[s] \notin {"unborn", "exited", "failed"}
    BY <2>4, Processes DEF Stuck, Alive, Ended
  <2>6. PICK l \in Nat : l = Len(printed)
    BY <2>1 DEF CommonInv, TypeOK
  <2>7. \A r \in Reducer : stage[r] = "exited" <=> Number(r) < l
    BY <2>1, <2>6 DEF MainInv, PrintedInv
  <2>8. Number(s) \in 0 .. REDUCER_COUNT - 1 /\ l <= Number(s)
    BY <2>5, <2>7, Names, MapReduceAssumption
  <2>9. PICK r \in Reducer : Number(r) = l
    <3>1. l \in 0 .. REDUCER_COUNT - 1
      BY <2>8, MapReduceAssumption
    <3> QED BY <3>1, Names
  <2>10. stage[r] # "unborn"
    <3>1. CASE Number(r) < Number(s)
      BY <2>1, <2>5, <3>1 DEF MainInv, BirthInv
    <3>2. CASE ~ (Number(r) < Number(s))
      <4>1. Number(r) = Number(s)
        BY <2>8, <2>9, <3>2, MapReduceAssumption
      <4> QED BY <2>5, <4>1, Names
    <3> QED BY <3>1, <3>2
  <2>11. stage[r] \in {"closing", "counting"}
    BY <2>1, <2>7, <2>9, <2>10 DEF MainInv, ReducerInv
  <2>12. PICK q \in Process : Holds(q, r)
    BY <2>3, <2>11, Processes DEF Blocked, Holds
  <2>13. q # Parent
    BY <2>1, <2>2, <2>12 DEF HolderInv
  <2>14. q \in Child /\ r \in Child
    BY <2>13, Processes
  <2>15. stage[q] \notin {"unborn", "exited", "failed"}
    BY <2>1, <2>12, <2>14 DEF HolderInv
  <2>16. q \in Reducer
    BY <2>4, <2>14, <2>15, Processes
  <2>17. stage[q] = "counting"
    BY <2>1, <2>3, <2>14, <2>15, <2>16 DEF Blocked, MainInv, ReducerInv
  <2>18. Number(q) <= Number(r) /\ q # r
    BY <2>1, <2>12, <2>16, <2>17 DEF HolderInv
  <2>19. Number(q) < l
    <3>1. Number(q) # Number(r) /\ Number(q) \in Nat
      BY <2>16, <2>18, Names, MapReduceAssumption
    <3> QED BY <2>9, <2>18, <3>1
  <2> QED BY <2>7, <2>15, <2>16, <2>19
<1> QED BY <1>1, <1>2

\* With a line for every mapper, no mapper is left reading an empty pipe.
LEMMA WantOfLines ==
  ASSUME HangInv, Stuck
  PROVE  parent = "failed" \/ Len(input) < MAPPER_COUNT
<1> SUFFICES ASSUME parent # "failed", ~ (Len(input) < MAPPER_COUNT) PROVE FALSE
  OBVIOUS
<1>1. CommonInv /\ MainInv /\ RestInv
  BY DEF HangInv, ReportInv, Cut
<1>2. PICK m \in Mapper : stage[m] = "reading"
  BY SomeMapperReads
<1>3. data[m] = <<>> /\ m \in Child
  <2>1. m \in Alive
    BY <1>2, Processes DEF Alive, Ended
  <2> QED BY <2>1, Processes DEF Stuck, Blocked
<1>4. parent = "wait"
  <2>1. parent # "exited"
    BY <1>1, <1>2, <1>3 DEF MainInv, WaitInv, Ended
  <2> QED BY <2>1 DEF Stuck, ParentWaits
<1>5. curr_pipe = MAPPER_COUNT
  <2>1. input \in Seq(Seq(Nat)) /\ curr_pipe \in Nat
    BY <1>1, MapReduceAssumption DEF CommonInv, TypeOK
  <2>2. PICK l \in Nat : l = Len(input)
    BY <2>1
  <2>3. curr_pipe <= MAPPER_COUNT /\ curr_pipe <= l /\ (curr_pipe = MAPPER_COUNT \/ curr_pipe = l)
    BY <1>1, <1>4, <2>2 DEF CommonInv, PhaseInv, RestInv
  <2> QED BY <2>1, <2>2, <2>3, MapReduceAssumption
<1>6. Number(m) < Fed
  BY <1>4, <1>5, Names, MapReduceAssumption DEF Fed
<1>7. data[m] = <<Line(m)>>
  BY <1>1, <1>2, <1>6 DEF MainInv, MapperInv, HasLine, Waiting
<1>8. \A x : <<x>> # <<>>
  OBVIOUS
<1> QED BY <1>3, <1>7, <1>8

\* Nothing is lost in a pipe: whoever is left has emptied its own, and whoever
\* is not has done so before it went, or was never written to.
LEMMA NothingLeft ==
  ASSUME HangInv, Stuck
  PROVE  \A c \in Child : data[c] = <<>>
<1>1. CASE Cut
  BY <1>1 DEF HangInv, RestInv
<1>2. CASE ~ Cut
  <2>1. CommonInv /\ MainInv /\ RestInv
    BY <1>2 DEF HangInv, ReportInv
  <2>2. parent \in {"wait", "exited", "failed"}
    BY DEF Stuck, ParentWaits
  <2>3. \A c \in Child : stage[c] \notin {"unborn", "exited", "failed"} => data[c] = <<>>
    BY DEF Stuck, Alive, Ended, Blocked
  <2>4. ASSUME NEW m \in Mapper PROVE data[m] = <<>>
    <3>1. stage[m] # "unborn"
      BY <2>1, <2>2 DEF MainInv, BirthInv
    <3>2. stage[m] \in {"exited", "failed"} => data[m] = <<>>
      BY <2>1 DEF MainInv, MapperInv, HasLine, Waiting
    <3> QED BY <2>3, <3>1, <3>2, Processes
  <2>5. ASSUME NEW r \in Reducer PROVE data[r] = <<>>
    <3>1. CASE stage[r] = "unborn"
      <4>1. parent # "exited"
        BY <2>1, <3>1, Processes DEF MainInv, WaitInv, Ended
      <4>2. parent = "failed"
        BY <2>1, <2>2, <3>1, <4>1 DEF RestInv
      <4>3. Fed = 0
        BY <4>2 DEF Fed
      <4> QED BY <2>1, <4>3, NothingSent, Processes
    <3>2. CASE stage[r] = "exited"
      BY <2>1, <3>2 DEF RestInv
    <3>3. stage[r] # "failed"
      BY <2>1 DEF MainInv, ReducerInv
    <3> QED BY <2>3, <3>1, <3>2, <3>3, Processes
  <2> QED BY <2>4, <2>5, Processes
<1> QED BY <1>1, <1>2

\* as2 hangs only when input.txt has fewer lines than there are mappers, or when
\* fork or fopen failed; a mapper then waits for the end of a pipe that others
\* like it hold open, nothing is in any pipe and no number is printed
\* (as2.c:76-80, 131, 196-241, 275-283).
THEOREM HangsForWantOfLines == NoLoneMapper /\ Spec => []HangsOnlyForWantOfLines
<1> SUFFICES ASSUME NoLoneMapper PROVE Spec => []HangsOnlyForWantOfLines
  OBVIOUS
<1>1. HangInv => HangsOnlyForWantOfLines
  <2> SUFFICES ASSUME HangInv, Stuck
               PROVE  /\ parent = "failed" \/ Len(input) < MAPPER_COUNT
                      /\ \A p \in Pipe : data[p] = <<>>
                      /\ \E m \in Mapper : stage[m] = "reading"
                      /\ printed = <<>>
    BY DEF HangsOnlyForWantOfLines
  <2>1. PICK m \in Mapper : stage[m] = "reading"
    BY SomeMapperReads
  <2>2. printed = <<>>
    BY <2>1 DEF HangInv, RestInv
  <2> QED BY <2>1, <2>2, WantOfLines, NothingLeft, Processes
<1>2. Spec => []HangInv
  BY HangInvHolds
<1> QED BY <1>1, <1>2, PTL
=============================================================================
