----------------------------- MODULE WhaleProofs -----------------------------
(***************************************************************************)
(* Proofs about as1, for any length of a time step.  The three processes   *)
(* share nothing but the time: what keeps their lines in order is that the *)
(* moments a process has slept through and those it was late add up to the *)
(* same for all of them.                                                   *)
(***************************************************************************)
EXTENDS Whale, SequenceTheorems, TLAPS

-----------------------------------------------------------------------------
(* The places in the scripts *)

Code(p) == CASE p = "P0" -> main [] p = "C1" -> run_C1 [] p = "C2" -> run_C2

\* The instruction a process is at; after the last one, the place behind it.
At(p) == Len(Code(p)) - Len(script[p]) + 1

\* The time steps of tock that are behind a process at each place ...
Steps == [P0 |-> <<0, 0, 0, 3, 3, 6, 6, 9, 9, 12, 12, 12, 12>>,
          C1 |-> <<0, 1, 4, 4, 7, 7, 10>>,
          C2 |-> <<0, 2, 5, 5, 8, 8, 11>>]

\* ... and WHALE in its environment.
WhaleAt == [P0 |-> <<7, 7, 7, 7, 7, 7, 4, 4, 1, 1, 1, 1, 0>>,
            C1 |-> <<7, 7, 7, 6, 6, 3, 3>>,
            C2 |-> <<7, 7, 7, 5, 5, 2, 2>>]

-----------------------------------------------------------------------------
(* The inductive invariant *)

PlaceInv ==
  /\ stage \in [Process -> {"unborn", "running", "ending", "zombie", "reaped"}]
  /\ DOMAIN script = Process
  /\ \A p \in Process :
       /\ \E i \in 1 .. Len(Code(p)) + 1 : script[p] = SubSeq(Code(p), i, Len(Code(p)))
       /\ stage[p] = "unborn" => At(p) = 1
       /\ stage[p] \notin {"unborn", "running"} => script[p] = <<>>
  /\ stage["P0"] # "unborn"

\* WHALE is as the process left it, in its own environment.
WhaleInv ==
  /\ whale \in [Process -> Int]
  /\ \A p \in Process : whale[p] = WhaleAt[p][At(p)]

\* The children are forked first and waited for last.
ChildInv ==
  /\ At("P0") = 1 => stage["C1"] = "unborn"
  /\ At("P0") <= 2 => stage["C2"] = "unborn"
  /\ At("P0") >= 2 => failed \/ stage["C1"] # "unborn"
  /\ At("P0") >= 3 => failed \/ stage["C2"] # "unborn"
  /\ At("P0") >= 11 => \E c \in Child : stage[c] \in {"unborn", "reaped"}
  /\ At("P0") >= 12 => \A c \in Child : stage[c] \in {"unborn", "reaped"}

\* The last number is P0's last.
ZeroInv ==
  /\ shrimp \in Seq(Int)
  /\ \A k \in 1 .. Len(shrimp) : shrimp[k] = 0 => At("P0") = 13 /\ k = Len(shrimp)

\* What a process has slept and been late, in moments.
Clock(p) == Grain * Steps[p][At(p)] + late[p] - pause[p]
ClockInv ==
  /\ late \in [Process -> Nat] /\ pause \in [Process -> Nat]
  /\ failed \in BOOLEAN
  /\ At("P0") <= 2 => pause["P0"] = 0
  /\ \A c \in Child : stage[c] = "unborn" => late[c] = 0 /\ pause[c] = 0
  /\ \A c \in Child : stage[c] = "running" /\ At("P0") <= 9 => Clock(c) = Clock("P0")
  /\ stage["C1"] = "running" /\ stage["C2"] = "running" => Clock("C1") = Clock("C2")

\* How many lines there are tells who has come how far.
InTime == ~failed /\ \A p \in Process : late[p] < Grain
OrderInv ==
  InTime =>
    /\ Len(shrimp) <= 8
    /\ \A k \in 1 .. Len(shrimp) : shrimp[k] = 8 - k
    /\ Len(shrimp) >= 1 <=> At("P0") > 4
    /\ Len(shrimp) >= 2 <=> At("C1") > 3
    /\ Len(shrimp) >= 3 <=> At("C2") > 3
    /\ Len(shrimp) >= 4 <=> At("P0") > 6
    /\ Len(shrimp) >= 5 <=> At("C1") > 5
    /\ Len(shrimp) >= 6 <=> At("C2") > 5
    /\ Len(shrimp) >= 7 <=> At("P0") > 8
    /\ Len(shrimp) >= 8 <=> At("P0") > 12

CountInv == PlaceInv /\ WhaleInv /\ ChildInv /\ ZeroInv /\ ClockInv /\ OrderInv

-----------------------------------------------------------------------------
(* The scripts *)

Ops == {fork("C1"), fork("C2"), tock(1), tock(2), tock(3),
        subtract(0), subtract(1), subtract(2), subtract(3), wait}

\* What the processes do, place by place.
LEMMA Codes ==
  /\ Len(Code("P0")) = 12 /\ Len(Code("C1")) = 6 /\ Len(Code("C2")) = 6
  /\ \A p \in Process : Code(p) \in Seq(Ops)
  /\ Code("P0")[1] = fork("C1") /\ Code("P0")[2] = fork("C2")
  /\ Code("P0")[3] = tock(3) /\ Code("P0")[4] = subtract(0)
  /\ Code("P0")[5] = tock(3) /\ Code("P0")[6] = subtract(3)
  /\ Code("P0")[7] = tock(3) /\ Code("P0")[8] = subtract(3) /\ Code("P0")[9] = tock(3)
  /\ Code("P0")[10] = wait /\ Code("P0")[11] = wait /\ Code("P0")[12] = subtract(1)
  /\ Code("C1")[1] = tock(1) /\ Code("C1")[2] = tock(3) /\ Code("C1")[3] = subtract(1)
  /\ Code("C1")[4] = tock(3) /\ Code("C1")[5] = subtract(3) /\ Code("C1")[6] = tock(3)
  /\ Code("C2")[1] = tock(2) /\ Code("C2")[2] = tock(3) /\ Code("C2")[3] = subtract(2)
  /\ Code("C2")[4] = tock(3) /\ Code("C2")[5] = subtract(3) /\ Code("C2")[6] = tock(3)
<1>1. Code("P0") = main /\ Code("C1") = run_C1 /\ Code("C2") = run_C2
  BY DEF Code
<1> DEFINE P == run_parent_process
           f == <<fork("C1"), fork("C2")>>
<1>2. /\ P \in Seq(Ops) /\ Len(P) = 10
      /\ P[1] = tock(3) /\ P[2] = subtract(0) /\ P[3] = tock(3) /\ P[4] = subtract(3)
      /\ P[5] = tock(3) /\ P[6] = subtract(3) /\ P[7] = tock(3)
      /\ P[8] = wait /\ P[9] = wait /\ P[10] = subtract(1)
  <2>1. /\ tock(3) \in Ops /\ subtract(0) \in Ops /\ subtract(3) \in Ops /\ wait \in Ops
        /\ subtract(1) \in Ops
    BY DEF Ops
  <2> QED BY <2>1 DEF run_parent_process
<1>3. f \in Seq(Ops) /\ Len(f) = 2 /\ f[1] = fork("C1") /\ f[2] = fork("C2")
  <2>1. fork("C1") \in Ops /\ fork("C2") \in Ops
    BY DEF Ops
  <2> QED BY <2>1
<1>4. main = f \o P
  BY DEF main
<1>5. /\ main \in Seq(Ops) /\ Len(main) = 12
      /\ \A i \in 1 .. 12 : main[i] = IF i <= 2 THEN f[i] ELSE P[i - 2]
  <2>1. P \in Seq(Ops) /\ f \in Seq(Ops) /\ Len(f) = 2 /\ Len(P) = 10 /\ main = f \o P
    BY <1>2, <1>3, <1>4
  <2> HIDE DEF f, P
  <2>2. /\ f \o P \in Seq(Ops) /\ Len(f \o P) = Len(f) + Len(P)
        /\ \A i \in 1 .. Len(f) + Len(P) :
             (f \o P)[i] = IF i <= Len(f) THEN f[i] ELSE P[i - Len(f)]
    BY <2>1, ConcatProperties
  <2>3. Len(f) + Len(P) = 12
    BY <2>1
  <2> QED BY <2>1, <2>2, <2>3
<1>6. run_C1 \in Seq(Ops) /\ run_C2 \in Seq(Ops)
  <2>1. /\ tock(3) \in Ops /\ tock(1) \in Ops /\ tock(2) \in Ops /\ subtract(3) \in Ops
        /\ subtract(1) \in Ops /\ subtract(2) \in Ops
    BY DEF Ops
  <2> QED BY <2>1 DEF run_C1, run_C2
<1>7. ASSUME NEW p \in Process PROVE Code(p) \in Seq(Ops)
  BY <1>1, <1>5, <1>6 DEF Process, Child
<1>8. Len(run_C1) = 6 /\ Len(run_C2) = 6
  BY DEF run_C1, run_C2
<1>9. /\ Code("C1")[1] = tock(1) /\ Code("C1")[2] = tock(3) /\ Code("C1")[3] = subtract(1)
      /\ Code("C1")[4] = tock(3) /\ Code("C1")[5] = subtract(3) /\ Code("C1")[6] = tock(3)
      /\ Code("C2")[1] = tock(2) /\ Code("C2")[2] = tock(3) /\ Code("C2")[3] = subtract(2)
      /\ Code("C2")[4] = tock(3) /\ Code("C2")[5] = subtract(3) /\ Code("C2")[6] = tock(3)
  BY <1>1 DEF run_C1, run_C2
<1>10. /\ main[1] = f[1] /\ main[2] = f[2]
       /\ main[3] = P[1] /\ main[4] = P[2] /\ main[5] = P[3] /\ main[6] = P[4] /\ main[7] = P[5]
       /\ main[8] = P[6] /\ main[9] = P[7] /\ main[10] = P[8] /\ main[11] = P[9]
       /\ main[12] = P[10]
  <2> HIDE DEF f, P
  <2> QED BY <1>5
<1> HIDE DEF f, P
<1> QED BY <1>1, <1>2, <1>3, <1>5, <1>7, <1>8, <1>9, <1>10

\* Which places are for what.
LEMMA Kinds ==
  /\ \A i \in 1 .. 12 :
       /\ Code("P0")[i].op = "fork" <=> i \in {1, 2}
       /\ Code("P0")[i].op = "tock" <=> i \in {3, 5, 7, 9}
       /\ Code("P0")[i].op = "subtract" <=> i \in {4, 6, 8, 12}
       /\ Code("P0")[i].op = "wait" <=> i \in {10, 11}
  /\ \A c \in Child : \A i \in 1 .. 6 :
       /\ Code(c)[i].op = "tock" <=> i \in {1, 2, 4, 6}
       /\ Code(c)[i].op = "subtract" <=> i \in {3, 5}
       /\ Code(c)[i].op \notin {"fork", "wait"}
<1>1. \A n : tock(n).op = "tock" /\ subtract(n).op = "subtract" /\ fork(n).op = "fork"
  BY DEF tock, subtract, fork
<1>2. wait.op = "wait"
  BY DEF wait
<1>3. \A i \in 1 .. 12 : i \in {1, 2, 3, 4, 5, 6, 7, 8, 9, 10, 11, 12}
  OBVIOUS
<1>4. \A i \in 1 .. 6 : i \in {1, 2, 3, 4, 5, 6}
  OBVIOUS
<1>5. /\ Code("P0")[1].op = "fork" /\ Code("P0")[2].op = "fork"
      /\ Code("P0")[3].op = "tock" /\ Code("P0")[4].op = "subtract"
      /\ Code("P0")[5].op = "tock" /\ Code("P0")[6].op = "subtract"
      /\ Code("P0")[7].op = "tock" /\ Code("P0")[8].op = "subtract" /\ Code("P0")[9].op = "tock"
      /\ Code("P0")[10].op = "wait" /\ Code("P0")[11].op = "wait"
      /\ Code("P0")[12].op = "subtract"
  BY <1>1, <1>2, Codes
<1>6. \A c \in Child :
        /\ Code(c)[1].op = "tock" /\ Code(c)[2].op = "tock" /\ Code(c)[3].op = "subtract"
        /\ Code(c)[4].op = "tock" /\ Code(c)[5].op = "subtract" /\ Code(c)[6].op = "tock"
  BY <1>1, <1>2, Codes DEF Child
<1> QED BY <1>3, <1>4, <1>5, <1>6

\* Sleeping moves a process on in time, subtracting changes WHALE.
LEMMA Tables ==
  ASSUME NEW p \in Process, NEW i \in 1 .. Len(Code(p))
  PROVE  /\ Code(p)[i].op = "tock" =>
              /\ Code(p)[i].n \in Nat
              /\ Steps[p][i + 1] = Steps[p][i] + Code(p)[i].n
              /\ WhaleAt[p][i + 1] = WhaleAt[p][i]
         /\ Code(p)[i].op = "subtract" =>
              /\ Steps[p][i + 1] = Steps[p][i]
              /\ WhaleAt[p][i + 1] = WhaleAt[p][i] - Code(p)[i].n
         /\ Code(p)[i].op \in {"fork", "wait"} =>
              /\ Steps[p][i + 1] = Steps[p][i]
              /\ WhaleAt[p][i + 1] = WhaleAt[p][i]
<1>1. \A n : tock(n).n = n /\ subtract(n).n = n
  BY DEF tock, subtract
<1>2. CASE p = "P0"
  <2>1. i \in 1 .. 12
    BY <1>2, Codes
  <2>2. i \in {1, 2, 3, 4, 5, 6, 7, 8, 9, 10, 11, 12}
    BY <2>1
  <2>3. /\ Code("P0")[3].n = 3 /\ Code("P0")[4].n = 0 /\ Code("P0")[5].n = 3
        /\ Code("P0")[6].n = 3 /\ Code("P0")[7].n = 3 /\ Code("P0")[8].n = 3
        /\ Code("P0")[9].n = 3 /\ Code("P0")[12].n = 1
    BY <1>1, Codes
  <2>4. Steps["P0"] = <<0, 0, 0, 3, 3, 6, 6, 9, 9, 12, 12, 12, 12>>
    BY DEF Steps
  <2>5. WhaleAt["P0"] = <<7, 7, 7, 7, 7, 7, 4, 4, 1, 1, 1, 1, 0>>
    BY DEF WhaleAt
  <2>6. Code("P0")[i].op = "tock" =>
          /\ Code("P0")[i].n \in Nat
          /\ Steps["P0"][i + 1] = Steps["P0"][i] + Code("P0")[i].n
          /\ WhaleAt["P0"][i + 1] = WhaleAt["P0"][i]
    <3>1. Code("P0")[i].op = "tock" => i \in {3, 5, 7, 9}
      BY <2>1, Kinds
    <3> QED BY <2>3, <2>4, <2>5, <3>1
  <2>7. Code("P0")[i].op = "subtract" =>
          /\ Steps["P0"][i + 1] = Steps["P0"][i]
          /\ WhaleAt["P0"][i + 1] = WhaleAt["P0"][i] - Code("P0")[i].n
    <3>1. Code("P0")[i].op = "subtract" => i \in {4, 6, 8, 12}
      BY <2>1, Kinds
    <3> QED BY <2>3, <2>4, <2>5, <3>1
  <2>8. Code("P0")[i].op \in {"fork", "wait"} =>
          /\ Steps["P0"][i + 1] = Steps["P0"][i]
          /\ WhaleAt["P0"][i + 1] = WhaleAt["P0"][i]
    <3>1. Code("P0")[i].op \in {"fork", "wait"} => i \in {1, 2, 10, 11}
      BY <2>1, Kinds
    <3> QED BY <2>4, <2>5, <3>1
  <2> QED BY <1>2, <2>6, <2>7, <2>8
<1>3. CASE p = "C1"
  <2>1. i \in 1 .. 6 /\ p \in Child
    BY <1>3, Codes DEF Child
  <2>2. /\ Code("C1")[1].n = 1 /\ Code("C1")[2].n = 3 /\ Code("C1")[3].n = 1
        /\ Code("C1")[4].n = 3 /\ Code("C1")[5].n = 3 /\ Code("C1")[6].n = 3
    BY <1>1, Codes
  <2>3. Steps["C1"] = <<0, 1, 4, 4, 7, 7, 10>>
    BY DEF Steps
  <2>4. WhaleAt["C1"] = <<7, 7, 7, 6, 6, 3, 3>>
    BY DEF WhaleAt
  <2>5. Code(p)[i].op = "tock" =>
          /\ Code(p)[i].n \in Nat
          /\ Steps[p][i + 1] = Steps[p][i] + Code(p)[i].n
          /\ WhaleAt[p][i + 1] = WhaleAt[p][i]
    <3>1. Code(p)[i].op = "tock" => i \in {1, 2, 4, 6}
      BY <2>1, Kinds
    <3> QED BY <1>3, <2>2, <2>3, <2>4, <3>1
  <2>6. Code(p)[i].op = "subtract" =>
          /\ Steps[p][i + 1] = Steps[p][i]
          /\ WhaleAt[p][i + 1] = WhaleAt[p][i] - Code(p)[i].n
    <3>1. Code(p)[i].op = "subtract" => i \in {3, 5}
      BY <2>1, Kinds
    <3> QED BY <1>3, <2>2, <2>3, <2>4, <3>1
  <2>7. Code(p)[i].op \notin {"fork", "wait"}
    BY <2>1, Kinds
  <2> QED BY <2>5, <2>6, <2>7
<1>4. CASE p = "C2"
  <2>1. i \in 1 .. 6 /\ p \in Child
    BY <1>4, Codes DEF Child
  <2>2. /\ Code("C2")[1].n = 2 /\ Code("C2")[2].n = 3 /\ Code("C2")[3].n = 2
        /\ Code("C2")[4].n = 3 /\ Code("C2")[5].n = 3 /\ Code("C2")[6].n = 3
    BY <1>1, Codes
  <2>3. Steps["C2"] = <<0, 2, 5, 5, 8, 8, 11>>
    BY DEF Steps
  <2>4. WhaleAt["C2"] = <<7, 7, 7, 5, 5, 2, 2>>
    BY DEF WhaleAt
  <2>5. Code(p)[i].op = "tock" =>
          /\ Code(p)[i].n \in Nat
          /\ Steps[p][i + 1] = Steps[p][i] + Code(p)[i].n
          /\ WhaleAt[p][i + 1] = WhaleAt[p][i]
    <3>1. Code(p)[i].op = "tock" => i \in {1, 2, 4, 6}
      BY <2>1, Kinds
    <3> QED BY <1>4, <2>2, <2>3, <2>4, <3>1
  <2>6. Code(p)[i].op = "subtract" =>
          /\ Steps[p][i + 1] = Steps[p][i]
          /\ WhaleAt[p][i + 1] = WhaleAt[p][i] - Code(p)[i].n
    <3>1. Code(p)[i].op = "subtract" => i \in {3, 5}
      BY <2>1, Kinds
    <3> QED BY <1>4, <2>2, <2>3, <2>4, <3>1
  <2>7. Code(p)[i].op \notin {"fork", "wait"}
    BY <2>1, Kinds
  <2> QED BY <2>5, <2>6, <2>7
<1> QED BY <1>2, <1>3, <1>4 DEF Process, Child

\* Where a process is in its script.
LEMMA Places ==
  ASSUME PlaceInv, NEW p \in Process
  PROVE  /\ At(p) \in 1 .. Len(Code(p)) + 1 /\ Len(Code(p)) \in Nat
         /\ script[p] # <<>> <=> At(p) \in 1 .. Len(Code(p))
         /\ script[p] # <<>> =>
              /\ Instruction(p) = Code(p)[At(p)]
              /\ Tail(script[p]) = SubSeq(Code(p), At(p) + 1, Len(Code(p)))
<1>1. PICK i \in 1 .. Len(Code(p)) + 1 : script[p] = SubSeq(Code(p), i, Len(Code(p)))
  BY DEF PlaceInv
<1>2. PICK s \in Seq(Ops) : s = Code(p)
  BY Codes
<1>3. PICK l \in Nat : l = Len(s)
  BY <1>2
<1>4. i \in 1 .. l + 1 /\ script[p] = SubSeq(s, i, l)
  BY <1>1, <1>2, <1>3
<1>5. Len(script[p]) = l - i + 1
  <2>1. \A j \in i .. l : s[j] \in Ops
    BY <1>2, <1>3, <1>4, ElementOfSeq
  <2>2. i \in Int /\ l \in Int
    BY <1>4
  <2>3. Len(SubSeq(s, i, l)) = IF i <= l THEN l - i + 1 ELSE 0
    BY <2>1, <2>2, SubSeqProperties
  <2> QED BY <1>3, <1>4, <2>3
<1>6. At(p) = i
  BY <1>2, <1>3, <1>4, <1>5 DEF At
<1>7. CASE i <= l
  <2>1. i \in 1 .. Len(s) /\ l \in i .. Len(s)
    BY <1>3, <1>4, <1>7
  <2>2. /\ Head(SubSeq(s, i, l)) = s[i]
        /\ Tail(SubSeq(s, i, l)) = SubSeq(s, i + 1, l)
    BY <2>1, HeadTailOfSubSeq
  <2>3. script[p] # <<>>
    <3>1. Len(script[p]) > 0
      BY <1>3, <1>4, <1>5, <1>7
    <3> QED BY <3>1, EmptySeq
  <2> QED BY <1>2, <1>3, <1>4, <1>6, <1>7, <2>2, <2>3 DEF Instruction
<1>8. CASE i = l + 1
  <2>1. script[p] = <<>>
    <3>1. i \in Int /\ l \in Int /\ l < i
      BY <1>3, <1>4, <1>8
    <3> QED BY <1>4, <3>1, SubSeqEmpty
  <2> QED BY <1>2, <1>3, <1>4, <1>6, <1>8, <2>1
<1>9. i <= l \/ i = l + 1
  BY <1>3, <1>4
<1> QED BY <1>7, <1>8, <1>9

\* The rest of a script tells the place.
LEMMA PlaceOf ==
  ASSUME NEW p \in Process, NEW i \in 1 .. Len(Code(p)) + 1, NEW s,
         s = SubSeq(Code(p), i, Len(Code(p)))
  PROVE  Len(Code(p)) - Len(s) + 1 = i
<1>1. PICK code \in Seq(Ops) : code = Code(p)
  BY Codes
<1>2. PICK l \in Nat : l = Len(code)
  BY <1>1
<1>3. i \in 1 .. l + 1 /\ s = SubSeq(code, i, l)
  BY <1>1, <1>2
<1>4. \A j \in i .. l : code[j] \in Ops
  BY <1>2, <1>3, ElementOfSeq
<1>5. i \in Int /\ l \in Int
  BY <1>3
<1>6. Len(SubSeq(code, i, l)) = IF i <= l THEN l - i + 1 ELSE 0
  BY <1>4, <1>5, SubSeqProperties
<1> QED BY <1>1, <1>2, <1>3, <1>6

\* An instruction takes the process to its next place.
LEMMA Advance ==
  ASSUME PlaceInv, NEW p \in Process, script[p] # <<>>, Done(p)
  PROVE  /\ DOMAIN script' = Process
         /\ \A q \in Process :
              \E i \in 1 .. Len(Code(q)) + 1 : script'[q] = SubSeq(Code(q), i, Len(Code(q)))
         /\ At(p)' = At(p) + 1
         /\ \A q \in Process : q # p => At(q)' = At(q) /\ script'[q] = script[q]
<1>1. DOMAIN script = Process
  BY DEF PlaceInv
<1>2. /\ DOMAIN script' = Process /\ script'[p] = Tail(script[p])
      /\ \A q \in Process : q # p => script'[q] = script[q]
  BY <1>1 DEF Done
<1>3. /\ At(p) \in 1 .. Len(Code(p)) /\ Len(Code(p)) \in Nat
      /\ script'[p] = SubSeq(Code(p), At(p) + 1, Len(Code(p)))
  BY <1>2, Places
<1>4. PICK i \in 1 .. Len(Code(p)) + 1 : i = At(p) + 1
  BY <1>3
<1>5. PICK rest : rest = script'[p]
  OBVIOUS
<1>6. Len(Code(p)) - Len(rest) + 1 = i
  BY <1>3, <1>4, <1>5, PlaceOf
<1>7. At(p)' = i
  BY <1>5, <1>6 DEF At
<1>8. \A q \in Process : q # p => At(q)' = At(q)
  BY <1>2 DEF At
<1> QED BY <1>2, <1>3, <1>4, <1>7, <1>8 DEF PlaceInv

\* What a process that does something is at.
LEMMA DoingAt ==
  ASSUME PlaceInv, NEW p \in Process, NEW op, Doing(p, op)
  PROVE  /\ stage[p] = "running" /\ pause[p] = 0 /\ script[p] # <<>>
         /\ Instruction(p) = Code(p)[At(p)] /\ Code(p)[At(p)].op = op
         /\ At(p) \in 1 .. Len(Code(p))
         /\ op = "fork" => p = "P0" /\ At(p) \in {1, 2}
         /\ op = "wait" => p = "P0" /\ At(p) \in {10, 11}
         /\ p = "P0" =>
              /\ op = "tock" => At(p) \in {3, 5, 7, 9}
              /\ op = "subtract" => At(p) \in {4, 6, 8, 12}
              /\ op # "subtract" => At(p) \notin {4, 6, 8, 12}
         /\ p \in Child =>
              /\ op = "tock" => At(p) \in {1, 2, 4, 6}
              /\ op = "subtract" => At(p) \in {3, 5}
              /\ op # "subtract" => At(p) \notin {3, 5}
<1>1. /\ stage[p] = "running" /\ pause[p] = 0 /\ script[p] # <<>>
      /\ Instruction(p).op = op
  BY DEF Doing
<1>2. Instruction(p) = Code(p)[At(p)] /\ At(p) \in 1 .. Len(Code(p))
  BY <1>1, Places
<1>3. Code(p)[At(p)].op = op
  BY <1>1, <1>2
<1>4. p = "P0" => At(p) \in 1 .. 12
  BY <1>2, Codes
<1>5. p \in Child => At(p) \in 1 .. 6
  BY <1>2, Codes DEF Child
<1>6. p = "P0" \/ p \in Child
  BY DEF Process
<1>7. p = "P0" =>
        /\ op = "fork" => At(p) \in {1, 2}
        /\ op = "wait" => At(p) \in {10, 11}
        /\ op = "tock" => At(p) \in {3, 5, 7, 9}
        /\ op = "subtract" => At(p) \in {4, 6, 8, 12}
        /\ op # "subtract" => At(p) \notin {4, 6, 8, 12}
  <2> SUFFICES ASSUME p = "P0", NEW i \in 1 .. 12, i = At(p)
               PROVE  /\ op = "fork" => i \in {1, 2}
                      /\ op = "wait" => i \in {10, 11}
                      /\ op = "tock" => i \in {3, 5, 7, 9}
                      /\ op = "subtract" => i \in {4, 6, 8, 12}
                      /\ op # "subtract" => i \notin {4, 6, 8, 12}
    BY <1>4
  <2>1. Code("P0")[i].op = op
    BY <1>3
  <2>2. /\ op = "fork" <=> i \in {1, 2}
        /\ op = "wait" <=> i \in {10, 11}
        /\ op = "tock" <=> i \in {3, 5, 7, 9}
        /\ op = "subtract" <=> i \in {4, 6, 8, 12}
    BY <2>1, Kinds
  <2> QED BY <2>2
<1>8. p \in Child =>
        /\ op \notin {"fork", "wait"}
        /\ op = "tock" => At(p) \in {1, 2, 4, 6}
        /\ op = "subtract" => At(p) \in {3, 5}
        /\ op # "subtract" => At(p) \notin {3, 5}
  <2> SUFFICES ASSUME p \in Child, NEW i \in 1 .. 6, i = At(p)
               PROVE  /\ op \notin {"fork", "wait"}
                      /\ op = "tock" => i \in {1, 2, 4, 6}
                      /\ op = "subtract" => i \in {3, 5}
                      /\ op # "subtract" => i \notin {3, 5}
    BY <1>5
  <2>1. Code(p)[i].op = op
    BY <1>3
  <2>2. /\ op = "tock" <=> i \in {1, 2, 4, 6}
        /\ op = "subtract" <=> i \in {3, 5}
        /\ op \notin {"fork", "wait"}
    BY <2>1, Kinds
  <2> QED BY <2>2
<1> QED BY <1>1, <1>2, <1>3, <1>6, <1>7, <1>8

\* An instruction that is not a subtraction prints nothing.
LEMMA QuietStep ==
  ASSUME CountInv, NEW p \in Process, NEW op, Doing(p, op), op # "subtract", Done(p),
         UNCHANGED shrimp, InTime' => InTime
  PROVE  ZeroInv' /\ OrderInv'
<1>1. /\ At(p)' = At(p) + 1 /\ At(p) \in Int
      /\ \A q \in Process : q # p => At(q)' = At(q)
  BY Advance, DoingAt DEF CountInv
<1>2. /\ p = "P0" => At(p) \notin {4, 6, 8, 12} /\ At(p) \in 1 .. 12
      /\ p \in Child => At(p) \notin {3, 5}
  BY DoingAt, Codes DEF CountInv
<1>3. /\ "P0" \in Process /\ "C1" \in Process /\ "C2" \in Process
      /\ "C1" \in Child /\ "C2" \in Child
  BY DEF Process, Child
<1>4. /\ At("P0")' > 4 <=> At("P0") > 4
      /\ At("P0")' > 6 <=> At("P0") > 6
      /\ At("P0")' > 8 <=> At("P0") > 8
      /\ At("P0")' > 12 <=> At("P0") > 12
      /\ At("P0") = 13 => At("P0")' = 13
  BY <1>1, <1>2, <1>3
<1>5. \A c \in Child :
        /\ At(c)' > 3 <=> At(c) > 3
        /\ At(c)' > 5 <=> At(c) > 5
  <2> SUFFICES ASSUME NEW c \in Child
               PROVE  (At(c)' > 3 <=> At(c) > 3) /\ (At(c)' > 5 <=> At(c) > 5)
    OBVIOUS
  <2>1. CASE c = p
    BY <1>1, <1>2, <2>1
  <2>2. CASE c # p
    BY <1>1, <2>2 DEF Process
  <2> QED BY <2>1, <2>2
<1>6. ZeroInv'
  BY <1>4 DEF CountInv, ZeroInv
<1>7. OrderInv'
  <2> SUFFICES ASSUME InTime'
               PROVE  OrderInv'
    BY DEF OrderInv
  <2>1. InTime /\ OrderInv /\ shrimp' = shrimp /\ Len(shrimp)' = Len(shrimp)
    BY DEF CountInv
  <2> QED BY <1>3, <1>4, <1>5, <2>1 DEF OrderInv
<1> QED BY <1>6, <1>7

\* Nor does a step that is none.
LEMMA IdleStep ==
  ASSUME CountInv, UNCHANGED <<script, shrimp>>, InTime' => InTime
  PROVE  ZeroInv' /\ OrderInv'
<1>1. \A p : At(p)' = At(p)
  BY DEF At
<1> QED BY <1>1 DEF CountInv, ZeroInv, OrderInv

-----------------------------------------------------------------------------
(* The time *)

LEMMA Ranges ==
  ASSUME NEW p \in Process, NEW i \in 1 .. Len(Code(p)) + 1
  PROVE  Steps[p][i] \in Nat /\ WhaleAt[p][i] \in Int
<1>1. CASE p = "P0"
  <2>1. i \in {1, 2, 3, 4, 5, 6, 7, 8, 9, 10, 11, 12, 13}
    <3>1. Len(Code(p)) = 12
      BY <1>1, Codes
    <3>2. PICK l \in Nat : l = Len(Code(p))
      BY <3>1
    <3> QED BY <3>1, <3>2
  <2>2. Steps["P0"] = <<0, 0, 0, 3, 3, 6, 6, 9, 9, 12, 12, 12, 12>>
    BY DEF Steps
  <2>3. WhaleAt["P0"] = <<7, 7, 7, 7, 7, 7, 4, 4, 1, 1, 1, 1, 0>>
    BY DEF WhaleAt
  <2> QED BY <1>1, <2>1, <2>2, <2>3
<1>2. CASE p = "C1"
  <2>1. i \in {1, 2, 3, 4, 5, 6, 7}
    <3>1. Len(Code(p)) = 6
      BY <1>2, Codes
    <3>2. PICK l \in Nat : l = Len(Code(p))
      BY <3>1
    <3> QED BY <3>1, <3>2
  <2>2. Steps["C1"] = <<0, 1, 4, 4, 7, 7, 10>>
    BY DEF Steps
  <2>3. WhaleAt["C1"] = <<7, 7, 7, 6, 6, 3, 3>>
    BY DEF WhaleAt
  <2> QED BY <1>2, <2>1, <2>2, <2>3
<1>3. CASE p = "C2"
  <2>1. i \in {1, 2, 3, 4, 5, 6, 7}
    <3>1. Len(Code(p)) = 6
      BY <1>3, Codes
    <3>2. PICK l \in Nat : l = Len(Code(p))
      BY <3>1
    <3> QED BY <3>1, <3>2
  <2>2. Steps["C2"] = <<0, 2, 5, 5, 8, 8, 11>>
    BY DEF Steps
  <2>3. WhaleAt["C2"] = <<7, 7, 7, 5, 5, 2, 2>>
    BY DEF WhaleAt
  <2> QED BY <1>3, <2>1, <2>2, <2>3
<1> QED BY <1>1, <1>2, <1>3 DEF Process, Child

\* Who is next to print has slept for longer than who has not yet printed before.
LEMMA Pauses ==
  /\ \A i \in 1 .. 13 :
       /\ i <= 3 => Steps["P0"][i] = 0
       /\ i <= 4 => Steps["P0"][i] <= 3
       /\ i <= 6 => Steps["P0"][i] <= 6
       /\ i = 6 => Steps["P0"][i] = 6
       /\ i = 8 => Steps["P0"][i] = 9
  /\ \A i \in 1 .. 7 :
       /\ i = 1 => Steps["C1"][i] = 0 /\ Steps["C2"][i] = 0
       /\ i <= 3 => Steps["C1"][i] <= 4 /\ Steps["C2"][i] <= 5
       /\ i <= 5 => Steps["C1"][i] <= 7 /\ Steps["C2"][i] <= 8
       /\ i = 3 => Steps["C1"][i] = 4 /\ Steps["C2"][i] = 5
       /\ i = 5 => Steps["C1"][i] = 7 /\ Steps["C2"][i] = 8
<1>1. /\ Steps["P0"] = <<0, 0, 0, 3, 3, 6, 6, 9, 9, 12, 12, 12, 12>>
      /\ Steps["C1"] = <<0, 1, 4, 4, 7, 7, 10>>
      /\ Steps["C2"] = <<0, 2, 5, 5, 8, 8, 11>>
  BY DEF Steps
<1>2. \A i \in 1 .. 13 :
        /\ i <= 3 => i \in {1, 2, 3}
        /\ i <= 4 => i \in {1, 2, 3, 4}
        /\ i <= 6 => i \in {1, 2, 3, 4, 5, 6}
  OBVIOUS
<1>3. \A i \in 1 .. 7 :
        /\ i <= 3 => i \in {1, 2, 3}
        /\ i <= 5 => i \in {1, 2, 3, 4, 5}
  OBVIOUS
<1>4. \A i \in 1 .. 13 :
        /\ i <= 3 => Steps["P0"][i] = 0
        /\ i <= 4 => Steps["P0"][i] <= 3
        /\ i <= 6 => Steps["P0"][i] <= 6
        /\ i = 6 => Steps["P0"][i] = 6
        /\ i = 8 => Steps["P0"][i] = 9
  BY <1>1, <1>2
<1>5. \A i \in 1 .. 7 :
        /\ i = 1 => Steps["C1"][i] = 0 /\ Steps["C2"][i] = 0
        /\ i <= 3 => Steps["C1"][i] <= 4 /\ Steps["C2"][i] <= 5
        /\ i <= 5 => Steps["C1"][i] <= 7 /\ Steps["C2"][i] <= 8
        /\ i = 3 => Steps["C1"][i] = 4 /\ Steps["C2"][i] = 5
        /\ i = 5 => Steps["C1"][i] = 7 /\ Steps["C2"][i] = 8
  BY <1>1, <1>3
<1> QED BY <1>4, <1>5

\* Time steps take Grain moments each.
LEMMA Grains ==
  /\ Grain \in Nat /\ Grain >= 1
  /\ \A a \in Nat : Grain * a \in Nat
  /\ \A a, b \in Nat : Grain * (a + b) = Grain * a + Grain * b
  /\ \A a, b \in Nat : a < b => Grain * a + Grain <= Grain * b
<1>1. Grain \in Nat /\ Grain >= 1
  BY WhaleAssumption
<1> DEFINE G == Grain
<1> SUFFICES ASSUME NEW g \in Nat, g >= 1
             PROVE  /\ \A a \in Nat : g * a \in Nat
                    /\ \A a, b \in Nat : g * (a + b) = g * a + g * b
                    /\ \A a, b \in Nat : a < b => g * a + g <= g * b
  BY <1>1
<1>2. \A a \in Nat : g * a \in Nat
  OBVIOUS
<1>3. \A a, b \in Nat : g * (a + b) = g * a + g * b
  OBVIOUS
<1>4. ASSUME NEW a \in Nat, NEW b \in Nat, a < b
      PROVE  g * a + g <= g * b
  <2>1. PICK c \in Nat : b = (a + 1) + c
    <3>1. b - (a + 1) \in Nat /\ b = (a + 1) + (b - (a + 1))
      BY <1>4
    <3> QED BY <3>1
  <2>2. g * b = g * (a + 1) + g * c /\ g * c \in Nat /\ g * (a + 1) = g * a + g * 1
    BY <1>2, <1>3, <2>1
  <2> QED BY <2>2
<1> QED BY <1>2, <1>3, <1>4

\* Who would have to be behind by a time step is not, if late for less than one.
LEMMA NotBehind ==
  ASSUME CountInv, InTime, NEW p \in Process, NEW q \in Process, pause[p] = 0,
         Clock(p) = Clock(q),
         Steps[q][At(q)] < Steps[p][At(p)]
  PROVE  FALSE
<1>1. Steps[p][At(p)] \in Nat /\ Steps[q][At(q)] \in Nat
  BY Places, Ranges DEF CountInv
<1>2. PICK a \in Nat, b \in Nat : a = Steps[q][At(q)] /\ b = Steps[p][At(p)]
  BY <1>1
<1>3. Grain * a + Grain <= Grain * b /\ Grain * a \in Nat /\ Grain * b \in Nat /\ Grain \in Nat
  BY <1>2, Grains
<1>4. late[p] \in Nat /\ late[q] \in Nat /\ pause[q] \in Nat /\ late[q] < Grain
  BY DEF CountInv, ClockInv, InTime
<1>5. Grain * b + late[p] - 0 = Grain * a + late[q] - pause[q]
  BY <1>2 DEF Clock
<1> QED BY <1>3, <1>4, <1>5

\* A process that does something is running, and so is P0 until its end.
LEMMA Running ==
  ASSUME CountInv
  PROVE  /\ \A p \in Process :
              /\ stage[p] = "unborn" => At(p) = 1
              /\ At(p) <= Len(Code(p)) => stage[p] \in {"unborn", "running"}
         /\ At("P0") <= 12 => stage["P0"] = "running"
<1>1. ASSUME NEW p \in Process
      PROVE  /\ stage[p] = "unborn" => At(p) = 1
             /\ At(p) <= Len(Code(p)) => stage[p] \in {"unborn", "running"}
  <2>1. At(p) <= Len(Code(p)) => script[p] # <<>>
    BY Places DEF CountInv
  <2> QED BY <2>1 DEF CountInv, PlaceInv
<1>2. stage["P0"] # "unborn" /\ "P0" \in Process /\ Len(Code("P0")) = 12
  BY Codes DEF CountInv, PlaceInv, Process
<1> QED BY <1>1, <1>2

-----------------------------------------------------------------------------
(* The steps *)

LEMMA TockStep ==
  ASSUME CountInv, NEW p \in Process, Tock(p)
  PROVE  CountInv'
<1>1. /\ Doing(p, "tock") /\ Done(p)
      /\ pause' = [pause EXCEPT ![p] = Grain * Instruction(p).n]
      /\ UNCHANGED <<stage, whale, late, shrimp, failed>>
  BY DEF Tock
<1>2. /\ stage[p] = "running" /\ pause[p] = 0 /\ script[p] # <<>>
      /\ Instruction(p) = Code(p)[At(p)] /\ Code(p)[At(p)].op = "tock"
      /\ At(p) \in 1 .. Len(Code(p))
      /\ p = "P0" => At(p) \in {3, 5, 7, 9}
  BY <1>1, DoingAt DEF CountInv
<1>3. /\ DOMAIN script' = Process
      /\ \A q \in Process :
           \E i \in 1 .. Len(Code(q)) + 1 : script'[q] = SubSeq(Code(q), i, Len(Code(q)))
      /\ At(p)' = At(p) + 1
      /\ \A q \in Process : q # p => At(q)' = At(q) /\ script'[q] = script[q]
  BY <1>1, <1>2, Advance DEF CountInv
<1>4. /\ Instruction(p).n \in Nat
      /\ Steps[p][At(p) + 1] = Steps[p][At(p)] + Instruction(p).n
      /\ WhaleAt[p][At(p) + 1] = WhaleAt[p][At(p)]
      /\ Steps[p][At(p)] \in Nat
  <2>1. At(p) \in 1 .. Len(Code(p)) + 1
    BY Places DEF CountInv
  <2> QED BY <1>2, <2>1, Tables, Ranges
<1>5. PlaceInv'
  BY <1>1, <1>2, <1>3 DEF CountInv, PlaceInv
<1>6. WhaleInv'
  BY <1>1, <1>3, <1>4 DEF CountInv, WhaleInv
<1>7. (p # "P0" /\ At("P0")' = At("P0")) \/ (p = "P0" /\ At("P0") \in {3, 5, 7, 9} /\ At("P0")' = At("P0") + 1)
  BY <1>2, <1>3 DEF Process
<1>8. ChildInv'
  BY <1>1, <1>7 DEF CountInv, ChildInv
<1>9. ZeroInv' /\ OrderInv'
  BY <1>1, QuietStep DEF InTime
<1>10. \A q \in Process : Clock(q)' = Clock(q)
  <2> SUFFICES ASSUME NEW q \in Process
               PROVE  Clock(q)' = Clock(q)
    OBVIOUS
  <2>1. CASE q # p
    BY <1>1, <1>3, <2>1 DEF Clock
  <2>2. CASE q = p
    <3>1. PICK S \in Nat, n \in Nat : S = Steps[p][At(p)] /\ n = Instruction(p).n
      BY <1>4
    <3>2. pause \in [Process -> Nat] /\ late[p] \in Nat
      BY DEF CountInv, ClockInv
    <3>3. Clock(p) = Grain * S + late[p] - 0
      BY <1>2, <3>1 DEF Clock
    <3>4. Clock(p)' = Grain * (S + n) + late[p] - Grain * n
      BY <1>1, <1>3, <1>4, <3>1, <3>2 DEF Clock
    <3>5. /\ Grain * (S + n) = Grain * S + Grain * n
          /\ Grain * S \in Nat /\ Grain * n \in Nat
      BY Grains
    <3> QED BY <2>2, <3>2, <3>3, <3>4, <3>5
  <2> QED BY <2>1, <2>2
<1>11. ClockInv'
  <2>1. pause' \in [Process -> Nat]
    <3>1. PICK n \in Nat : n = Grain * Instruction(p).n
      BY <1>4, Grains
    <3> QED BY <1>1, <3>1 DEF CountInv, ClockInv
  <2>2. At("P0")' <= 2 => pause'["P0"] = 0
    BY <1>1, <1>7 DEF CountInv, ClockInv
  <2>3. \A c \in Child : stage[c] = "unborn" => late[c] = 0 /\ pause'[c] = 0
    BY <1>1, <1>2 DEF CountInv, ClockInv
  <2>4. At("P0")' <= 9 => At("P0") <= 9
    BY <1>7
  <2> QED BY <1>1, <1>10, <2>1, <2>2, <2>3, <2>4 DEF CountInv, ClockInv, Process, Child
<1> QED BY <1>5, <1>6, <1>8, <1>9, <1>11 DEF CountInv

LEMMA FinishStep ==
  ASSUME CountInv, NEW p \in Process, Finish(p) \/ Exit(p)
  PROVE  CountInv'
<1>1. /\ stage[p] \in {"running", "ending"} /\ script[p] = <<>>
      /\ stage' = [stage EXCEPT ![p] = stage'[p]]
      /\ stage'[p] \in {"ending", "zombie", "reaped"}
      /\ UNCHANGED <<script, whale, pause, late, shrimp, failed>>
  BY DEF Finish, Exit, CountInv, PlaceInv
<1>2. \A q : At(q)' = At(q) /\ Clock(q)' = Clock(q)
  BY <1>1 DEF At, Clock
<1>3. \A q \in Process : stage'[q] = stage[q] \/ q = p
  BY <1>1 DEF CountInv, PlaceInv
<1>4. PlaceInv'
  <2>1. stage' \in [Process -> {"unborn", "running", "ending", "zombie", "reaped"}]
    BY <1>1 DEF CountInv, PlaceInv
  <2>2. ASSUME NEW q \in Process
        PROVE  /\ \E i \in 1 .. Len(Code(q)) + 1 : script[q] = SubSeq(Code(q), i, Len(Code(q)))
               /\ stage'[q] = "unborn" => At(q)' = 1
               /\ stage'[q] \notin {"unborn", "running"} => script[q] = <<>>
    BY <1>1, <1>2, <1>3 DEF CountInv, PlaceInv
  <2>3. stage'["P0"] # "unborn"
    BY <1>1, <1>3 DEF CountInv, PlaceInv, Process
  <2> QED BY <1>1, <2>1, <2>2, <2>3 DEF CountInv, PlaceInv
<1>5. WhaleInv'
  BY <1>1, <1>2 DEF CountInv, WhaleInv
<1>6. ChildInv'
  BY <1>1, <1>2, <1>3 DEF CountInv, ChildInv, Process, Child
<1>7. ZeroInv' /\ OrderInv'
  BY <1>1, IdleStep DEF InTime
<1>8. ClockInv'
  BY <1>1, <1>2, <1>3 DEF CountInv, ClockInv, Process, Child
<1> QED BY <1>4, <1>5, <1>6, <1>7, <1>8 DEF CountInv

LEMMA ForkStep ==
  ASSUME CountInv, Fork
  PROVE  CountInv'
<1>1. /\ Doing("P0", "fork") /\ Done("P0")
      /\ UNCHANGED <<pause, shrimp>>
  BY DEF Fork
<1>2. /\ stage["P0"] = "running" /\ script["P0"] # <<>>
      /\ Instruction("P0") = Code("P0")[At("P0")] /\ At("P0") \in {1, 2}
      /\ Code("P0")[At("P0")].op = "fork"
      /\ At("P0") \in 1 .. Len(Code("P0"))
  BY <1>1, DoingAt DEF CountInv, Process
<1>3. /\ DOMAIN script' = Process
      /\ \A q \in Process :
           \E i \in 1 .. Len(Code(q)) + 1 : script'[q] = SubSeq(Code(q), i, Len(Code(q)))
      /\ At("P0")' = At("P0") + 1
      /\ \A q \in Process : q # "P0" => At(q)' = At(q) /\ script'[q] = script[q]
  <2>1. "P0" \in Process /\ PlaceInv
    BY DEF Process, CountInv
  <2> QED BY <1>1, <1>2, <2>1, Advance
<1>4. PICK c : c = Instruction("P0").child
  OBVIOUS
<1>5. c = IF At("P0") = 1 THEN "C1" ELSE "C2"
  <2>1. fork("C1").child = "C1" /\ fork("C2").child = "C2"
    BY DEF fork
  <2>2. At("P0") = 1 => Instruction("P0") = fork("C1")
    BY <1>2, Codes
  <2>3. At("P0") = 2 => Instruction("P0") = fork("C2")
    BY <1>2, Codes
  <2> QED BY <1>2, <1>4, <2>1, <2>2, <2>3
<1>6. /\ c \in Child /\ c \in Process /\ c # "P0"
      /\ stage[c] = "unborn" /\ At(c) = 1 /\ late[c] = 0 /\ pause[c] = 0
  BY <1>2, <1>5 DEF CountInv, PlaceInv, ChildInv, ClockInv, Process, Child
<1>7. \/ /\ stage' = [stage EXCEPT ![c] = "running"]
         /\ whale' = [whale EXCEPT ![c] = whale["P0"]]
         /\ late' = [late EXCEPT ![c] = late["P0"]]
         /\ UNCHANGED failed
      \/ failed' = TRUE /\ UNCHANGED <<stage, whale, late>>
  BY <1>4 DEF Fork
<1>8. At("P0")' \in {2, 3} /\ (At("P0")' = 3 <=> c = "C2") /\ (At("P0")' = 2 <=> c = "C1")
  BY <1>2, <1>3, <1>5
<1>9. /\ stage' \in [Process -> {"unborn", "running", "ending", "zombie", "reaped"}]
      /\ \A q \in Process : q # c => stage'[q] = stage[q]
      /\ stage'[c] \in {"unborn", "running"}
      /\ failed' \/ (failed' = failed /\ stage'[c] = "running")
  BY <1>6, <1>7 DEF CountInv, PlaceInv
<1>10. \A q \in Process : q # "P0" => At(q)' = At(q)
  BY <1>3
<1>11. PlaceInv'
  <2>1. ASSUME NEW q \in Process
        PROVE  /\ stage'[q] = "unborn" => At(q)' = 1
               /\ stage'[q] \notin {"unborn", "running"} => script'[q] = <<>>
    <3>1. CASE q = c
      BY <1>6, <1>9, <1>10, <3>1
    <3>2. CASE q = "P0"
      BY <1>2, <1>6, <1>9, <3>2 DEF Process
    <3>3. CASE q # c /\ q # "P0"
      BY <1>3, <1>9, <1>10, <3>3 DEF CountInv, PlaceInv
    <3> QED BY <3>1, <3>2, <3>3
  <2>2. stage'["P0"] # "unborn"
    BY <1>2, <1>6, <1>9 DEF Process
  <2> QED BY <1>3, <1>9, <2>1, <2>2 DEF PlaceInv
<1>12. WhaleInv'
  <2>1. whale["P0"] = WhaleAt["P0"][At("P0")] /\ WhaleAt["P0"][At("P0")] = 7
    <3>1. WhaleAt["P0"] = <<7, 7, 7, 7, 7, 7, 4, 4, 1, 1, 1, 1, 0>>
      BY DEF WhaleAt
    <3>2. WhaleAt["P0"][1] = 7 /\ WhaleAt["P0"][2] = 7 /\ WhaleAt["P0"][3] = 7
      BY <3>1
    <3> QED BY <1>2, <3>2 DEF CountInv, WhaleInv, Process
  <2>2. WhaleAt["P0"][At("P0") + 1] = 7
    <3>1. WhaleAt["P0"] = <<7, 7, 7, 7, 7, 7, 4, 4, 1, 1, 1, 1, 0>>
      BY DEF WhaleAt
    <3>2. WhaleAt["P0"][1] = 7 /\ WhaleAt["P0"][2] = 7 /\ WhaleAt["P0"][3] = 7
      BY <3>1
    <3> QED BY <1>2, <3>2
  <2>3. WhaleAt[c][1] = 7
    <3>1. WhaleAt["C1"] = <<7, 7, 7, 6, 6, 3, 3>> /\ WhaleAt["C2"] = <<7, 7, 7, 5, 5, 2, 2>>
      BY DEF WhaleAt
    <3>2. WhaleAt["C1"][1] = 7 /\ WhaleAt["C2"][1] = 7
      BY <3>1
    <3> QED BY <1>5, <3>2
  <2>4. /\ whale' \in [Process -> Int]
        /\ whale'[c] = 7
        /\ \A q \in Process : q # c => whale'[q] = whale[q]
    BY <1>6, <1>7, <2>1, <2>3 DEF CountInv, WhaleInv, Process
  <2>5. ASSUME NEW q \in Process
        PROVE  whale'[q] = WhaleAt[q][At(q)']
    <3>1. CASE q = c
      BY <1>6, <1>10, <2>3, <2>4, <3>1
    <3>2. CASE q = "P0"
      BY <1>3, <1>6, <2>1, <2>2, <2>4, <3>2
    <3>3. CASE q # c /\ q # "P0"
      BY <1>10, <2>4, <3>3 DEF CountInv, WhaleInv
    <3> QED BY <3>1, <3>2, <3>3
  <2> QED BY <2>4, <2>5 DEF WhaleInv
<1>13. ChildInv'
  <2>1. At("P0")' <= 2 => stage'["C2"] = "unborn"
    BY <1>2, <1>3, <1>8, <1>9 DEF CountInv, ChildInv, Process, Child
  <2>2. At("P0")' >= 2 => failed' \/ stage'["C1"] # "unborn"
    BY <1>2, <1>3, <1>8, <1>9 DEF CountInv, ChildInv, Process, Child
  <2>3. At("P0")' >= 3 => failed' \/ stage'["C2"] # "unborn"
    BY <1>2, <1>3, <1>8, <1>9 DEF CountInv, ChildInv, Process, Child
  <2> QED BY <1>8, <2>1, <2>2, <2>3 DEF ChildInv
<1>14. ZeroInv' /\ OrderInv'
  <2>1. InTime' => InTime
    <3> SUFFICES ASSUME InTime'
                 PROVE  InTime
      OBVIOUS
    <3>1. ~failed' /\ \A q \in Process : late'[q] < Grain
      BY DEF InTime
    <3>2. ~failed
      BY <1>7, <3>1
    <3>3. \A q \in Process : q # c => late'[q] = late[q]
      BY <1>6, <1>7 DEF CountInv, ClockInv
    <3>4. late[c] < Grain
      BY <1>6, WhaleAssumption
    <3> QED BY <3>1, <3>2, <3>3, <3>4 DEF InTime
  <2> QED BY <1>1, <2>1, QuietStep DEF Process
<1>15. ClockInv'
  <2>1. /\ late' \in [Process -> Nat] /\ failed' \in BOOLEAN
        /\ \A q \in Process : q # c => late'[q] = late[q]
        /\ stage'[c] = "running" => late'[c] = late["P0"]
        /\ stage'[c] = "unborn" => late'[c] = 0
    BY <1>6, <1>7 DEF CountInv, ClockInv, PlaceInv, Process
  <2>2. pause["P0"] = 0
    BY <1>2 DEF CountInv, ClockInv
  <2>3. \A d \in Child : stage'[d] = "unborn" => late'[d] = 0 /\ pause'[d] = 0
    BY <1>1, <1>6, <1>9, <2>1 DEF CountInv, ClockInv, Process
  <2>4. Clock("P0")' = Clock("P0") /\ Clock("P0") = late["P0"]
    <3>1. Steps["P0"][At("P0")] = 0 /\ Steps["P0"][At("P0")'] = 0
      <4>1. At("P0") \in 1 .. 13 /\ At("P0")' \in 1 .. 13 /\ At("P0") <= 3 /\ At("P0")' <= 3
        BY <1>2, <1>8
      <4>2. PICK i \in 1 .. 13, j \in 1 .. 13 : i = At("P0") /\ j = At("P0")'
        BY <4>1
      <4> QED BY <4>1, <4>2, Pauses
    <3>2. late["P0"] \in Nat /\ late'["P0"] = late["P0"] /\ Grain * 0 = 0
      BY <1>6, <2>1, Grains DEF CountInv, ClockInv, Process
    <3> QED BY <1>1, <2>2, <3>1, <3>2 DEF Clock
  <2>5. stage'[c] = "running" => Clock(c)' = Clock("P0")'
    <3>1. At(c)' = 1 /\ Steps[c][1] = 0
      <4>1. 1 \in 1 .. 7
        OBVIOUS
      <4>2. Steps["C1"][1] = 0 /\ Steps["C2"][1] = 0
        BY <4>1, Pauses
      <4>3. At(c)' = 1
        BY <1>6, <1>10
      <4> QED BY <1>5, <4>2, <4>3
    <3>2. late["P0"] \in Nat /\ Grain * 0 = 0
      BY <2>1, Grains DEF CountInv, ClockInv, Process
    <3>3. stage'[c] = "running" => late'[c] = late["P0"] /\ pause'[c] = 0
      BY <1>1, <1>6, <2>1
    <3>4. Clock(c)' = Grain * Steps[c][At(c)'] + late'[c] - pause'[c]
      BY DEF Clock
    <3> QED BY <2>4, <3>1, <3>2, <3>3, <3>4
  <2>6. \A d \in Child : d # c => Clock(d)' = Clock(d)
    BY <1>1, <1>10, <2>1 DEF Clock, Process, Child
  <2>7. \A d \in Child : stage'[d] = "running" => Clock(d)' = Clock("P0")'
    <3> SUFFICES ASSUME NEW d \in Child, stage'[d] = "running"
                 PROVE  Clock(d)' = Clock("P0")'
      OBVIOUS
    <3>1. CASE d = c
      BY <2>5, <3>1
    <3>2. CASE d # c
      <4>1. stage[d] = "running"
        BY <1>9, <3>2 DEF Process
      <4>2. At("P0") <= 9
        BY <1>2
      <4>3. Clock(d) = Clock("P0")
        BY <4>1, <4>2 DEF CountInv, ClockInv
      <4> QED BY <2>4, <2>6, <3>2, <4>3
    <3> QED BY <3>1, <3>2
  <2>8. stage'["C1"] = "running" /\ stage'["C2"] = "running" => Clock("C1")' = Clock("C2")'
    BY <2>7 DEF Child
  <2> QED BY <1>1, <2>1, <2>2, <2>3, <2>7, <2>8 DEF CountInv, ClockInv
<1> QED BY <1>11, <1>12, <1>13, <1>14, <1>15 DEF CountInv

LEMMA WaitStep ==
  ASSUME CountInv, Wait
  PROVE  CountInv'
<1>1. /\ Doing("P0", "wait") /\ Done("P0")
      /\ UNCHANGED <<whale, pause, late, shrimp, failed>>
  BY DEF Wait
<1>2. /\ stage["P0"] = "running" /\ script["P0"] # <<>>
      /\ Instruction("P0") = Code("P0")[At("P0")] /\ At("P0") \in {10, 11}
      /\ Code("P0")[At("P0")].op = "wait"
      /\ At("P0") \in 1 .. Len(Code("P0"))
  BY <1>1, DoingAt DEF CountInv, Process
<1>3. /\ DOMAIN script' = Process
      /\ \A q \in Process :
           \E i \in 1 .. Len(Code(q)) + 1 : script'[q] = SubSeq(Code(q), i, Len(Code(q)))
      /\ At("P0")' = At("P0") + 1
      /\ \A q \in Process : q # "P0" => At(q)' = At(q) /\ script'[q] = script[q]
  <2>1. "P0" \in Process /\ PlaceInv
    BY DEF Process, CountInv
  <2> QED BY <1>1, <1>2, <2>1, Advance
<1>4. \/ \E c \in Zombies : stage' = [stage EXCEPT ![c] = "reaped"]
      \/ (\A c \in Child : stage[c] \in {"unborn", "reaped"}) /\ stage' = stage
  BY DEF Wait
<1>5. /\ stage' \in [Process -> {"unborn", "running", "ending", "zombie", "reaped"}]
      /\ \A q \in Process : stage'[q] = stage[q] \/
                           (q \in Child /\ stage[q] = "zombie" /\ stage'[q] = "reaped")
  BY <1>4 DEF CountInv, PlaceInv, Zombies
<1>6. At("P0")' \in {11, 12}
  BY <1>2, <1>3
<1>7. PlaceInv'
  <2>1. ASSUME NEW q \in Process
        PROVE  /\ stage'[q] = "unborn" => At(q)' = 1
               /\ stage'[q] \notin {"unborn", "running"} => script'[q] = <<>>
    <3>1. CASE q = "P0"
      BY <1>2, <1>5, <3>1 DEF Child
    <3>2. CASE q # "P0"
      BY <1>3, <1>5, <3>2 DEF CountInv, PlaceInv
    <3> QED BY <3>1, <3>2
  <2>2. stage'["P0"] # "unborn"
    BY <1>2, <1>5 DEF Process, Child
  <2> QED BY <1>3, <1>5, <2>1, <2>2 DEF PlaceInv
<1>8. /\ Steps["P0"][At("P0") + 1] = Steps["P0"][At("P0")]
      /\ WhaleAt["P0"][At("P0") + 1] = WhaleAt["P0"][At("P0")]
  BY <1>2, Tables DEF Process
<1>9. WhaleInv'
  BY <1>1, <1>3, <1>8 DEF CountInv, WhaleInv
<1>10. ChildInv'
  <2>1. stage'["C1"] # "unborn" \/ failed'
    BY <1>1, <1>2, <1>5 DEF CountInv, ChildInv, Process, Child
  <2>2. stage'["C2"] # "unborn" \/ failed'
    BY <1>1, <1>2, <1>5 DEF CountInv, ChildInv, Process, Child
  <2>3. \E c \in Child : stage'[c] \in {"unborn", "reaped"}
    BY <1>4 DEF CountInv, PlaceInv, Process, Child, Zombies
  <2>4. ASSUME At("P0")' = 12
        PROVE  \A c \in Child : stage'[c] \in {"unborn", "reaped"}
    <3>1. PICK d \in Child : stage[d] \in {"unborn", "reaped"}
      BY <1>2, <1>3, <2>4 DEF CountInv, ChildInv
    <3>2. CASE \E c \in Zombies : stage' = [stage EXCEPT ![c] = "reaped"]
      <4>1. PICK e \in Child : stage[e] = "zombie" /\ stage' = [stage EXCEPT ![e] = "reaped"]
        BY <3>2 DEF Zombies
      <4>2. Child = {d, e}
        BY <3>1, <4>1 DEF Child
      <4>3. stage'[d] \in {"unborn", "reaped"} /\ stage'[e] \in {"unborn", "reaped"}
        BY <3>1, <4>1 DEF CountInv, PlaceInv, Process
      <4> QED BY <4>2, <4>3
    <3>3. CASE (\A c \in Child : stage[c] \in {"unborn", "reaped"}) /\ stage' = stage
      BY <3>3
    <3> QED BY <1>4, <3>2, <3>3
  <2> QED BY <1>6, <2>1, <2>2, <2>3, <2>4 DEF ChildInv
<1>11. ZeroInv' /\ OrderInv'
  BY <1>1, QuietStep DEF InTime, Process
<1>12. ClockInv'
  <2>1. \A c \in Child : Clock(c)' = Clock(c)
    BY <1>1, <1>3 DEF Clock, Process, Child
  <2>2. \A c \in Child : /\ stage'[c] = "running" => stage[c] = "running"
                         /\ stage'[c] = "unborn" => stage[c] = "unborn"
    BY <1>5 DEF Process
  <2> QED BY <1>1, <1>6, <2>1, <2>2 DEF CountInv, ClockInv, Child
<1> QED BY <1>7, <1>9, <1>10, <1>11, <1>12 DEF CountInv

\* What the subtractions print.
LEMMA Printed ==
  /\ WhaleAt["P0"][4 + 1] = 7 /\ WhaleAt["P0"][6 + 1] = 4
  /\ WhaleAt["P0"][8 + 1] = 1 /\ WhaleAt["P0"][12 + 1] = 0
  /\ WhaleAt["C1"][3 + 1] = 6 /\ WhaleAt["C1"][5 + 1] = 3
  /\ WhaleAt["C2"][3 + 1] = 5 /\ WhaleAt["C2"][5 + 1] = 2
<1>1. /\ WhaleAt["P0"] = <<7, 7, 7, 7, 7, 7, 4, 4, 1, 1, 1, 1, 0>>
      /\ WhaleAt["C1"] = <<7, 7, 7, 6, 6, 3, 3>>
      /\ WhaleAt["C2"] = <<7, 7, 7, 5, 5, 2, 2>>
  BY DEF WhaleAt
<1> QED BY <1>1

\* In time, whoever prints next has been preceded by who prints before.
LEMMA Preceded ==
  ASSUME CountInv, InTime, NEW p \in Process, Doing(p, "subtract")
  PROVE  /\ p = "P0" /\ At(p) = 6 => At("C2") > 3
         /\ p = "P0" /\ At(p) = 8 => At("C2") > 5
         /\ p = "C1" /\ At(p) = 3 => At("P0") > 4
         /\ p = "C1" /\ At(p) = 5 => At("P0") > 6
         /\ p = "C2" /\ At(p) = 3 => At("C1") > 3
         /\ p = "C2" /\ At(p) = 5 => At("C1") > 5
<1>1. /\ "P0" \in Process /\ "C1" \in Process /\ "C2" \in Process
      /\ "C1" \in Child /\ "C2" \in Child
  BY DEF Process, Child
<1>2. PICK a \in 1 .. 13, b \in 1 .. 7, c \in 1 .. 7 :
        a = At("P0") /\ b = At("C1") /\ c = At("C2")
  <2>1. Len(Code("P0")) = 12 /\ Len(Code("C1")) = 6 /\ Len(Code("C2")) = 6
    BY Codes
  <2>2. PlaceInv
    BY DEF CountInv
  <2>3. /\ At("P0") \in 1 .. Len(Code("P0")) + 1
        /\ At("C1") \in 1 .. Len(Code("C1")) + 1
        /\ At("C2") \in 1 .. Len(Code("C2")) + 1
    BY <1>1, <2>2, Places
  <2>4. At("P0") \in 1 .. 12 + 1 /\ At("C1") \in 1 .. 6 + 1 /\ At("C2") \in 1 .. 6 + 1
    BY <2>1, <2>3
  <2>5. 12 + 1 = 13 /\ 6 + 1 = 7
    OBVIOUS
  <2> QED BY <2>4, <2>5
<1>3. pause[p] = 0 /\ stage[p] = "running"
  BY DEF Doing
<1>4. ~failed
  BY DEF InTime
<1>5. /\ b <= 6 => stage["C1"] \in {"unborn", "running"}
      /\ c <= 6 => stage["C2"] \in {"unborn", "running"}
  BY <1>1, <1>2, Running, Codes
<1>6. /\ a >= 3 => stage["C1"] # "unborn" /\ stage["C2"] # "unborn"
      /\ a <= 2 => stage["C2"] = "unborn"
  BY <1>2, <1>4 DEF CountInv, ChildInv
<1>7. /\ \A d \in Child : stage[d] = "running" /\ a <= 9 => Clock(d) = Clock("P0")
      /\ stage["C1"] = "running" /\ stage["C2"] = "running" => Clock("C1") = Clock("C2")
  BY <1>2 DEF CountInv, ClockInv
<1>8. /\ a <= 4 => Steps["P0"][a] <= 3
      /\ a <= 6 => Steps["P0"][a] <= 6
      /\ a = 6 => Steps["P0"][a] = 6
      /\ a = 8 => Steps["P0"][a] = 9
  BY Pauses
<1>9. /\ b <= 3 => Steps["C1"][b] <= 4
      /\ b <= 5 => Steps["C1"][b] <= 7
      /\ b = 3 => Steps["C1"][b] = 4
      /\ b = 5 => Steps["C1"][b] = 7
  BY Pauses
<1>10. /\ c <= 3 => Steps["C2"][c] <= 5
       /\ c <= 5 => Steps["C2"][c] <= 8
       /\ c = 3 => Steps["C2"][c] = 5
       /\ c = 5 => Steps["C2"][c] = 8
  BY Pauses
<1>11. Steps["P0"][a] \in Nat /\ Steps["C1"][b] \in Nat /\ Steps["C2"][c] \in Nat
  <2>1. PlaceInv
    BY DEF CountInv
  <2> QED BY <1>1, <1>2, <2>1, Places, Ranges
<1>12. ASSUME NEW q \in Process, Clock(p) = Clock(q),
              Steps[q][At(q)] < Steps[p][At(p)]
       PROVE  FALSE
  BY <1>3, <1>12, NotBehind
<1>13. ASSUME p = "P0", a = 6 PROVE c > 3
  <2> SUFFICES ASSUME c <= 3 PROVE FALSE
    OBVIOUS
  <2>1. Clock("C2") = Clock("P0")
    BY <1>1, <1>5, <1>6, <1>7, <1>13
  <2>2. Steps["C2"][c] < Steps["P0"][a]
    BY <1>8, <1>10, <1>11, <1>13
  <2> QED BY <1>1, <1>2, <1>12, <1>13, <2>1, <2>2
<1>14. ASSUME p = "P0", a = 8 PROVE c > 5
  <2> SUFFICES ASSUME c <= 5 PROVE FALSE
    OBVIOUS
  <2>1. Clock("C2") = Clock("P0")
    BY <1>1, <1>5, <1>6, <1>7, <1>14
  <2>2. Steps["C2"][c] < Steps["P0"][a]
    BY <1>8, <1>10, <1>11, <1>14
  <2> QED BY <1>1, <1>2, <1>12, <1>14, <2>1, <2>2
<1>15. ASSUME p = "C1", b = 3 PROVE a > 4
  <2> SUFFICES ASSUME a <= 4 PROVE FALSE
    OBVIOUS
  <2>1. Clock("C1") = Clock("P0")
    BY <1>1, <1>3, <1>7, <1>15
  <2>2. Steps["P0"][a] < Steps["C1"][b]
    BY <1>8, <1>9, <1>11, <1>15
  <2> QED BY <1>1, <1>2, <1>12, <1>15, <2>1, <2>2
<1>16. ASSUME p = "C1", b = 5 PROVE a > 6
  <2> SUFFICES ASSUME a <= 6 PROVE FALSE
    OBVIOUS
  <2>1. Clock("C1") = Clock("P0")
    BY <1>1, <1>3, <1>7, <1>16
  <2>2. Steps["P0"][a] < Steps["C1"][b]
    BY <1>8, <1>9, <1>11, <1>16
  <2> QED BY <1>1, <1>2, <1>12, <1>16, <2>1, <2>2
<1>17. ASSUME p = "C2", c = 3 PROVE b > 3
  <2> SUFFICES ASSUME b <= 3 PROVE FALSE
    OBVIOUS
  <2>1. stage["C1"] = "running"
    BY <1>3, <1>5, <1>6, <1>17
  <2>2. Clock("C1") = Clock("C2")
    BY <1>3, <1>7, <1>17, <2>1
  <2>3. Steps["C1"][b] < Steps["C2"][c]
    BY <1>9, <1>10, <1>11, <1>17
  <2> QED BY <1>1, <1>2, <1>12, <1>17, <2>2, <2>3
<1>18. ASSUME p = "C2", c = 5 PROVE b > 5
  <2> SUFFICES ASSUME b <= 5 PROVE FALSE
    OBVIOUS
  <2>1. stage["C1"] = "running"
    BY <1>3, <1>5, <1>6, <1>18
  <2>2. Clock("C1") = Clock("C2")
    BY <1>3, <1>7, <1>18, <2>1
  <2>3. Steps["C1"][b] < Steps["C2"][c]
    BY <1>9, <1>10, <1>11, <1>18
  <2> QED BY <1>1, <1>2, <1>12, <1>18, <2>2, <2>3
<1> QED BY <1>2, <1>13, <1>14, <1>15, <1>16, <1>17, <1>18

LEMMA SubtractStep ==
  ASSUME CountInv, NEW p \in Process, Subtract(p)
  PROVE  CountInv'
<1>1. /\ Doing(p, "subtract") /\ Done(p)
      /\ UNCHANGED <<stage, pause, late, failed>>
  BY DEF Subtract
<1>2. /\ stage[p] = "running" /\ pause[p] = 0 /\ script[p] # <<>>
      /\ Instruction(p) = Code(p)[At(p)] /\ Code(p)[At(p)].op = "subtract"
      /\ At(p) \in 1 .. Len(Code(p))
      /\ p = "P0" => At(p) \in {4, 6, 8, 12}
      /\ p \in Child => At(p) \in {3, 5}
  BY <1>1, DoingAt DEF CountInv
<1>3. /\ DOMAIN script' = Process
      /\ \A q \in Process :
           \E i \in 1 .. Len(Code(q)) + 1 : script'[q] = SubSeq(Code(q), i, Len(Code(q)))
      /\ At(p)' = At(p) + 1
      /\ \A q \in Process : q # p => At(q)' = At(q) /\ script'[q] = script[q]
  BY <1>1, <1>2, Advance DEF CountInv
<1>4. /\ Steps[p][At(p) + 1] = Steps[p][At(p)]
      /\ WhaleAt[p][At(p) + 1] = WhaleAt[p][At(p)] - Instruction(p).n
      /\ WhaleAt[p][At(p) + 1] \in Int
  <2>1. At(p) + 1 \in 1 .. Len(Code(p)) + 1
    BY <1>2, Places DEF CountInv
  <2> QED BY <1>2, <2>1, Tables, Ranges
<1>5. PICK v \in Int : v = WhaleAt[p][At(p) + 1]
  BY <1>4
<1>6. whale' = [whale EXCEPT ![p] = v] /\ shrimp' = Append(shrimp, v)
  BY <1>4, <1>5 DEF Subtract, setenv, CountInv, WhaleInv
<1>7. \A q \in Process : Clock(q)' = Clock(q)
  <2> SUFFICES ASSUME NEW q \in Process
               PROVE  Clock(q)' = Clock(q)
    OBVIOUS
  <2>1. CASE q = p
    BY <1>1, <1>3, <1>4, <2>1 DEF Clock
  <2>2. CASE q # p
    BY <1>1, <1>3, <2>2 DEF Clock
  <2> QED BY <2>1, <2>2
<1>8. /\ "P0" \in Process /\ "C1" \in Process /\ "C2" \in Process
      /\ "C1" \in Child /\ "C2" \in Child /\ p \in {"P0", "C1", "C2"}
  BY DEF Process, Child
<1>9. (p # "P0" /\ At("P0")' = At("P0"))
        \/ (p = "P0" /\ At("P0") \in {4, 6, 8, 12} /\ At("P0")' = At("P0") + 1)
  BY <1>2, <1>3, <1>8
<1>10. PlaceInv'
  BY <1>1, <1>2, <1>3 DEF CountInv, PlaceInv
<1>11. WhaleInv'
  BY <1>3, <1>5, <1>6 DEF CountInv, WhaleInv
<1>12. ChildInv'
  BY <1>1, <1>9 DEF CountInv, ChildInv
<1>13. ClockInv'
  <2>1. At("P0")' <= 2 => At("P0") <= 2
    BY <1>9
  <2>2. At("P0")' <= 9 => At("P0") <= 9
    BY <1>9
  <2> QED BY <1>1, <1>7, <1>8, <2>1, <2>2 DEF CountInv, ClockInv, Process
<1>14. PICK l \in Nat : l = Len(shrimp)
  BY DEF CountInv, ZeroInv
<1>15. /\ shrimp' \in Seq(Int) /\ Len(shrimp') = l + 1
       /\ \A k \in 1 .. l : shrimp'[k] = shrimp[k]
       /\ shrimp'[l + 1] = v
  BY <1>6, <1>14, AppendProperties DEF CountInv, ZeroInv
<1>16. /\ p = "P0" /\ At(p) = 4 => v = 7
       /\ p = "C1" /\ At(p) = 3 => v = 6
       /\ p = "C2" /\ At(p) = 3 => v = 5
       /\ p = "P0" /\ At(p) = 6 => v = 4
       /\ p = "C1" /\ At(p) = 5 => v = 3
       /\ p = "C2" /\ At(p) = 5 => v = 2
       /\ p = "P0" /\ At(p) = 8 => v = 1
       /\ p = "P0" /\ At(p) = 12 => v = 0
  BY <1>5, Printed
<1>17. ZeroInv'
  <2>1. \A k \in 1 .. l : shrimp[k] # 0
    <3> SUFFICES ASSUME NEW k \in 1 .. l, shrimp[k] = 0
                 PROVE  FALSE
      OBVIOUS
    <3>1. At("P0") = 13
      BY <1>14 DEF CountInv, ZeroInv
    <3>2. p \in Child
      BY <1>2, <3>1, <1>8
    <3>3. stage[p] \in {"unborn", "reaped"}
      BY <3>1, <3>2 DEF CountInv, ChildInv
    <3> QED BY <1>2, <3>3
  <2>2. v = 0 => At("P0")' = 13
    BY <1>2, <1>8, <1>9, <1>16
  <2>3. ASSUME NEW k \in 1 .. l + 1, shrimp'[k] = 0
        PROVE  At("P0")' = 13 /\ k = l + 1
    <3>1. k \in 1 .. l \/ k = l + 1
      OBVIOUS
    <3> QED BY <1>15, <2>1, <2>2, <2>3, <3>1
  <2> QED BY <1>15, <2>3 DEF ZeroInv
<1>18. OrderInv'
  <2> SUFFICES ASSUME InTime'
               PROVE  OrderInv'
    BY DEF OrderInv
  <2>1. InTime
    BY <1>1 DEF InTime
  <2>2. PICK a \in Int, b \in Int, c \in Int :
          a = At("P0") /\ b = At("C1") /\ c = At("C2")
    BY <1>8, Places DEF CountInv
  <2>3. PICK d \in Int, e \in Int, f \in Int :
          /\ d = At("P0")' /\ e = At("C1")' /\ f = At("C2")'
          /\ d = (IF p = "P0" THEN a + 1 ELSE a)
          /\ e = (IF p = "C1" THEN b + 1 ELSE b)
          /\ f = (IF p = "C2" THEN c + 1 ELSE c)
    <3>1. At("P0")' = (IF p = "P0" THEN a + 1 ELSE a)
      BY <1>3, <1>8, <2>2
    <3>2. At("C1")' = (IF p = "C1" THEN b + 1 ELSE b)
      BY <1>3, <1>8, <2>2
    <3>3. At("C2")' = (IF p = "C2" THEN c + 1 ELSE c)
      BY <1>3, <1>8, <2>2
    <3> QED BY <3>1, <3>2, <3>3
  <2>4. /\ l <= 8
        /\ \A k \in 1 .. l : shrimp[k] = 8 - k
        /\ l >= 1 <=> a > 4
        /\ l >= 2 <=> b > 3
        /\ l >= 3 <=> c > 3
        /\ l >= 4 <=> a > 6
        /\ l >= 5 <=> b > 5
        /\ l >= 6 <=> c > 5
        /\ l >= 7 <=> a > 8
        /\ l >= 8 <=> a > 12
    BY <1>14, <2>1, <2>2 DEF CountInv, OrderInv
  <2>5. /\ p = "P0" => a \in {4, 6, 8, 12}
        /\ p = "C1" => b \in {3, 5}
        /\ p = "C2" => c \in {3, 5}
    BY <1>2, <1>8, <2>2
  <2>6. /\ p = "P0" /\ a = 6 => c > 3
        /\ p = "P0" /\ a = 8 => c > 5
        /\ p = "C1" /\ b = 3 => a > 4
        /\ p = "C1" /\ b = 5 => a > 6
        /\ p = "C2" /\ c = 3 => b > 3
        /\ p = "C2" /\ c = 5 => b > 5
    BY <1>1, <2>1, <2>2, Preceded
  <2>7. /\ p = "P0" /\ a = 4 => l = 0
        /\ p = "C1" /\ b = 3 => l = 1
        /\ p = "C2" /\ c = 3 => l = 2
        /\ p = "P0" /\ a = 6 => l = 3
        /\ p = "C1" /\ b = 5 => l = 4
        /\ p = "C2" /\ c = 5 => l = 5
        /\ p = "P0" /\ a = 8 => l = 6
        /\ p = "P0" /\ a = 12 => l = 7
    BY <2>4, <2>6
  <2>8. v = 7 - l /\ l <= 7
    BY <1>8, <1>16, <2>2, <2>5, <2>7
  <2>9. \A k \in 1 .. l + 1 : shrimp'[k] = 8 - k
    <3> SUFFICES ASSUME NEW k \in 1 .. l + 1
                 PROVE  shrimp'[k] = 8 - k
      OBVIOUS
    <3>1. CASE k \in 1 .. l
      BY <1>15, <2>4, <3>1
    <3>2. CASE k = l + 1
      BY <1>15, <2>8, <3>2
    <3> QED BY <3>1, <3>2
  <2>10. /\ l + 1 >= 1 <=> d > 4
         /\ l + 1 >= 2 <=> e > 3
         /\ l + 1 >= 3 <=> f > 3
         /\ l + 1 >= 4 <=> d > 6
         /\ l + 1 >= 5 <=> e > 5
         /\ l + 1 >= 6 <=> f > 5
         /\ l + 1 >= 7 <=> d > 8
         /\ l + 1 >= 8 <=> d > 12
    <3>1. CASE p = "P0"
      BY <2>3, <2>4, <2>5, <2>7, <3>1
    <3>2. CASE p = "C1"
      BY <2>3, <2>4, <2>5, <2>7, <3>2
    <3>3. CASE p = "C2"
      BY <2>3, <2>4, <2>5, <2>7, <3>3
    <3> QED BY <1>8, <3>1, <3>2, <3>3
  <2> QED BY <1>15, <2>3, <2>8, <2>9, <2>10 DEF OrderInv
<1> QED BY <1>10, <1>11, <1>12, <1>13, <1>17, <1>18 DEF CountInv

LEMMA TickStep ==
  ASSUME CountInv, Tick
  PROVE  CountInv'
<1> DEFINE Idle(p) == stage[p] = "running" /\ pause[p] = 0 /\ ~Blocked(p)
<1>1. /\ \A p \in Process : late'[p] = (IF Idle(p) THEN late[p] + 1 ELSE late[p])
      /\ \A p \in Process : pause'[p] = (IF pause[p] > 0 THEN pause[p] - 1 ELSE 0)
      /\ DOMAIN late' = Process /\ DOMAIN pause' = Process
      /\ late' = [p \in Process |-> late'[p]] /\ pause' = [p \in Process |-> pause'[p]]
      /\ UNCHANGED <<stage, script, whale, shrimp, failed>>
  BY DEF Tick
<1>2. /\ late \in [Process -> Nat] /\ pause \in [Process -> Nat]
      /\ \A p \in Process : late[p] \in Nat /\ pause[p] \in Nat
  BY DEF CountInv, ClockInv
<1>3. \A p \in Process : late'[p] \in Nat /\ pause'[p] \in Nat /\ late[p] <= late'[p]
  BY <1>1, <1>2
<1>4. \A p : At(p)' = At(p)
  BY <1>1 DEF At
<1>5. ASSUME NEW p \in Process, stage[p] = "running", p \in Child \/ At("P0") <= 9
      PROVE  Clock(p)' = Clock(p) + 1
  <2>1. ~Blocked(p)
    <3> SUFFICES ASSUME Doing(p, "wait")
                 PROVE  FALSE
      BY DEF Blocked
    <3>1. p = "P0" /\ At(p) \in {10, 11}
      BY DoingAt DEF CountInv
    <3> QED BY <1>5, <3>1 DEF Child
  <2>2. PICK t \in Nat : t = Grain * Steps[p][At(p)]
    <3>1. Steps[p][At(p)] \in Nat
      BY Places, Ranges DEF CountInv
    <3> QED BY <3>1, Grains
  <2>3. Clock(p) = t + late[p] - pause[p] /\ Clock(p)' = t + late'[p] - pause'[p]
    BY <1>4, <2>2 DEF Clock
  <2> QED BY <1>1, <1>2, <1>3, <1>5, <2>1, <2>3
<1>6. PlaceInv'
  BY <1>1, <1>4 DEF CountInv, PlaceInv
<1>7. WhaleInv'
  BY <1>1, <1>4 DEF CountInv, WhaleInv
<1>8. ChildInv'
  BY <1>1, <1>4 DEF CountInv, ChildInv
<1>9. ZeroInv' /\ OrderInv'
  <2>1. InTime' => InTime
    <3> SUFFICES ASSUME InTime'
                 PROVE  InTime
      OBVIOUS
    <3>1. ~failed' /\ \A p \in Process : late'[p] < Grain
      BY DEF InTime
    <3>2. \A p \in Process : late[p] < Grain
      <4>1. Grain \in Nat
        BY WhaleAssumption
      <4> QED BY <1>2, <1>3, <3>1, <4>1
    <3> QED BY <1>1, <3>1, <3>2 DEF InTime
  <2> QED BY <1>1, <2>1, IdleStep
<1>10. ClockInv'
  <2>1. late' \in [Process -> Nat] /\ pause' \in [Process -> Nat]
    BY <1>1, <1>3
  <2>2. At("P0")' <= 2 => pause'["P0"] = 0
    BY <1>1, <1>4 DEF CountInv, ClockInv, Process
  <2>3. \A c \in Child : stage[c] = "unborn" => late'[c] = 0 /\ pause'[c] = 0
    BY <1>1 DEF CountInv, ClockInv, Process
  <2>4. ASSUME NEW c \in Child, stage[c] = "running", At("P0") <= 9
        PROVE  Clock(c)' = Clock("P0")'
    <3>1. Clock(c) = Clock("P0")
      BY <2>4 DEF CountInv, ClockInv
    <3>2. stage["P0"] = "running"
      <4>1. PICK a \in Int : a = At("P0")
        BY Places DEF CountInv, Process
      <4> QED BY <2>4, <4>1, Running
    <3>3. c \in Process /\ "P0" \in Process
      BY DEF Process
    <3> QED BY <1>5, <2>4, <3>1, <3>2, <3>3
  <2>5. ASSUME stage["C1"] = "running", stage["C2"] = "running"
        PROVE  Clock("C1")' = Clock("C2")'
    <3>1. Clock("C1") = Clock("C2")
      BY <2>5 DEF CountInv, ClockInv
    <3>2. "C1" \in Child /\ "C2" \in Child /\ "C1" \in Process /\ "C2" \in Process
      BY DEF Process, Child
    <3> QED BY <1>5, <2>5, <3>1, <3>2
  <2> QED BY <1>1, <1>4, <2>1, <2>2, <2>3, <2>4, <2>5 DEF CountInv, ClockInv
<1> QED BY <1>6, <1>7, <1>8, <1>9, <1>10 DEF CountInv

LEMMA InitCount ==
  ASSUME Init
  PROVE  CountInv
<1>1. /\ "P0" \in Process /\ "C1" \in Process /\ "C2" \in Process
      /\ "C1" # "P0" /\ "C2" # "P0"
  BY DEF Process, Child
<1>2. \A p \in Process : script[p] = Code(p)
  BY DEF Init, Code
<1>3. /\ stage = [p \in Process |-> IF p = "P0" THEN "running" ELSE "unborn"]
      /\ DOMAIN script = Process
      /\ whale = [p \in Process |-> 7]
      /\ pause = [p \in Process |-> 0] /\ late = [p \in Process |-> 0]
      /\ shrimp = <<>> /\ failed = FALSE
  BY DEF Init
<1>4. ASSUME NEW p \in Process
      PROVE  At(p) = 1 /\ script[p] = SubSeq(Code(p), 1, Len(Code(p))) /\ 1 \in 1 .. Len(Code(p)) + 1
  <2>1. PICK s \in Seq(Ops) : s = Code(p)
    BY Codes
  <2>2. PICK l \in Nat : l = Len(s)
    BY <2>1
  <2>3. SubSeq(s, 1, l) = s
    BY <2>2, SubSeqFull
  <2>4. l - l + 1 = 1 /\ 1 \in 1 .. l + 1
    OBVIOUS
  <2> QED BY <1>2, <2>1, <2>2, <2>3, <2>4 DEF At
<1>5. PlaceInv
  BY <1>1, <1>3, <1>4 DEF PlaceInv
<1>6. WhaleInv
  <2>1. /\ WhaleAt["P0"] = <<7, 7, 7, 7, 7, 7, 4, 4, 1, 1, 1, 1, 0>>
        /\ WhaleAt["C1"] = <<7, 7, 7, 6, 6, 3, 3>>
        /\ WhaleAt["C2"] = <<7, 7, 7, 5, 5, 2, 2>>
    BY DEF WhaleAt
  <2>2. WhaleAt["P0"][1] = 7 /\ WhaleAt["C1"][1] = 7 /\ WhaleAt["C2"][1] = 7
    BY <2>1
  <2>3. \A p \in Process : WhaleAt[p][1] = 7
    BY <2>2 DEF Process, Child
  <2> QED BY <1>3, <1>4, <2>3 DEF WhaleInv
<1>7. At("P0") = 1 /\ At("C1") = 1 /\ At("C2") = 1
  BY <1>1, <1>4
<1>8. ChildInv
  BY <1>1, <1>3, <1>7 DEF ChildInv, Process, Child
<1>9. shrimp \in Seq(Int) /\ Len(shrimp) = 0
  BY <1>3
<1>10. ZeroInv
  BY <1>9 DEF ZeroInv
<1>11. ClockInv
  BY <1>1, <1>3 DEF ClockInv, Process, Child
<1>12. OrderInv
  BY <1>7, <1>9 DEF OrderInv
<1> QED BY <1>5, <1>6, <1>8, <1>10, <1>11, <1>12 DEF CountInv

-----------------------------------------------------------------------------
(* The theorems *)

\* The invariant of as1 holds for any length of a time step and any lateness.
THEOREM CountInvHolds == Spec => []CountInv
<1>1. Init => CountInv
  BY InitCount
<1>2. CountInv /\ [Next]_vars => CountInv'
  <2> SUFFICES ASSUME CountInv, [Next]_vars
               PROVE  CountInv'
    OBVIOUS
  <2>1. CASE \E p \in Process : ProcessStep(p)
    BY <2>1, TockStep, SubtractStep, FinishStep DEF ProcessStep
  <2>2. CASE Fork
    BY <2>2, ForkStep
  <2>3. CASE Wait
    BY <2>3, WaitStep
  <2>4. CASE Tick
    BY <2>4, TickStep
  <2>5. CASE UNCHANGED vars
    <3>1. \A p : At(p)' = At(p) /\ Clock(p)' = Clock(p)
      BY <2>5 DEF vars, At, Clock
    <3>2. PlaceInv' /\ WhaleInv' /\ ChildInv'
      BY <2>5, <3>1 DEF vars, CountInv, PlaceInv, WhaleInv, ChildInv
    <3>3. ZeroInv' /\ OrderInv'
      BY <2>5, IdleStep DEF vars, InTime
    <3>4. ClockInv'
      BY <2>5, <3>1 DEF vars, CountInv, ClockInv
    <3> QED BY <3>2, <3>3, <3>4 DEF CountInv
  <2> QED BY <2>1, <2>2, <2>3, <2>4, <2>5 DEF Next
<1> QED BY <1>1, <1>2, PTL DEF Spec

\* As long as nobody is late for a whole time step, the lines count down without
\* a gap (tock, and the pauses chosen in run_parent_process, run_C1 and run_C2).
THEOREM InOrder == Spec => []CountsDown
<1>1. CountInv => CountsDown
  <2> SUFFICES ASSUME CountInv, InTime
               PROVE  IsPrefix(shrimp, CountDown)
    BY DEF CountsDown, InTime
  <2>1. PICK s \in Seq(Int) : s = shrimp
    BY DEF CountInv, ZeroInv
  <2>2. PICK l \in Nat : l = Len(s)
    BY <2>1
  <2>3. l <= 8 /\ \A k \in 1 .. l : s[k] = 8 - k
    BY <2>1, <2>2 DEF CountInv, OrderInv
  <2>4. /\ Len(CountDown) = 8
        /\ CountDown[1] = 7 /\ CountDown[2] = 6 /\ CountDown[3] = 5 /\ CountDown[4] = 4
        /\ CountDown[5] = 3 /\ CountDown[6] = 2 /\ CountDown[7] = 1 /\ CountDown[8] = 0
    BY DEF CountDown
  <2>5. \A k \in 1 .. 8 : CountDown[k] = 8 - k
    <3>1. \A k \in 1 .. 8 : k \in {1, 2, 3, 4, 5, 6, 7, 8}
      OBVIOUS
    <3> QED BY <2>4, <3>1
  <2>6. /\ Len(SubSeq(s, 1, l)) = l /\ SubSeq(s, 1, l) \in Seq(Int)
        /\ \A k \in 1 .. l : SubSeq(s, 1, l)[k] = s[k]
    <3>1. SubSeq(s, 1, l) = s
      BY <2>2, SubSeqFull
    <3> QED BY <2>2, <3>1
  <2>7. /\ Len(SubSeq(CountDown, 1, l)) = l /\ SubSeq(CountDown, 1, l) \in Seq(Int)
        /\ \A k \in 1 .. l : SubSeq(CountDown, 1, l)[k] = CountDown[k]
    <3>1. \A k \in 1 .. l : CountDown[k] \in Int
      <4> SUFFICES ASSUME NEW k \in 1 .. l
                   PROVE  CountDown[k] \in Int
        OBVIOUS
      <4>1. k \in 1 .. 8
        BY <2>3
      <4> QED BY <2>5, <4>1
    <3>2. 1 \in Int /\ l \in Int
      OBVIOUS
    <3>3. /\ SubSeq(CountDown, 1, l) \in Seq(Int)
          /\ Len(SubSeq(CountDown, 1, l)) = IF 1 <= l THEN l - 1 + 1 ELSE 0
          /\ \A k \in 1 .. l - 1 + 1 : SubSeq(CountDown, 1, l)[k] = CountDown[1 + k - 1]
      BY <3>1, <3>2, SubSeqProperties
    <3>4. \A k \in 1 .. l : k \in 1 .. l - 1 + 1 /\ 1 + k - 1 = k
      OBVIOUS
    <3> QED BY <3>3, <3>4
  <2>8. \A k \in 1 .. l : SubSeq(s, 1, l)[k] = SubSeq(CountDown, 1, l)[k]
    <3> SUFFICES ASSUME NEW k \in 1 .. l
                 PROVE  SubSeq(s, 1, l)[k] = SubSeq(CountDown, 1, l)[k]
      OBVIOUS
    <3>1. k \in 1 .. 8
      BY <2>3
    <3> QED BY <2>3, <2>5, <2>6, <2>7, <3>1
  <2>9. SubSeq(s, 1, l) = SubSeq(CountDown, 1, l)
    BY <2>6, <2>7, <2>8, SeqEqual
  <2> QED BY <2>1, <2>2, <2>3, <2>4, <2>9 DEF IsPrefix
<1> QED BY <1>1, CountInvHolds, PTL

\* The last number comes when every child that was forked has been reaped,
\* however late the processes are, and nothing comes after it (run_parent_process).
THEOREM ZeroComesLast == Spec => []FinalAfterChildren
<1>1. CountInv => FinalAfterChildren
  <2> SUFFICES ASSUME CountInv, NEW k \in DOMAIN shrimp, shrimp[k] = 0
               PROVE  /\ k = Len(shrimp)
                      /\ \A c \in Child : stage[c] \in {"unborn", "reaped"}
    BY DEF FinalAfterChildren
  <2>1. k \in 1 .. Len(shrimp)
    BY DEF CountInv, ZeroInv
  <2>2. At("P0") = 13 /\ k = Len(shrimp)
    BY <2>1 DEF CountInv, ZeroInv
  <2> QED BY <2>2 DEF CountInv, ChildInv
<1> QED BY <1>1, CountInvHolds, PTL
-----------------------------------------------------------------------------
(* Each number once *)

\* Who is past the subtraction that prints a number.
Said(v) ==
  \/ v = 7 /\ At("P0") > 4
  \/ v = 6 /\ At("C1") > 3
  \/ v = 5 /\ At("C2") > 3
  \/ v = 4 /\ At("P0") > 6
  \/ v = 3 /\ At("C1") > 5
  \/ v = 2 /\ At("C2") > 5
  \/ v = 1 /\ At("P0") > 8
  \/ v = 0 /\ At("P0") > 12

\* However late the processes are, the lines are those of the subtractions done,
\* one line for each.
OnceInv ==
  /\ \A j, k \in 1 .. Len(shrimp) : shrimp[j] = shrimp[k] => j = k
  /\ \A v \in Int : Said(v) <=> \E k \in 1 .. Len(shrimp) : shrimp[k] = v

\* No number comes twice, and when all processes have ended all have come.
NumbersOnce ==
  /\ IsInjective(shrimp)
  /\ ~ failed /\ (\A p \in Process : stage[p] = "reaped") => Range(shrimp) = Range(CountDown)

\* An instruction that prints nothing is not one that a number waits for.
LEMMA QuietOnce ==
  ASSUME CountInv, OnceInv, NEW p \in Process, NEW op, Doing(p, op), op # "subtract", Done(p),
         UNCHANGED shrimp
  PROVE  OnceInv'
<1>1. /\ At(p)' = At(p) + 1 /\ At(p) \in Int
      /\ \A q \in Process : q # p => At(q)' = At(q)
  BY Advance, DoingAt DEF CountInv
<1>2. /\ p = "P0" => At(p) \notin {4, 6, 8, 12}
      /\ p \in Child => At(p) \notin {3, 5}
  BY DoingAt DEF CountInv
<1>3. /\ "P0" \in Process /\ "C1" \in Process /\ "C2" \in Process
      /\ "C1" \in Child /\ "C2" \in Child
  BY DEF Process, Child
<1>4. /\ At("P0")' > 4 <=> At("P0") > 4
      /\ At("P0")' > 6 <=> At("P0") > 6
      /\ At("P0")' > 8 <=> At("P0") > 8
      /\ At("P0")' > 12 <=> At("P0") > 12
  BY <1>1, <1>2, <1>3
<1>5. /\ At("C1")' > 3 <=> At("C1") > 3
      /\ At("C1")' > 5 <=> At("C1") > 5
  BY <1>1, <1>2, <1>3
<1>6. /\ At("C2")' > 3 <=> At("C2") > 3
      /\ At("C2")' > 5 <=> At("C2") > 5
  BY <1>1, <1>2, <1>3
<1>7. \A v : Said(v)' <=> Said(v)
  BY <1>4, <1>5, <1>6 DEF Said
<1> QED BY <1>7 DEF OnceInv

\* A subtraction prints a number that was not printed before.
LEMMA SubtractOnce ==
  ASSUME CountInv, OnceInv, NEW p \in Process, Subtract(p)
  PROVE  OnceInv'
<1>1. Doing(p, "subtract") /\ Done(p)
  BY DEF Subtract
<1>2. /\ script[p] # <<>> /\ Instruction(p) = Code(p)[At(p)] /\ At(p) \in 1 .. Len(Code(p))
      /\ p = "P0" => At(p) \in {4, 6, 8, 12}
      /\ p \in Child => At(p) \in {3, 5}
  BY <1>1, DoingAt DEF CountInv
<1>3. At(p)' = At(p) + 1 /\ \A q \in Process : q # p => At(q)' = At(q)
  BY <1>1, <1>2, Advance DEF CountInv
<1>4. /\ WhaleAt[p][At(p) + 1] = WhaleAt[p][At(p)] - Instruction(p).n
      /\ WhaleAt[p][At(p) + 1] \in Int
  <2>1. At(p) + 1 \in 1 .. Len(Code(p)) + 1
    BY <1>2, Places DEF CountInv
  <2>2. Code(p)[At(p)].op = "subtract"
    BY <1>1, DoingAt DEF CountInv
  <2> QED BY <1>2, <2>1, <2>2, Tables, Ranges
<1>5. PICK v \in Int : v = WhaleAt[p][At(p) + 1]
  BY <1>4
<1>6. shrimp' = Append(shrimp, v)
  BY <1>4, <1>5 DEF Subtract, CountInv, WhaleInv
<1>7. /\ "P0" \in Process /\ "C1" \in Process /\ "C2" \in Process
      /\ "C1" \in Child /\ "C2" \in Child /\ p \in {"P0", "C1", "C2"}
  BY DEF Process, Child
<1>8. /\ p = "P0" /\ At(p) = 4 => v = 7
      /\ p = "C1" /\ At(p) = 3 => v = 6
      /\ p = "C2" /\ At(p) = 3 => v = 5
      /\ p = "P0" /\ At(p) = 6 => v = 4
      /\ p = "C1" /\ At(p) = 5 => v = 3
      /\ p = "C2" /\ At(p) = 5 => v = 2
      /\ p = "P0" /\ At(p) = 8 => v = 1
      /\ p = "P0" /\ At(p) = 12 => v = 0
  BY <1>5, Printed
<1>9. ~ Said(v) /\ \A u \in Int : Said(u)' <=> Said(u) \/ u = v
  <2>1. PICK a \in Int, b \in Int, c \in Int :
          a = At("P0") /\ b = At("C1") /\ c = At("C2")
    BY <1>7, Places DEF CountInv
  <2>2. /\ At("P0")' = (IF p = "P0" THEN a + 1 ELSE a)
        /\ At("C1")' = (IF p = "C1" THEN b + 1 ELSE b)
        /\ At("C2")' = (IF p = "C2" THEN c + 1 ELSE c)
    BY <1>3, <1>7, <2>1
  <2>3. CASE p = "P0"
    BY <1>2, <1>8, <2>1, <2>2, <2>3 DEF Said
  <2>4. CASE p = "C1"
    BY <1>2, <1>7, <1>8, <2>1, <2>2, <2>4 DEF Said
  <2>5. CASE p = "C2"
    BY <1>2, <1>7, <1>8, <2>1, <2>2, <2>5 DEF Said
  <2> QED BY <1>7, <2>3, <2>4, <2>5
<1>10. PICK l \in Nat : l = Len(shrimp)
  BY DEF CountInv, ZeroInv
<1>11. /\ Len(shrimp') = l + 1 /\ shrimp'[l + 1] = v
       /\ \A k \in 1 .. l : shrimp'[k] = shrimp[k]
  BY <1>6, <1>10, AppendProperties DEF CountInv, ZeroInv
<1>12. \A k \in 1 .. l : shrimp[k] # v
  BY <1>9, <1>10 DEF OnceInv
<1>13. \A k \in 1 .. l + 1 : k \in 1 .. l \/ k = l + 1
  OBVIOUS
<1>14. \A j, k \in 1 .. l + 1 : shrimp'[j] = shrimp'[k] => j = k
  BY <1>10, <1>11, <1>12, <1>13 DEF OnceInv
<1>15. \A u \in Int : Said(u)' <=> \E k \in 1 .. l + 1 : shrimp'[k] = u
  <2> SUFFICES ASSUME NEW u \in Int
               PROVE  Said(u)' <=> \E k \in 1 .. l + 1 : shrimp'[k] = u
    OBVIOUS
  <2>1. (\E k \in 1 .. l + 1 : shrimp'[k] = u) <=> (\E k \in 1 .. l : shrimp[k] = u) \/ u = v
    <3>1. l + 1 \in 1 .. l + 1 /\ \A k \in 1 .. l : k \in 1 .. l + 1
      OBVIOUS
    <3> QED BY <1>11, <1>13, <3>1
  <2>2. Said(u) <=> \E k \in 1 .. l : shrimp[k] = u
    BY <1>10 DEF OnceInv
  <2> QED BY <1>9, <2>1, <2>2
<1> QED BY <1>11, <1>14, <1>15 DEF OnceInv

\* However late they are, and whether or not a fork fails, the processes never say
\* a number twice, and without a failure they have said them all when they have
\* ended: their environments do not touch each other (subtract_from_var, as1.C:108-117).
THEOREM EachNumberOnce == Spec => []NumbersOnce
<1>1. Init => OnceInv
  <2> SUFFICES ASSUME Init PROVE OnceInv
    OBVIOUS
  <2>1. CountInv
    BY InitCount
  <2>2. At("P0") = 1 /\ At("C1") = 1 /\ At("C2") = 1
    BY Codes DEF Init, At, Code, Process, Child
  <2>3. \A v : ~ Said(v)
    BY <2>2 DEF Said
  <2>4. Len(shrimp) = 0
    BY DEF Init
  <2> QED BY <2>3, <2>4 DEF OnceInv
<1>2. CountInv /\ OnceInv /\ [Next]_vars => OnceInv'
  <2> SUFFICES ASSUME CountInv, OnceInv, [Next]_vars PROVE OnceInv'
    OBVIOUS
  <2>1. CASE UNCHANGED <<script, shrimp>>
    <3>1. \A v : Said(v)' <=> Said(v)
      BY <2>1 DEF Said, At
    <3> QED BY <2>1, <3>1 DEF OnceInv
  <2>2. ASSUME NEW p \in Process, Subtract(p) PROVE OnceInv'
    BY <2>2, SubtractOnce
  <2>3. ASSUME NEW p \in Process, Tock(p) PROVE OnceInv'
    <3>1. Doing(p, "tock") /\ Done(p) /\ shrimp' = shrimp
      BY <2>3 DEF Tock
    <3> QED BY <3>1, QuietOnce
  <2>4. ASSUME Fork \/ Wait PROVE OnceInv'
    <3>1. /\ Doing("P0", "fork") \/ Doing("P0", "wait")
          /\ Done("P0") /\ shrimp' = shrimp /\ "P0" \in Process
      BY <2>4 DEF Fork, Wait, Process
    <3> QED BY <3>1, QuietOnce
  <2>5. \/ UNCHANGED <<script, shrimp>>
        \/ \E p \in Process : Subtract(p) \/ Tock(p)
        \/ Fork \/ Wait
    BY DEF Next, ProcessStep, Finish, Exit, Tick, vars
  <2> QED BY <2>1, <2>2, <2>3, <2>4, <2>5
<1>3. CountInv /\ OnceInv => NumbersOnce
  <2> SUFFICES ASSUME CountInv, OnceInv PROVE NumbersOnce
    OBVIOUS
  <2>1. DOMAIN shrimp = 1 .. Len(shrimp) /\ \A k \in 1 .. Len(shrimp) : shrimp[k] \in Int
    BY DEF CountInv, ZeroInv
  <2>2. IsInjective(shrimp)
    BY <2>1 DEF OnceInv, IsInjective
  <2>3. ASSUME ~ failed, \A p \in Process : stage[p] = "reaped"
        PROVE  Range(shrimp) = Range(CountDown)
    <3>1. At("P0") = 13 /\ At("C1") = 7 /\ At("C2") = 7
      <4>1. script["P0"] = <<>> /\ script["C1"] = <<>> /\ script["C2"] = <<>>
        BY <2>3 DEF CountInv, PlaceInv, Process, Child
      <4>2. Len(script["P0"]) = 0 /\ Len(script["C1"]) = 0 /\ Len(script["C2"]) = 0
        BY <4>1
      <4>3. At("P0") = 12 - 0 + 1 /\ At("C1") = 6 - 0 + 1 /\ At("C2") = 6 - 0 + 1
        BY <4>2, Codes DEF At
      <4> QED BY <4>3
    <3>2. \A v \in Int : Said(v) <=> v \in 0 .. 7
      BY <3>1 DEF Said
    <3>3. Range(shrimp) = 0 .. 7
      <4>1. \A v \in Range(shrimp) : v \in Int /\ \E k \in 1 .. Len(shrimp) : shrimp[k] = v
        BY <2>1 DEF Range
      <4>2. \A k \in 1 .. Len(shrimp) : shrimp[k] \in Range(shrimp)
        BY <2>1 DEF Range
      <4>3. ASSUME NEW v \in Range(shrimp) PROVE v \in 0 .. 7
        BY <3>2, <4>1 DEF OnceInv
      <4>4. ASSUME NEW v \in 0 .. 7 PROVE v \in Range(shrimp)
        <5>1. v \in Int /\ Said(v)
          BY <3>2
        <5>2. PICK k \in 1 .. Len(shrimp) : shrimp[k] = v
          BY <5>1 DEF OnceInv
        <5> QED BY <4>2, <5>2
      <4> QED BY <4>3, <4>4
    <3>4. Range(CountDown) = 0 .. 7
      <4>1. /\ DOMAIN CountDown = 1 .. 8
            /\ CountDown[1] = 7 /\ CountDown[2] = 6 /\ CountDown[3] = 5 /\ CountDown[4] = 4
            /\ CountDown[5] = 3 /\ CountDown[6] = 2 /\ CountDown[7] = 1 /\ CountDown[8] = 0
        BY DEF CountDown
      <4>2. \A k \in 1 .. 8 : k \in {1, 2, 3, 4, 5, 6, 7, 8}
        OBVIOUS
      <4>3. \A k \in 1 .. 8 : CountDown[k] \in 0 .. 7 /\ CountDown[k] = 8 - k
        BY <4>1, <4>2
      <4>4. \A v \in 0 .. 7 : 8 - v \in 1 .. 8 /\ 8 - (8 - v) = v
        OBVIOUS
      <4>5. \A v \in 0 .. 7 : CountDown[8 - v] = v
        BY <4>3, <4>4
      <4>6. Range(CountDown) = {CountDown[k] : k \in 1 .. 8}
        BY <4>1 DEF Range
      <4> QED BY <4>3, <4>4, <4>5, <4>6
    <3> QED BY <3>3, <3>4
  <2> QED BY <2>2, <2>3 DEF NumbersOnce
<1> QED BY <1>1, <1>2, <1>3, CountInvHolds, PTL DEF Spec
=============================================================================
