------------------------ MODULE MethaneBarrierProofs ------------------------
(***************************************************************************)
(* Proofs about the CH4 barrier of as5 and as6, for any finite number of   *)
(* atoms and any valence.  The invariants of MethaneBarrier follow from    *)
(* IInv, which is inductive; the lemmas below prove one conjunct of it at  *)
(* a time, for a step of any atom a.                                       *)
(***************************************************************************)
EXTENDS MethaneBarrier, FiniteSetTheorems, TLAPS

-----------------------------------------------------------------------------
(* Counting atoms by stage *)

\* The atoms at some stages are finitely many, so Count is a number.
LEMMA CountType ==
  ASSUME NEW K \in SUBSET Atom, NEW T
  PROVE  /\ IsFiniteSet(At(K, T))
         /\ Count(K, T) \in Nat
<1>1. IsFiniteSet(Atom)
  BY FS_Union, AtomAssumption DEF Atom
<1>2. At(K, T) \in SUBSET Atom
  BY DEF At
<1>3. IsFiniteSet(At(K, T))
  BY <1>1, <1>2, FS_Subset
<1> QED
  BY <1>3, FS_CardinalityType DEF Count

\* Count as an operator of the stages alone, which relates two states.
CountIn(p, K, T) == Cardinality({b \in K : p[b] \in T})

LEMMA CountInState ==
  ASSUME NEW K, NEW T
  PROVE  Count(K, T) = CountIn(pc, K, T) /\ Count(K, T)' = CountIn(pc', K, T)
BY DEF Count, At, CountIn

\* What every count does when atom a goes from one stage to another.
Moved(a, from, to) ==
  \A K \in SUBSET Atom : \A T :
    /\ a \notin K \/ (from \in T <=> to \in T) => CountIn(pc', K, T) = CountIn(pc, K, T)
    /\ a \in K /\ from \notin T /\ to \in T => CountIn(pc', K, T) = CountIn(pc, K, T) + 1
    /\ a \in K /\ from \in T /\ to \notin T => CountIn(pc', K, T) = CountIn(pc, K, T) - 1

LEMMA CountMovePc ==
  ASSUME pc \in [Atom -> Stage], NEW a \in Atom, NEW to, pc' = [pc EXCEPT ![a] = to]
  PROVE  Moved(a, pc[a], to)
<1> SUFFICES ASSUME NEW K \in SUBSET Atom, NEW T
             PROVE  /\ a \notin K \/ (pc[a] \in T <=> to \in T) =>
                         CountIn(pc', K, T) = CountIn(pc, K, T)
                    /\ a \in K /\ pc[a] \notin T /\ to \in T =>
                         CountIn(pc', K, T) = CountIn(pc, K, T) + 1
                    /\ a \in K /\ pc[a] \in T /\ to \notin T =>
                         CountIn(pc', K, T) = CountIn(pc, K, T) - 1
  BY DEF Moved
<1> DEFINE P == {b \in K : pc[b] \in T}
           Q == {b \in K : pc'[b] \in T}
<1>1. IsFiniteSet(P)
  <2>1. IsFiniteSet(Atom)
    BY FS_Union, AtomAssumption DEF Atom
  <2> QED
    BY <2>1, FS_Subset
<1>2. ASSUME a \notin K \/ (pc[a] \in T <=> to \in T)
      PROVE  CountIn(pc', K, T) = CountIn(pc, K, T)
  <2>1. Q = P
    BY <1>2
  <2> QED
    BY <2>1 DEF CountIn
<1>3. ASSUME a \in K, pc[a] \notin T, to \in T
      PROVE  CountIn(pc', K, T) = CountIn(pc, K, T) + 1
  <2>1. Q = P \cup {a} /\ a \notin P
    BY <1>3
  <2>2. Cardinality(P \cup {a}) = Cardinality(P) + 1
    BY <1>1, <2>1, FS_AddElement
  <2> QED
    BY <2>1, <2>2 DEF CountIn
<1>4. ASSUME a \in K, pc[a] \in T, to \notin T
      PROVE  CountIn(pc', K, T) = CountIn(pc, K, T) - 1
  <2>1. Q = P \ {a} /\ a \in P
    BY <1>4
  <2>2. Cardinality(P \ {a}) = Cardinality(P) - 1
    BY <1>1, <2>1, FS_RemoveElement
  <2> QED
    BY <2>1, <2>2 DEF CountIn
<1> QED
  BY <1>2, <1>3, <1>4

LEMMA CountMove ==
  ASSUME TypeOK, NEW a \in Atom, NEW to, pc' = [pc EXCEPT ![a] = to]
  PROVE  Moved(a, pc[a], to)
BY CountMovePc DEF TypeOK

\* How both programs compute the hydrogens that are missing: what the carbons need
\* less what was drawn, even if that is negative.
LEMMA LeftOver ==
  ASSUME NEW c \in Nat, NEW h \in Nat
  PROVE  (c - (h \div Valence)) * Valence - (h % Valence) = Valence * c - h
<1> DEFINE q == h \div Valence
           r == h % Valence
<1>1. Valence \in Nat \ {0}
  BY AtomAssumption
<1>2. q \in Nat /\ r \in Nat /\ h = Valence * q + r
  BY <1>1
<1> HIDE DEF q, r
<1>3. (c - q) * Valence = Valence * c - Valence * q
  BY <1>1, <1>2
<1>4. (c - q) * Valence - r = Valence * c - h
  BY <1>1, <1>2, <1>3
<1> QED
  BY <1>4 DEF q, r

\* Nothing moves, no count changes.
LEMMA CountStays ==
  ASSUME UNCHANGED pc, NEW K, NEW T
  PROVE  /\ At(K, T)' = At(K, T)
         /\ Count(K, T)' = Count(K, T)
BY DEF Count, At

-----------------------------------------------------------------------------
(* Type correctness and mutual exclusion *)

\* Partners is the bound of the loop variable.
LEMMA PartnersType ==
  ASSUME NEW a \in Atom
  PROVE  Partners(a) \in 0 .. Valence
BY AtomAssumption DEF Partners

\* A step keeps every variable in its type.  waiting_h and waiting_c stay
\* naturals because a bonder takes off no more than it found (BonderInv).
LEMMA TypeStep ==
  ASSUME BarrierInv, NEW a \in Atom, Spawn(a) \/ AtomStep(a)
  PROVE  TypeOK'
<1> USE AtomAssumption, PartnersType DEF BarrierInv, TypeOK, Stage, Semaphore
<1>1. CASE Spawn(a) \/ Lock(a) \/ Bond(a) \/ Queue(a)
  BY <1>1 DEF Spawn, Lock, Bond, Queue, Goto, my_sem_wait
<1>2. CASE HandH(a)
  BY <1>2 DEF HandH, my_sem_sig
<1>3. CASE TakeH(a)
  <2>1. waiting_h - Partners(a) \in Nat
    BY <1>3 DEF TakeH, Goto, BonderInv, Enough
  <2> QED
    BY <1>3, <2>1 DEF TakeH, Goto
<1>4. CASE HandC(a) \/ Unlock(a) \/ UnlockWait(a)
  BY <1>4 DEF HandC, Unlock, UnlockWait, Goto, my_sem_sig
<1>5. CASE TakeC(a)
  <2>1. waiting_c - 1 \in Nat
    BY <1>5 DEF TakeC, Goto, BonderInv
  <2> QED
    BY <1>5, <2>1 DEF TakeC, Goto
<1>6. CASE Wake(a)
  BY <1>6 DEF Wake, Goto, my_sem_wait
<1> QED
  BY <1>1, <1>2, <1>3, <1>4, <1>5, <1>6 DEF AtomStep

\* Only the atom that took S is between wait(S) and sig(S).
LEMMA MutexStep ==
  ASSUME BarrierInv, NEW a \in Atom, Spawn(a) \/ AtomStep(a)
  PROVE  MutualExclusion'
<1> USE DEF BarrierInv, TypeOK, MutualExclusion, At, Holding, Bonding, Goto, Semaphore
<1>1. CASE Lock(a)
  <2>1. At(Atom, Holding)' = {a}
    BY <1>1 DEF Lock, my_sem_wait
  <2> QED
    BY <1>1, <2>1 DEF Lock, my_sem_wait
<1>2. CASE Unlock(a) \/ UnlockWait(a)
  <2>1. At(Atom, Holding)' = {}
    BY <1>2 DEF Unlock, UnlockWait
  <2>2. sem["S"] = 0
    BY <1>2 DEF Unlock, UnlockWait
  <2> QED
    BY <1>2, <2>1, <2>2 DEF Unlock, UnlockWait, my_sem_sig
<1>3. CASE Spawn(a) \/ Wake(a) \/ Bond(a) \/ Queue(a) \/ TakeH(a) \/ HandC(a) \/ TakeC(a) \/ HandH(a)
  <2>1. At(Atom, Holding)' = At(Atom, Holding)
    BY <1>3 DEF Spawn, Wake, Bond, Queue, TakeH, HandC, TakeC, HandH
  <2>2. sem'["S"] = sem["S"]
    BY <1>3 DEF Spawn, Wake, Bond, Queue, TakeH, HandC, TakeC, HandH, my_sem_wait, my_sem_sig
  <2> QED
    BY <2>1, <2>2
<1> QED
  BY <1>1, <1>2, <1>3 DEF AtomStep

\* The holder of S is alone: no other atom is at a stage between its wait(S)
\* and sig(S).
LEMMA Alone ==
  ASSUME BarrierInv, NEW a \in At(Atom, Holding), NEW b \in Atom, b # a
  PROVE  pc[b] \notin Holding
BY DEF BarrierInv, MutualExclusion, At

-----------------------------------------------------------------------------
(* The conjuncts about the bonder and the counters *)

\* The loop variable stays within the bonder's partners.
LEMMA LoopStep ==
  ASSUME BarrierInv, NEW a \in Atom, Spawn(a) \/ AtomStep(a)
  PROVE  LoopInv'
<1> USE PartnersType, AtomAssumption DEF BarrierInv, TypeOK, LoopInv, Goto, Partners
<1>1. CASE HandH(a)
  BY <1>1 DEF HandH
<1>2. CASE TakeH(a)
  BY <1>2 DEF TakeH
<1>3. CASE Spawn(a) \/ Lock(a) \/ Bond(a) \/ Queue(a) \/ HandC(a) \/ TakeC(a)
           \/ Unlock(a) \/ UnlockWait(a) \/ Wake(a)
  BY <1>3 DEF Spawn, Lock, Bond, Queue, HandC, TakeC, Unlock, UnlockWait, Wake
<1> QED
  BY <1>1, <1>2, <1>3 DEF AtomStep

\* What a bonder found on the counters is there until it takes it off: the
\* counters change only in the steps of the holder of S.
LEMMA BonderStep ==
  ASSUME BarrierInv, NEW a \in Atom, Spawn(a) \/ AtomStep(a)
  PROVE  BonderInv'
<1> USE AtomAssumption DEF BarrierInv, TypeOK, BonderInv, Goto, Enough, Partners, Atom
<1>1. CASE Spawn(a) \/ Lock(a) \/ HandH(a) \/ Unlock(a) \/ UnlockWait(a) \/ Wake(a)
  BY <1>1 DEF Spawn, Lock, HandH, Unlock, UnlockWait, Wake
<1>2. CASE Bond(a) \/ HandC(a)
  BY <1>2 DEF Bond, HandC
<1>3. CASE Queue(a) \/ TakeH(a) \/ TakeC(a)
  <2>1. a \in At(Atom, Holding)
    BY <1>3 DEF Queue, TakeH, TakeC, At, Holding, Bonding
  <2>2. \A b \in Atom \ {a} : pc'[b] \notin Holding
    BY <1>3, <2>1, Alone DEF Queue, TakeH, TakeC
  <2> QED
    BY <1>3, <2>2 DEF Queue, TakeH, TakeC, Holding, Bonding
<1> QED
  BY <1>1, <1>2, <1>3 DEF AtomStep

\* Nobody goes to sleep when its molecule is complete.
LEMMA MissedStep ==
  ASSUME BarrierInv, NEW a \in Atom, Spawn(a) \/ AtomStep(a)
  PROVE  NoMissedMolecule'
<1> USE AtomAssumption, PartnersType
    DEF BarrierInv, TypeOK, NoMissedMolecule
<1>1. CASE Queue(a)
  BY <1>1 DEF Queue, Enough, Partners, Atom
<1>2. CASE TakeH(a)
  BY <1>2 DEF TakeH
<1>3. CASE TakeC(a)
  BY <1>3 DEF TakeC, Goto, BonderInv
<1>4. CASE Spawn(a) \/ Lock(a) \/ Bond(a) \/ HandH(a) \/ HandC(a) \/ Unlock(a)
           \/ UnlockWait(a) \/ Wake(a)
  BY <1>4 DEF Spawn, Lock, Bond, HandH, HandC, Unlock, UnlockWait, Wake
<1> QED
  BY <1>1, <1>2, <1>3, <1>4 DEF AtomStep

\* No step of the barrier ends an atom other than by crossing.
LEMMA LostStep ==
  ASSUME IInv, NEW a \in Atom, Spawn(a) \/ AtomStep(a)
  PROVE  NobodyLost'
BY DEF IInv, BarrierInv, TypeOK, NobodyLost, At, AtomStep, Goto, Spawn, Lock, Bond, Queue,
       HandH, TakeH, HandC, TakeC, Unlock, UnlockWait, Wake

-----------------------------------------------------------------------------
(* Tokens and molecules *)

\* The bonder at its loop, if there is one, is the only one there; a step of
\* an atom that is not at the loop leaves it alone.
LEMMA HandMove ==
  ASSUME BarrierInv, NEW a \in Atom, NEW to \in Stage,
         pc' = [pc EXCEPT ![a] = to]
  PROVE  /\ pc[a] # "hand" /\ to # "hand" => At(Atom, {"hand"})' = At(Atom, {"hand"})
         /\ pc[a] \in Holding /\ to = "hand" => At(Atom, {"hand"})' = {a}
         /\ pc[a] \in Holding /\ pc[a] # "hand" => At(Atom, {"hand"}) = {}
         /\ pc[a] = "hand" => At(Atom, {"hand"}) = {a}
         /\ pc[a] = "hand" /\ to # "hand" => At(Atom, {"hand"})' = {}
<1> USE DEF BarrierInv, TypeOK, At
<1>1. pc[a] # "hand" /\ to # "hand" => At(Atom, {"hand"})' = At(Atom, {"hand"})
  OBVIOUS
<1>2. ASSUME pc[a] \in Holding
      PROVE  \A b \in Atom : b # a => pc[b] # "hand" /\ pc'[b] # "hand"
  BY <1>2, Alone DEF Holding, Bonding
<1> QED
  BY <1>1, <1>2 DEF Holding, Bonding

\* Which stages are which: the names alone, so that steps need no definition.
LEMMA StageNames ==
  /\ Stage = Holding \cup {"unborn", "entry", "wait", "exit", "failed", "crashed", "expelled"}
  /\ {"entry", "check", "hand", "handC", "takeC", "unlock", "unlockwait", "wait", "exit"}
       \subseteq Stage
  /\ Bonding \cap Queued = {}
  /\ {"hand", "handC", "takeC", "unlock"} \subseteq Bonding
  /\ {"unborn", "entry", "check", "unlockwait", "wait", "exit"} \cap Bonding = {}
  /\ {"check", "hand", "handC", "takeC", "unlock", "unlockwait"} \subseteq Holding
  /\ {"unlockwait", "wait"} \subseteq Queued
  /\ {"unborn", "entry", "check", "hand", "handC", "takeC", "unlock", "exit"} \cap Queued = {}
BY DEF Stage, Holding, Bonding, Queued

\* A signalled token meets a queued atom, step by step.
LEMMA TokenStep ==
  ASSUME BarrierInv, NEW a \in Atom, Spawn(a) \/ AtomStep(a)
  PROVE  TokenInv'
<1> DEFINE qh == Count(Hydrogen, Queued)
           qc == Count(Carbon, Queued)
           tc == Count(Hydrogen, {"takeC"})
           hand == At(Atom, {"hand"})
<1>1. Hydrogen \in SUBSET Atom /\ Carbon \in SUBSET Atom
  BY DEF Atom
<1>2. qh \in Nat /\ qc \in Nat /\ tc \in Nat
  BY <1>1, CountType
<1>3. a \in Carbon <=> a \notin Hydrogen
  BY AtomAssumption DEF Atom
<1>4. /\ TypeOK /\ LoopInv /\ BonderInv /\ TokenInv
      /\ sem["SH"] \in Nat /\ sem["SC"] \in Nat /\ waiting_h \in Nat /\ waiting_c \in Nat
      /\ Partners(a) \in Nat /\ signalled[a] \in Nat
  BY PartnersType DEF BarrierInv, TypeOK, Semaphore
<1>0. /\ qh = CountIn(pc, Hydrogen, Queued) /\ qh' = CountIn(pc', Hydrogen, Queued)
      /\ qc = CountIn(pc, Carbon, Queued) /\ qc' = CountIn(pc', Carbon, Queued)
      /\ tc = CountIn(pc, Hydrogen, {"takeC"}) /\ tc' = CountIn(pc', Hydrogen, {"takeC"})
      /\ pc \in [Atom -> Stage]
  BY <1>4, CountInState DEF TypeOK
<1>5. CASE Spawn(a) \/ Lock(a) \/ UnlockWait(a) \/ Unlock(a)
  <2>1. PICK to \in {"entry", "check", "wait", "exit"} :
          /\ pc' = [pc EXCEPT ![a] = to]
          /\ Moved(a, pc[a], to)
          /\ pc[a] \in Queued <=> to \in Queued
          /\ pc[a] \notin {"hand", "takeC"}
    BY <1>4, <1>5, CountMove DEF Spawn, Lock, UnlockWait, Unlock, Goto, Queued
  <2>2. qh' = qh /\ qc' = qc /\ tc' = tc
    BY <1>0, <1>1, <2>1, StageNames DEF Moved
  <2>3. hand' = hand
    BY <2>1, HandMove, StageNames
  <2>4. /\ sem'["SH"] = sem["SH"] /\ sem'["SC"] = sem["SC"]
        /\ UNCHANGED <<waiting_h, waiting_c, signalled>>
    BY <1>4, <1>5 DEF Spawn, Lock, UnlockWait, Unlock, my_sem_wait, my_sem_sig, TypeOK, Semaphore
  <2> QED
    BY <1>4, <2>2, <2>3, <2>4 DEF TokenInv
<1>6. CASE Bond(a)
  <2>1. /\ pc' = [pc EXCEPT ![a] = "hand"] /\ pc[a] = "check"
        /\ Moved(a, "check", "hand")
    BY <1>4, <1>6, CountMove DEF Bond, Goto
  <2>2. qh' = qh /\ qc' = qc /\ tc' = tc
    BY <1>0, <1>1, <2>1, StageNames DEF Moved
  <2>3. hand = {} /\ hand' = {a}
    BY <2>1, HandMove, StageNames
  <2>4. signalled[a] = 0
    BY <1>4, <2>1 DEF LoopInv
  <2> QED
    BY <1>6, <2>2, <2>3, <2>4, <1>2, <1>4 DEF Bond, TokenInv
<1>7. CASE Queue(a)
  <2>1. /\ pc' = [pc EXCEPT ![a] = "unlockwait"] /\ pc[a] = "check"
        /\ Moved(a, "check", "unlockwait")
    BY <1>4, <1>7, CountMove DEF Queue, Goto
  <2>2. qh' = IF a \in Hydrogen THEN qh + 1 ELSE qh
    BY <1>0, <1>1, <2>1, StageNames DEF Moved
  <2>3. qc' = IF a \in Carbon THEN qc + 1 ELSE qc
    BY <1>0, <1>1, <2>1, StageNames DEF Moved
  <2>4. tc' = tc
    BY <1>0, <1>1, <2>1, StageNames DEF Moved
  <2>5. hand = {} /\ hand' = {}
    <3>1. hand = {}
      <4>1. pc[a] \in Holding /\ pc[a] # "hand" /\ "unlockwait" \in Stage
        BY <2>1, StageNames
      <4> QED
        BY <2>1, <4>1, HandMove
    <3>2. hand' = hand
      BY <2>1, HandMove, StageNames
    <3> QED
      BY <3>1, <3>2
  <2>6. /\ waiting_h' = IF a \in Hydrogen THEN waiting_h + 1 ELSE waiting_h
        /\ waiting_c' = IF a \in Carbon THEN waiting_c + 1 ELSE waiting_c
        /\ UNCHANGED sem
    BY <1>7 DEF Queue
  <2>7. qh = sem["SH"] + waiting_h /\ qc = sem["SC"] + waiting_c - tc
    BY <1>4, <2>5 DEF TokenInv
  <2>8. qh' = sem'["SH"] + waiting_h'
    BY <1>2, <1>4, <2>2, <2>6, <2>7
  <2>9. qc' = sem'["SC"] + waiting_c' - tc'
    BY <1>2, <1>4, <2>3, <2>4, <2>6, <2>7
  <2> QED
    BY <2>5, <2>8, <2>9 DEF TokenInv
<1>8. CASE HandH(a)
  <2>1. /\ pc' = pc /\ pc[a] = "hand"
        /\ pc' = [pc EXCEPT ![a] = "hand"]
    BY <1>4, <1>8 DEF HandH, TypeOK
  <2>2. qh' = qh /\ qc' = qc /\ tc' = tc /\ hand' = hand
    BY <2>1, CountStays
  <2>3. hand = {a}
    BY <2>1, HandMove, StageNames
  <2>4. /\ sem'["SH"] = sem["SH"] + 1 /\ sem'["SC"] = sem["SC"]
        /\ signalled'[a] = signalled[a] + 1
        /\ UNCHANGED <<waiting_h, waiting_c>>
    BY <1>4, <1>8 DEF HandH, my_sem_sig, TypeOK, Semaphore
  <2> QED
    BY <2>2, <2>3, <2>4, <1>2, <1>4 DEF TokenInv
<1>9. CASE TakeH(a)
  <2>1. PICK to \in {"unlock", "handC"} :
          /\ pc' = [pc EXCEPT ![a] = to]
          /\ Moved(a, "hand", to)
    BY <1>4, <1>9, CountMove DEF TakeH, Goto
  <2>2. pc[a] = "hand"
    BY <1>9 DEF TakeH, Goto
  <2>3. qh' = qh /\ qc' = qc /\ tc' = tc
    BY <1>0, <1>1, <2>1, <2>2, StageNames DEF Moved
  <2>4. hand = {a} /\ hand' = {}
    BY <2>1, <2>2, HandMove, StageNames
  <2>5. /\ waiting_h' = waiting_h - signalled[a]
        /\ UNCHANGED <<sem, waiting_c>>
    BY <1>9 DEF TakeH
  <2> QED
    BY <2>3, <2>4, <2>5, <1>2, <1>4 DEF TokenInv
<1>10. CASE HandC(a)
  <2>1. /\ pc' = [pc EXCEPT ![a] = "takeC"] /\ pc[a] = "handC"
        /\ Moved(a, "handC", "takeC")
    BY <1>4, <1>10, CountMove DEF HandC, Goto
  <2>2. a \in Hydrogen
    BY <1>3, <1>4, <2>1 DEF BonderInv
  <2>3. qh' = qh /\ qc' = qc
    BY <1>0, <1>1, <2>1, <2>2, StageNames DEF Moved
  <2>4. tc' = tc + 1
    BY <1>0, <1>1, <2>1, <2>2, StageNames DEF Moved
  <2>5. hand' = hand
    BY <2>1, HandMove, StageNames
  <2>6. /\ sem'["SH"] = sem["SH"] /\ sem'["SC"] = sem["SC"] + 1
        /\ UNCHANGED <<waiting_h, waiting_c, signalled>>
    BY <1>4, <1>10 DEF HandC, my_sem_sig, TypeOK, Semaphore
  <2> QED
    BY <2>3, <2>4, <2>5, <2>6, <1>2, <1>4 DEF TokenInv
<1>11. CASE TakeC(a)
  <2>1. /\ pc' = [pc EXCEPT ![a] = "unlock"] /\ pc[a] = "takeC"
        /\ Moved(a, "takeC", "unlock")
    BY <1>4, <1>11, CountMove DEF TakeC, Goto
  <2>2. a \in Hydrogen
    BY <1>3, <1>4, <2>1 DEF BonderInv
  <2>3. qh' = qh /\ qc' = qc
    BY <1>0, <1>1, <2>1, <2>2, StageNames DEF Moved
  <2>4. tc' = tc - 1
    BY <1>0, <1>1, <2>1, <2>2, StageNames DEF Moved
  <2>5. hand' = hand
    BY <2>1, HandMove, StageNames
  <2>6. waiting_c' = waiting_c - 1 /\ UNCHANGED <<sem, waiting_h, signalled>>
    BY <1>11 DEF TakeC
  <2> QED
    BY <2>3, <2>4, <2>5, <2>6, <1>2, <1>4 DEF TokenInv
<1>12. CASE Wake(a)
  <2>1. /\ pc' = [pc EXCEPT ![a] = "exit"] /\ pc[a] = "wait"
        /\ Moved(a, "wait", "exit")
    BY <1>4, <1>12, CountMove DEF Wake, Goto
  <2>2. qh' = IF a \in Hydrogen THEN qh - 1 ELSE qh
    BY <1>0, <1>1, <2>1, StageNames DEF Moved
  <2>3. qc' = IF a \in Carbon THEN qc - 1 ELSE qc
    BY <1>0, <1>1, <2>1, StageNames DEF Moved
  <2>4. tc' = tc
    BY <1>0, <1>1, <2>1, StageNames DEF Moved
  <2>5. hand' = hand
    BY <2>1, HandMove, StageNames
  <2>6. /\ sem'["SH"] = IF a \in Hydrogen THEN sem["SH"] - 1 ELSE sem["SH"]
        /\ sem'["SC"] = IF a \in Carbon THEN sem["SC"] - 1 ELSE sem["SC"]
        /\ UNCHANGED <<waiting_h, waiting_c, signalled>>
    BY <1>3, <1>4, <1>12 DEF Wake, my_sem_wait, TypeOK, Semaphore
  <2>7. qc' = sem'["SC"] + waiting_c' - tc'
    BY <1>2, <1>4, <2>3, <2>4, <2>6 DEF TokenInv
  <2>8. hand = {} => qh' = sem'["SH"] + waiting_h'
    BY <1>2, <1>4, <2>2, <2>6 DEF TokenInv
  <2>9. ASSUME NEW b \in hand
        PROVE  qh' = sem'["SH"] + waiting_h' - signalled'[b]
    <3>1. qh = sem["SH"] + waiting_h - signalled[b] /\ signalled[b] \in Nat
      BY <1>4 DEF TokenInv, TypeOK, At
    <3> QED
      BY <1>2, <1>4, <2>2, <2>6, <3>1
  <2> QED
    BY <2>5, <2>7, <2>8, <2>9 DEF TokenInv
<1> QED
  BY <1>5, <1>6, <1>7, <1>8, <1>9, <1>10, <1>11, <1>12 DEF AtomStep

\* An atom counts as tested from its test on: going on from there changes no
\* number of tested atoms, the test itself adds the atom.
LEMMA TestedMove ==
  ASSUME TypeOK, NEW a \in Atom, NEW from \in Stage, NEW to \in Stage,
         Moved(a, from, to), NEW K \in SUBSET Atom
  PROVE  LET S == Bonding \cup Queued \cup {"exit"}
         IN  /\ Tested(K) \in Nat
             /\ a \notin K \/ (from \in S <=> to \in S) => Tested(K)' = Tested(K)
             /\ a \in K /\ from \notin S /\ to \in S => Tested(K)' = Tested(K) + 1
<1>1. /\ Count(K, Bonding) = CountIn(pc, K, Bonding)
      /\ Count(K, Queued) = CountIn(pc, K, Queued)
      /\ Count(K, {"exit"}) = CountIn(pc, K, {"exit"})
      /\ Count(K, Bonding)' = CountIn(pc', K, Bonding)
      /\ Count(K, Queued)' = CountIn(pc', K, Queued)
      /\ Count(K, {"exit"})' = CountIn(pc', K, {"exit"})
  BY CountInState
<1>2. /\ Count(K, Bonding) \in Nat
      /\ Count(K, Queued) \in Nat
      /\ Count(K, {"exit"}) \in Nat
  BY CountType
<1>3. Bonding \cap Queued = {} /\ "exit" \notin Bonding /\ "exit" \notin Queued
  BY DEF Bonding, Queued
<1> DEFINE b == CountIn(pc, K, Bonding)    b1 == CountIn(pc', K, Bonding)
           q == CountIn(pc, K, Queued)     q1 == CountIn(pc', K, Queued)
           e == CountIn(pc, K, {"exit"})   e1 == CountIn(pc', K, {"exit"})
<1>4. ASSUME a \notin K
      PROVE  b1 = b /\ q1 = q /\ e1 = e
  BY <1>4 DEF Moved
<1>5. ASSUME a \in K
      PROVE  /\ (from \in Bonding <=> to \in Bonding) => b1 = b
             /\ from \in Bonding /\ to \notin Bonding => b1 = b - 1
             /\ from \notin Bonding /\ to \in Bonding => b1 = b + 1
             /\ (from \in Queued <=> to \in Queued) => q1 = q
             /\ from \in Queued /\ to \notin Queued => q1 = q - 1
             /\ from \notin Queued /\ to \in Queued => q1 = q + 1
             /\ (from = "exit" <=> to = "exit") => e1 = e
             /\ from = "exit" /\ to # "exit" => e1 = e - 1
             /\ from # "exit" /\ to = "exit" => e1 = e + 1
  BY <1>5 DEF Moved
<1>6. Tested(K) = b + q + e /\ Tested(K)' = b1 + q1 + e1
  BY <1>1 DEF Tested
<1>7. b \in Nat /\ q \in Nat /\ e \in Nat
  BY <1>1, <1>2
<1> HIDE DEF b, b1, q, q1, e, e1
<1> QED
  BY <1>3, <1>4, <1>5, <1>6, <1>7

\* Every tested atom is on a counter or in a molecule, step by step.
LEMMA MoleculeStep ==
  ASSUME BarrierInv, NEW a \in Atom, Spawn(a) \/ AtomStep(a)
  PROVE  MoleculeInv'
<1> DEFINE S == Bonding \cup Queued \cup {"exit"}
           th == Tested(Hydrogen)
           tc == Tested(Carbon)
           B == {"hand", "handC", "takeC"}
           bh == Count(Hydrogen, B)
           hand == At(Atom, {"hand"})
           vm == Valence * molecules
<1>1. Hydrogen \in SUBSET Atom /\ Carbon \in SUBSET Atom
  BY DEF Atom
<1>2. a \in Carbon <=> a \notin Hydrogen
  BY AtomAssumption DEF Atom
<1>3. /\ TypeOK /\ LoopInv /\ BonderInv /\ MoleculeInv
      /\ waiting_h \in Nat /\ waiting_c \in Nat /\ molecules \in Nat
      /\ Partners(a) \in Nat /\ vm \in Nat
  BY PartnersType, AtomAssumption DEF BarrierInv, TypeOK
<1>4. /\ bh = CountIn(pc, Hydrogen, B) /\ bh' = CountIn(pc', Hydrogen, B)
      /\ bh \in Nat
  BY <1>1, CountInState, CountType
<1>5. /\ "entry" \notin S /\ "check" \notin S /\ "unborn" \notin S
      /\ {"hand", "handC", "takeC", "unlock", "unlockwait", "wait", "exit"} \subseteq S
  BY DEF Bonding, Queued
<1>6. th \in Nat /\ tc \in Nat
  BY <1>1, CountType DEF Tested
<1> HIDE DEF S, th, tc, bh, vm
<1>7. CASE Spawn(a) \/ Lock(a) \/ UnlockWait(a) \/ Unlock(a) \/ Wake(a) \/ HandC(a)
  <2>1. PICK to \in {"entry", "check", "wait", "exit", "takeC"} :
          /\ pc' = [pc EXCEPT ![a] = to]
          /\ Moved(a, pc[a], to)
          /\ pc[a] \in S <=> to \in S
          /\ pc[a] \in B <=> to \in B
          /\ pc[a] # "hand"
    BY <1>3, <1>5, <1>7, CountMove DEF Spawn, Lock, UnlockWait, Unlock, Wake, HandC, Goto
  <2>2. pc[a] \in Stage /\ to \in Stage
    BY <1>3, <2>1, StageNames DEF TypeOK
  <2>3. th' = th /\ tc' = tc
    <3>1. th' = th
      BY <1>1, <1>3, <2>1, <2>2, TestedMove DEF S, th
    <3>2. tc' = tc
      BY <1>1, <1>3, <2>1, <2>2, TestedMove DEF S, tc
    <3> QED
      BY <3>1, <3>2
  <2>4. bh' = bh
    BY <1>1, <1>4, <2>1 DEF Moved
  <2>5. hand' = hand
    BY <2>1, HandMove, StageNames
  <2>6. UNCHANGED <<waiting_h, waiting_c, molecules>>
    BY <1>7 DEF Spawn, Lock, UnlockWait, Unlock, Wake, HandC
  <2> QED
    BY <1>3, <2>3, <2>4, <2>5, <2>6 DEF MoleculeInv, Partners, th, tc, bh
<1>8. CASE Bond(a)
  <2>1. /\ pc' = [pc EXCEPT ![a] = "hand"] /\ pc[a] = "check"
        /\ Moved(a, "check", "hand")
    BY <1>3, <1>8, CountMove DEF Bond, Goto
  <2>2. /\ th' = IF a \in Hydrogen THEN th + 1 ELSE th
        /\ tc' = IF a \in Carbon THEN tc + 1 ELSE tc
    BY <1>1, <1>3, <1>5, <2>1, TestedMove, StageNames DEF S, th, tc
  <2>3. bh' = IF a \in Hydrogen THEN bh + 1 ELSE bh
    BY <1>1, <1>4, <2>1 DEF Moved
  <2>4. hand = {} /\ hand' = {a}
    BY <2>1, HandMove, StageNames
  <2>5. UNCHANGED <<waiting_h, waiting_c>> /\ molecules' = molecules + 1
    BY <1>8 DEF Bond
  <2>6. Valence * molecules' = vm + Valence
    BY <1>3, <2>5, AtomAssumption DEF vm
  <2>7. Partners(a) = IF a \in Hydrogen THEN Valence - 1 ELSE Valence
    BY <1>2 DEF Partners
  <2>8. th = waiting_h + vm /\ tc = waiting_c + molecules - bh
    BY <1>3, <2>4 DEF MoleculeInv, th, tc, bh, vm
  <2>9. th' = waiting_h' + Valence * molecules' - Partners(a)
    BY <1>3, <1>6, <2>2, <2>5, <2>6, <2>7, <2>8, AtomAssumption
  <2>10. tc' = waiting_c' + molecules' - bh'
    BY <1>2, <1>3, <1>4, <1>6, <2>2, <2>3, <2>5, <2>8
  <2> QED
    BY <2>4, <2>9, <2>10 DEF MoleculeInv, Partners, th, tc, bh
<1>9. CASE Queue(a)
  <2>1. /\ pc' = [pc EXCEPT ![a] = "unlockwait"] /\ pc[a] = "check"
        /\ Moved(a, "check", "unlockwait")
    BY <1>3, <1>9, CountMove DEF Queue, Goto
  <2>2. /\ th' = IF a \in Hydrogen THEN th + 1 ELSE th
        /\ tc' = IF a \in Carbon THEN tc + 1 ELSE tc
    BY <1>1, <1>3, <1>5, <2>1, TestedMove, StageNames DEF S, th, tc
  <2>3. bh' = bh
    BY <1>1, <1>4, <2>1 DEF Moved
  <2>4. hand = {}
    <3>1. pc[a] \in Holding /\ pc[a] # "hand" /\ "unlockwait" \in Stage
      BY <2>1, StageNames
    <3> QED
      BY <2>1, <3>1, HandMove
  <2>5. hand' = {}
    <3>1. hand' = hand
      BY <2>1, HandMove, StageNames
    <3> QED
      BY <2>4, <3>1
  <2>6. /\ waiting_h' = IF a \in Hydrogen THEN waiting_h + 1 ELSE waiting_h
        /\ waiting_c' = IF a \in Carbon THEN waiting_c + 1 ELSE waiting_c
        /\ UNCHANGED molecules
    BY <1>9 DEF Queue
  <2>7. th = waiting_h + vm /\ tc = waiting_c + molecules - bh
    BY <1>3, <2>4 DEF MoleculeInv, th, tc, bh, vm
  <2>8. th' = waiting_h' + Valence * molecules'
    <3>1. Valence * molecules' = vm
      BY <2>6 DEF vm
    <3> QED
      BY <1>3, <1>6, <2>2, <2>6, <2>7, <3>1
  <2>9. tc' = waiting_c' + molecules' - bh'
    BY <1>3, <1>4, <1>6, <2>2, <2>3, <2>6, <2>7
  <2> QED
    BY <2>5, <2>8, <2>9 DEF MoleculeInv, th, tc, bh
<1>10. CASE HandH(a)
  <2>1. UNCHANGED <<pc, waiting_h, waiting_c, molecules>>
    BY <1>10 DEF HandH
  <2>2. th' = th /\ tc' = tc /\ bh' = bh /\ hand' = hand
    BY <2>1, CountStays DEF th, tc, bh, Tested
  <2> QED
    BY <1>3, <2>1, <2>2 DEF MoleculeInv, Partners, th, tc, bh
<1>11. CASE TakeH(a)
  <2>1. PICK to \in {"unlock", "handC"} :
          /\ pc' = [pc EXCEPT ![a] = to] /\ pc[a] = "hand"
          /\ Moved(a, "hand", to)
          /\ to \in B <=> a \in Hydrogen
    BY <1>2, <1>3, <1>11, CountMove DEF TakeH, Goto
  <2>2. th' = th /\ tc' = tc
    BY <1>1, <1>3, <1>5, <2>1, TestedMove, StageNames DEF S, th, tc
  <2>3. bh' = bh
    BY <1>1, <1>4, <2>1 DEF Moved
  <2>4. hand = {a} /\ hand' = {}
    BY <2>1, HandMove, StageNames
  <2>5. /\ waiting_h' = waiting_h - Partners(a)
        /\ UNCHANGED <<waiting_c, molecules>>
    BY <1>11 DEF TakeH
  <2>6. th = waiting_h + vm - Partners(a) /\ tc = waiting_c + molecules - bh
    BY <1>3, <2>4 DEF MoleculeInv, th, tc, bh, vm
  <2>7. th' = waiting_h' + vm
    BY <1>3, <2>2, <2>5, <2>6
  <2> QED
    BY <2>2, <2>3, <2>4, <2>5, <2>6, <2>7 DEF MoleculeInv, th, tc, bh, vm
<1>12. CASE TakeC(a)
  <2>1. /\ pc' = [pc EXCEPT ![a] = "unlock"] /\ pc[a] = "takeC"
        /\ Moved(a, "takeC", "unlock")
    BY <1>3, <1>12, CountMove DEF TakeC, Goto
  <2>2. a \in Hydrogen
    BY <1>2, <1>3, <2>1 DEF BonderInv
  <2>3. th' = th /\ tc' = tc
    BY <1>1, <1>3, <1>5, <2>1, TestedMove, StageNames DEF S, th, tc
  <2>4. bh' = bh - 1
    BY <1>1, <1>4, <2>1, <2>2 DEF Moved
  <2>5. hand' = hand
    BY <2>1, HandMove, StageNames
  <2>6. waiting_c' = waiting_c - 1 /\ UNCHANGED <<waiting_h, molecules>>
    BY <1>12 DEF TakeC
  <2>7. tc = waiting_c + molecules - bh
    BY <1>3 DEF MoleculeInv, tc, bh
  <2>8. tc' = waiting_c' + molecules' - bh'
    BY <1>3, <1>4, <2>3, <2>4, <2>6, <2>7
  <2> QED
    BY <1>3, <2>3, <2>5, <2>6, <2>8 DEF MoleculeInv, Partners, th, tc, bh
<1> QED
  BY <1>7, <1>8, <1>9, <1>10, <1>11, <1>12 DEF AtomStep

-----------------------------------------------------------------------------
(* The theorems *)

\* Nothing counts in the initial state.
LEMMA InitIInv == Init => IInv
<1> SUFFICES ASSUME Init PROVE IInv
  OBVIOUS
<1> USE AtomAssumption DEF Init
<1>1. TypeOK
  BY DEF TypeOK, Stage, Semaphore
<1>2. \A K \in SUBSET Atom : \A T : "unborn" \notin T => At(K, T) = {} /\ Count(K, T) = 0
  BY FS_EmptySet DEF At, Count
<1>3. Hydrogen \in SUBSET Atom /\ Carbon \in SUBSET Atom /\ Atom \in SUBSET Atom
  BY DEF Atom
<1>4. MutualExclusion
  BY <1>2, <1>3 DEF MutualExclusion, Holding, Bonding, Semaphore
<1>5. LoopInv /\ BonderInv
  BY PartnersType DEF LoopInv, BonderInv, Atom
<1>6. /\ Count(Hydrogen, Queued) = 0 /\ Count(Carbon, Queued) = 0
      /\ Count(Hydrogen, Bonding) = 0 /\ Count(Carbon, Bonding) = 0
      /\ Count(Hydrogen, {"exit"}) = 0 /\ Count(Carbon, {"exit"}) = 0
      /\ Count(Hydrogen, {"takeC"}) = 0
      /\ Count(Hydrogen, {"hand", "handC", "takeC"}) = 0
      /\ At(Atom, {"hand"}) = {}
      /\ At(Atom, {"failed", "crashed", "expelled"}) = {}
  BY <1>2, <1>3 DEF Queued, Bonding
<1>7. TokenInv
  BY <1>6 DEF TokenInv, Semaphore
<1>8. MoleculeInv
  BY <1>6 DEF MoleculeInv, Tested
<1> QED
  BY <1>1, <1>4, <1>5, <1>6, <1>7, <1>8 DEF IInv, BarrierInv, NoMissedMolecule, NobodyLost

\* A step of an atom preserves the invariant, whether or not others are lost.
LEMMA BarrierStep ==
  ASSUME BarrierInv, NEW a \in Atom, Spawn(a) \/ AtomStep(a)
  PROVE  BarrierInv'
BY TypeStep, MutexStep, LoopStep, BonderStep, TokenStep, MoleculeStep, MissedStep
   DEF BarrierInv

\* So does a step that leaves the barrier alone.
LEMMA BarrierStutter == BarrierInv /\ UNCHANGED barrierVars => BarrierInv'
BY DEF barrierVars, BarrierInv, TypeOK, MutualExclusion, LoopInv, BonderInv, TokenInv,
       MoleculeInv, Tested, NoMissedMolecule, Enough, Count, At

\* A step of any atom, or a stuttering step, preserves IInv.
LEMMA NextIInv == IInv /\ [Next]_barrierVars => IInv'
<1> SUFFICES ASSUME IInv, [Next]_barrierVars
             PROVE  IInv'
  OBVIOUS
<1>1. ASSUME NEW a \in Atom, Spawn(a) \/ AtomStep(a)
      PROVE  IInv'
  BY <1>1, BarrierStep, LostStep DEF IInv
<1>2. CASE UNCHANGED barrierVars
  BY <1>2, BarrierStutter DEF barrierVars, IInv, NobodyLost, At
<1> QED
  BY <1>1, <1>2 DEF Next

\* The inductive invariant holds in every reachable state.
THEOREM InductiveInvariant == Spec => []IInv
BY InitIInv, NextIInv, PTL DEF Spec

\* Every variable keeps its type; in particular the counters of the shared
\* memory never go below zero.
THEOREM TypeCorrect == Spec => []TypeOK
<1>1. IInv => TypeOK
  BY DEF IInv, BarrierInv
<1> QED
  BY <1>1, InductiveInvariant, PTL

\* At most one atom is between wait(S) and sig(S).
THEOREM MutexHolds == Spec => []MutualExclusion
<1>1. IInv => MutualExclusion
  BY DEF IInv, BarrierInv
<1> QED
  BY <1>1, InductiveInvariant, PTL

\* No atom goes to sleep while its molecule is complete.
THEOREM NoMoleculeMissed == Spec => []NoMissedMolecule
<1>1. IInv => NoMissedMolecule
  BY DEF IInv, BarrierInv
<1> QED
  BY <1>1, InductiveInvariant, PTL

\* Handed is the loop variable of the bonder, whichever it is.
LEMMA TokensByInv == BarrierInv => TokensMatchWaiters
<1> SUFFICES ASSUME BarrierInv PROVE TokensMatchWaiters
  OBVIOUS
<1>1. CASE At(Atom, {"hand"}) = {}
  <2>1. Handed = 0
    BY <1>1 DEF Handed
  <2>2. waiting_h \in Nat /\ sem["SH"] \in Nat
    BY DEF BarrierInv, TypeOK, Semaphore
  <2> QED
    BY <1>1, <2>1, <2>2 DEF BarrierInv, TokenInv, TokensMatchWaiters
<1>2. CASE At(Atom, {"hand"}) # {}
  <2>1. PICK a \in At(Atom, {"hand"}) : Handed = signalled[a]
    BY <1>2 DEF Handed
  <2> QED
    BY <2>1 DEF BarrierInv, TokenInv, TokensMatchWaiters
<1> QED
  BY <1>1, <1>2

\* Every queued atom is on its counter or has a token: none is lost, none is
\* made up.
THEOREM NoTokenLost == Spec => []TokensMatchWaiters
<1>1. IInv => TokensMatchWaiters
  BY TokensByInv DEF IInv
<1> QED
  BY <1>1, InductiveInvariant, PTL

\* The counting argument: the tested atoms of a kind are those on the counter and
\* those in molecules, and the queued ones account for counter and tokens; what
\* is left for the bonders and the exit is at most the molecules.
LEMMA PlacesInMolecules ==
  ASSUME BarrierInv
  PROVE  /\ Count(Hydrogen, Bonding) + Count(Hydrogen, {"exit"}) <= Valence * molecules
         /\ Count(Carbon, Bonding) + Count(Carbon, {"exit"}) <= molecules
<1> DEFINE qh == Count(Hydrogen, Queued)    qc == Count(Carbon, Queued)
           bh == Count(Hydrogen, Bonding)   bc == Count(Carbon, Bonding)
           eh == Count(Hydrogen, {"exit"})  ec == Count(Carbon, {"exit"})
           t == Count(Hydrogen, {"takeC"})
           b == Count(Hydrogen, {"hand", "handC", "takeC"})
           vm == Valence * molecules
<1>1. Hydrogen \in SUBSET Atom /\ Carbon \in SUBSET Atom
  BY DEF Atom
<1>2. /\ qh \in Nat /\ qc \in Nat /\ bh \in Nat /\ bc \in Nat
      /\ eh \in Nat /\ ec \in Nat /\ t \in Nat /\ b \in Nat
  BY <1>1, CountType
<1>3. /\ sem["SH"] \in Nat /\ sem["SC"] \in Nat
      /\ waiting_h \in Nat /\ waiting_c \in Nat /\ molecules \in Nat /\ vm \in Nat
  BY AtomAssumption DEF BarrierInv, TypeOK, Semaphore
<1>4. t <= b
  <2>1. At(Hydrogen, {"takeC"}) \in SUBSET At(Hydrogen, {"hand", "handC", "takeC"})
    BY DEF At
  <2>2. IsFiniteSet(At(Hydrogen, {"hand", "handC", "takeC"}))
    BY <1>1, CountType
  <2> QED
    BY <2>1, <2>2, FS_Subset DEF Count
<1>5. /\ qc = sem["SC"] + waiting_c - t
      /\ bc + qc + ec = waiting_c + molecules - b
  BY DEF BarrierInv, TokenInv, MoleculeInv, Tested
<1>6. bh + eh <= vm
  <2>1. CASE At(Atom, {"hand"}) = {}
    <3>1. qh = sem["SH"] + waiting_h /\ bh + qh + eh = waiting_h + vm
      BY <2>1 DEF BarrierInv, TokenInv, MoleculeInv, Tested
    <3> HIDE DEF qh, bh, eh, vm
    <3> QED
      BY <1>2, <1>3, <3>1
  <2>2. ASSUME NEW a \in At(Atom, {"hand"})
        PROVE  bh + eh <= vm
    <3>1. /\ qh = sem["SH"] + waiting_h - signalled[a]
          /\ bh + qh + eh = waiting_h + vm - Partners(a)
      BY DEF BarrierInv, TokenInv, MoleculeInv, Tested
    <3>2. /\ signalled[a] \in Nat /\ Partners(a) \in Nat
          /\ signalled[a] <= Partners(a)
      BY PartnersType DEF BarrierInv, TypeOK, LoopInv, At
    <3> HIDE DEF qh, bh, eh, vm
    <3> QED
      BY <1>2, <1>3, <3>1, <3>2
  <2> QED
    BY <2>1, <2>2
<1>7. bc + ec <= molecules
  <2> HIDE DEF qc, bc, ec, t, b
  <2> QED
    BY <1>2, <1>3, <1>4, <1>5
<1> QED
  BY <1>6, <1>7

LEMMA WholeByInv == BarrierInv => WholeMolecules
<1> SUFFICES ASSUME BarrierInv PROVE WholeMolecules
  OBVIOUS
<1>1. Hydrogen \in SUBSET Atom /\ Carbon \in SUBSET Atom
  BY DEF Atom
<1>2. /\ Count(Hydrogen, Bonding) \in Nat /\ Count(Hydrogen, {"exit"}) \in Nat
      /\ Count(Carbon, Bonding) \in Nat /\ Count(Carbon, {"exit"}) \in Nat
  BY <1>1, CountType
<1>3. molecules \in Nat /\ Valence * molecules \in Nat
  BY AtomAssumption DEF BarrierInv, TypeOK
<1> QED
  BY <1>2, <1>3, PlacesInMolecules DEF WholeMolecules

\* Atoms cross only as parts of whole molecules.
THEOREM OnlyWholeMolecules == Spec => []WholeMolecules
<1>1. IInv => WholeMolecules
  BY WholeByInv DEF IInv
<1> QED
  BY <1>1, InductiveInvariant, PTL

-----------------------------------------------------------------------------
(* When nobody can go on *)

\* What the atoms look like that are all over or blocked: the mutex is free, the
\* tokens are used up, and everybody who made its test waits on a counter or has
\* crossed with a whole molecule.
LEMMA AllBlocked ==
  ASSUME BarrierInv, \A a \in Atom : pc[a] \in {"unborn", "exit", "failed"} \/ Blocked(a)
  PROVE  /\ \A a \in Atom : pc[a] \in {"unborn", "exit", "failed", "wait"}
         /\ sem["SC"] = 0 /\ sem["SH"] = 0
         /\ Count(Carbon, {"wait"}) = waiting_c
         /\ Count(Hydrogen, {"wait"}) = waiting_h
         /\ Count(Carbon, {"exit"}) = molecules
         /\ Count(Hydrogen, {"exit"}) = Valence * molecules
<1> DEFINE wc == Count(Carbon, {"wait"})    wh == Count(Hydrogen, {"wait"})
           ec == Count(Carbon, {"exit"})    eh == Count(Hydrogen, {"exit"})
           vm == Valence * molecules
<1>1. Hydrogen \in SUBSET Atom /\ Carbon \in SUBSET Atom
  BY DEF Atom
<1>2. wc \in Nat /\ wh \in Nat /\ ec \in Nat /\ eh \in Nat
  BY <1>1, CountType
<1>3. /\ sem["SH"] \in Nat /\ sem["SC"] \in Nat
      /\ waiting_h \in Nat /\ waiting_c \in Nat /\ molecules \in Nat /\ vm \in Nat
  BY AtomAssumption DEF BarrierInv, TypeOK, Semaphore
<1>4. \A a \in Atom : pc[a] \in {"unborn", "exit", "failed", "entry", "wait"}
  BY DEF Blocked
<1>5. At(Atom, Holding) = {}
  BY <1>4 DEF At, Holding, Bonding
<1>6. \A a \in Atom : pc[a] \in {"unborn", "exit", "failed", "wait"}
  <2>1. sem["S"] = 1
    BY <1>5 DEF BarrierInv, MutualExclusion
  <2> QED
    BY <2>1 DEF Blocked
<1>7. ASSUME NEW K \in {Carbon, Hydrogen}
      PROVE  /\ Count(K, Bonding) = 0 /\ Count(K, {"hand", "handC", "takeC"}) = 0
             /\ Count(K, {"takeC"}) = 0
             /\ Count(K, Queued) = Count(K, {"wait"})
  <2>1. /\ At(K, Bonding) = {} /\ At(K, {"hand", "handC", "takeC"}) = {}
        /\ At(K, {"takeC"}) = {}
        /\ At(K, Queued) = At(K, {"wait"})
    BY <1>6 DEF At, Bonding, Queued, Atom
  <2> QED
    BY <2>1, FS_EmptySet DEF Count
<1>8. /\ wh = sem["SH"] + waiting_h
      /\ wh + eh = waiting_h + vm
      /\ wc = sem["SC"] + waiting_c
      /\ wc + ec = waiting_c + molecules
  <2>1. At(Atom, {"hand"}) = {}
    BY <1>6 DEF At
  <2>2. /\ Count(Hydrogen, Queued) = sem["SH"] + waiting_h
        /\ Count(Hydrogen, Bonding) + Count(Hydrogen, Queued) + eh = waiting_h + vm
        /\ Count(Carbon, Queued) = sem["SC"] + waiting_c - Count(Hydrogen, {"takeC"})
        /\ Count(Carbon, Bonding) + Count(Carbon, Queued) + ec =
             waiting_c + molecules - Count(Hydrogen, {"hand", "handC", "takeC"})
    BY <2>1 DEF BarrierInv, TokenInv, MoleculeInv, Tested
  <2> HIDE DEF wc, wh, ec, eh, vm
  <2>3. /\ 0 + wh + eh = waiting_h + vm /\ wh = sem["SH"] + waiting_h
        /\ wc = sem["SC"] + waiting_c - 0 /\ 0 + wc + ec = waiting_c + molecules - 0
    BY <1>7, <2>2 DEF wc, wh
  <2> QED
    BY <1>2, <1>3, <2>3
<1>9. sem["SH"] = 0
  <2>1. CASE At(Hydrogen, {"wait"}) = {}
    <3>1. wh = 0
      BY <2>1, FS_EmptySet DEF Count
    <3> HIDE DEF wh
    <3> QED
      BY <1>3, <1>8, <3>1
  <2>2. ASSUME NEW a \in At(Hydrogen, {"wait"})
        PROVE  sem["SH"] = 0
    BY <2>2, AtomAssumption DEF At, Blocked, Atom
  <2> QED
    BY <2>1, <2>2
<1>10. sem["SC"] = 0
  <2>1. CASE At(Carbon, {"wait"}) = {}
    <3>1. wc = 0
      BY <2>1, FS_EmptySet DEF Count
    <3> HIDE DEF wc
    <3> QED
      BY <1>3, <1>8, <3>1
  <2>2. ASSUME NEW a \in At(Carbon, {"wait"})
        PROVE  sem["SC"] = 0
    BY <2>2 DEF At, Blocked, Atom
  <2> QED
    BY <2>1, <2>2
<1>11. wh = waiting_h /\ eh = vm /\ wc = waiting_c /\ ec = molecules
  <2> HIDE DEF wc, wh, ec, eh, vm
  <2> QED
    BY <1>2, <1>3, <1>8, <1>9, <1>10
<1> QED
  BY <1>6, <1>9, <1>10, <1>11

\* The stages of an atom that has been started.
Alive == Stage \ {"unborn"}

\* If moreover no atom has failed, the atoms started are whole molecules and what
\* the counters say; with enough hydrogens for the carbons no carbon waits.
LEMMA NobodyMissing ==
  ASSUME BarrierInv, \A a \in Atom : pc[a] \in {"unborn", "exit"} \/ Blocked(a)
  PROVE  /\ Count(Carbon, Alive) = waiting_c + molecules
         /\ Count(Hydrogen, Alive) = waiting_h + Valence * molecules
         /\ Count(Hydrogen, Alive) >= Valence * Count(Carbon, Alive) => waiting_c = 0
<1> DEFINE vm == Valence * molecules
           vc == Valence * Count(Carbon, Alive)
<1>1. /\ \A a \in Atom : pc[a] \in {"unborn", "exit", "wait"}
      /\ Count(Carbon, {"wait"}) = waiting_c /\ Count(Hydrogen, {"wait"}) = waiting_h
      /\ Count(Carbon, {"exit"}) = molecules /\ Count(Hydrogen, {"exit"}) = vm
  BY AllBlocked DEF Blocked
<1>2. ASSUME NEW K \in {Carbon, Hydrogen}
      PROVE  Count(K, Alive) = Count(K, {"wait"}) + Count(K, {"exit"})
  <2> DEFINE W == At(K, {"wait"})  E == At(K, {"exit"})
  <2>1. At(K, Alive) = W \cup E /\ W \cap E = {}
    BY <1>1 DEF At, Alive, Stage, Atom
  <2>2. IsFiniteSet(W) /\ IsFiniteSet(E) /\ Cardinality(W) \in Nat /\ Cardinality(E) \in Nat
    BY CountType, FS_CardinalityType DEF Atom
  <2> HIDE DEF W, E
  <2>3. Cardinality(W \cup E) = Cardinality(W) + Cardinality(E) - Cardinality(W \cap E)
    BY <2>2, FS_Union
  <2>4. Cardinality(W \cap E) = 0
    BY <2>1, FS_EmptySet
  <2>5. Cardinality(W \cup E) = Cardinality(W) + Cardinality(E)
    BY <2>2, <2>3, <2>4
  <2> QED
    BY <2>1, <2>5 DEF Count, W, E
<1>3. /\ Count(Carbon, Alive) = waiting_c + molecules
      /\ Count(Hydrogen, Alive) = waiting_h + vm
  BY <1>1, <1>2
<1>4. ASSUME vc <= Count(Hydrogen, Alive), waiting_c # 0
      PROVE  FALSE
  <2>1. /\ waiting_c \in Nat /\ waiting_h \in Nat /\ molecules \in Nat
        /\ Valence \in Nat \ {0} /\ waiting_h < Valence
    BY <1>4, AtomAssumption DEF BarrierInv, TypeOK, NoMissedMolecule
  <2>2. vc = Valence * waiting_c + vm /\ Valence * waiting_c >= Valence
    BY <1>3, <1>4, <2>1
  <2> DEFINE vw == Valence * waiting_c
  <2>3. vw \in Nat /\ vm \in Nat
    BY <2>1
  <2>4. vw + vm <= waiting_h + vm /\ vw >= Valence
    BY <1>3, <1>4, <2>2
  <2> HIDE DEF vw, vm
  <2> QED
    BY <2>1, <2>3, <2>4
<1> QED
  BY <1>3, <1>4, CountType DEF Atom

-----------------------------------------------------------------------------
(* The barrier implements Methane *)

\* The atoms of a kind that arrived are those that made their test.
LEMMA ArrivedCount ==
  ASSUME TypeOK, NobodyLost, NEW K \in SUBSET Atom
  PROVE  Cardinality(Arrived \cap K) = Tested(K)
<1> DEFINE B == At(K, Bonding)  Q == At(K, Queued)  E == At(K, {"exit"})
<1>1. Arrived \cap K = (B \cup Q) \cup E
  BY DEF Arrived, At, NobodyLost
<1>2. IsFiniteSet(B) /\ IsFiniteSet(Q) /\ IsFiniteSet(E)
  BY CountType
<1>3. /\ Cardinality(B) \in Nat /\ Cardinality(Q) \in Nat /\ Cardinality(E) \in Nat
  BY <1>2, FS_CardinalityType
<1>4. Cardinality(B \cap Q) = 0
  <2>1. B \cap Q = {}
    BY DEF At, Bonding, Queued
  <2> QED
    BY <2>1, FS_EmptySet
<1>5. Cardinality((B \cup Q) \cap E) = 0
  <2>1. (B \cup Q) \cap E = {}
    BY DEF At, Bonding, Queued
  <2> QED
    BY <2>1, FS_EmptySet
<1> HIDE DEF B, Q, E
<1>6. /\ IsFiniteSet(B \cup Q)
      /\ Cardinality(B \cup Q) = Cardinality(B) + Cardinality(Q) - Cardinality(B \cap Q)
  BY <1>2, FS_Union
<1>7. Cardinality((B \cup Q) \cup E)
        = Cardinality(B \cup Q) + Cardinality(E) - Cardinality((B \cup Q) \cap E)
  BY <1>2, <1>6, FS_Union
<1>8. Cardinality((B \cup Q) \cup E) = Cardinality(B) + Cardinality(Q) + Cardinality(E)
  BY <1>3, <1>4, <1>5, <1>6, <1>7
<1> QED
  BY <1>1, <1>8 DEF B, Q, E, Tested, Count

\* Methane takes its cardinalities from an instance of FiniteSets of its own.
LEMMA SameCardinality ==
  ASSUME NEW X
  PROVE  Abstract!Cardinality(X) = Cardinality(X)
BY DEF Abstract!Cardinality, Cardinality

\* While an atom is at its test, no bonder is under way.
LEMMA AtTest ==
  ASSUME IInv, NEW a \in Atom, pc[a] = "check"
  PROVE  /\ Tested(Hydrogen) = waiting_h + Valence * molecules
         /\ Tested(Carbon) = waiting_c + molecules
<1>1. \A b \in Atom : pc[b] \notin Bonding
  BY Alone DEF IInv, At, Holding, Bonding
<1>2. At(Atom, {"hand"}) = {}
  BY <1>1 DEF At, Bonding
<1>3. Count(Hydrogen, {"hand", "handC", "takeC"}) = 0
  <2>1. At(Hydrogen, {"hand", "handC", "takeC"}) = {}
    BY <1>1 DEF At, Bonding, Atom
  <2> QED
    BY <2>1, FS_EmptySet DEF Count
<1> QED
  BY <1>2, <1>3 DEF IInv, BarrierInv, TypeOK, MoleculeInv

\* The test under S decides exactly what Methane decides on an arrival.
LEMMA TestRefines ==
  ASSUME IInv, NEW a \in Atom, Bond(a) \/ Queue(a)
  PROVE  Abstract!Arrive(a)
<1>1. PICK to \in {"hand", "unlockwait"} :
        pc[a] = "check" /\ pc' = [pc EXCEPT ![a] = to]
  BY DEF Bond, Queue, Goto
<1>2. a \notin Arrived /\ Arrived' = Arrived \cup {a}
  BY <1>1 DEF Arrived, At, Bonding, Queued, IInv, BarrierInv, TypeOK
<1>3. At(Atom, {"exit"})' = At(Atom, {"exit"})
  BY <1>1 DEF At, IInv, BarrierInv, TypeOK
<1>4. a \in Carbon <=> a \notin Hydrogen
  BY AtomAssumption DEF Atom
<1> DEFINE ac == Arrived \cap Carbon     ac1 == Arrived' \cap Carbon
           ah == Arrived \cap Hydrogen   ah1 == Arrived' \cap Hydrogen
           vm == Valence * molecules
<1>5. /\ waiting_h \in Nat /\ waiting_c \in Nat /\ molecules \in Nat /\ vm \in Nat
      /\ Valence \in Nat
  BY AtomAssumption DEF IInv, BarrierInv, TypeOK
<1>6. Cardinality(ac) = waiting_c + molecules /\ Cardinality(ah) = waiting_h + vm
  BY <1>1, AtTest, ArrivedCount DEF IInv, BarrierInv, Atom
<1>7. IsFiniteSet(ac) /\ IsFiniteSet(ah)
  <2>1. ac \in SUBSET Carbon /\ ah \in SUBSET Hydrogen
    OBVIOUS
  <2> QED
    BY <2>1, FS_Subset, AtomAssumption
<1>8. Cardinality(ac1) = waiting_c + molecules + (IF a \in Carbon THEN 1 ELSE 0)
  <2>1. CASE a \in Carbon
    <3>1. ac1 = ac \cup {a} /\ a \notin ac
      BY <1>2, <2>1
    <3> QED
      BY <1>5, <1>6, <1>7, <2>1, <3>1, FS_AddElement
  <2>2. CASE a \notin Carbon
    <3>1. ac1 = ac
      BY <1>2, <2>2
    <3> QED
      BY <1>5, <1>6, <2>2, <3>1
  <2> QED
    BY <2>1, <2>2
<1>9. Cardinality(ah1) = waiting_h + vm + (IF a \in Hydrogen THEN 1 ELSE 0)
  <2>1. CASE a \in Hydrogen
    <3>1. ah1 = ah \cup {a} /\ a \notin ah
      BY <1>2, <2>1
    <3> QED
      BY <1>5, <1>6, <1>7, <2>1, <3>1, FS_AddElement
  <2>2. CASE a \notin Hydrogen
    <3>1. ah1 = ah
      BY <1>2, <2>2
    <3> HIDE DEF ah1, ah, vm
    <3> QED
      BY <1>5, <1>6, <2>2, <3>1
  <2> QED
    BY <2>1, <2>2
<1>10. Enough(a) <=> /\ Cardinality(ac1) - molecules >= 1
                     /\ Cardinality(ah1) - vm >= Valence
  <2> HIDE DEF ac1, ah1, vm
  <2> QED
    BY <1>4, <1>5, <1>8, <1>9 DEF Enough, Partners
<1>11. molecules' = IF Enough(a) THEN molecules + 1 ELSE molecules
  BY DEF Bond, Queue
<1> QED
  BY <1>2, <1>3, <1>10, <1>11, SameCardinality
     DEF Abstract!Arrive, Abstract!FreeCarbon, Abstract!FreeHydrogen

\* An atom that goes on to its exit has a place in a molecule: the state it
\* reaches has only whole molecules there.
LEMMA ExitRefines ==
  ASSUME IInv, IInv', NEW a \in Atom, Unlock(a) \/ Wake(a)
  PROVE  Abstract!Leave(a)
<1> DEFINE gone == At(Atom, {"exit"})
<1>1. /\ pc[a] \in {"unlock", "wait"} /\ pc' = [pc EXCEPT ![a] = "exit"]
      /\ UNCHANGED molecules
  BY DEF Unlock, Wake, Goto
<1>2. a \in Arrived \ gone /\ Arrived' = Arrived /\ gone' = gone \cup {a}
  BY <1>1 DEF Arrived, At, Bonding, Queued, IInv, BarrierInv, TypeOK
<1>3. Moved(a, pc[a], "exit") /\ pc[a] # "exit"
  BY <1>1, CountMove DEF IInv, BarrierInv
<1>4. WholeMolecules'
  BY WholeByInv, PTL DEF IInv
<1>5. ASSUME NEW K \in {Carbon, Hydrogen}
      PROVE  /\ Cardinality(gone \cap K) = CountIn(pc, K, {"exit"})
             /\ Count(K, {"exit"})' = CountIn(pc', K, {"exit"})
             /\ CountIn(pc, K, {"exit"}) \in Nat
             /\ a \in K => CountIn(pc', K, {"exit"}) = CountIn(pc, K, {"exit"}) + 1
  <2>1. K \in SUBSET Atom
    BY DEF Atom
  <2>2. gone \cap K = At(K, {"exit"})
    BY <2>1 DEF At
  <2>3. Cardinality(gone \cap K) = Count(K, {"exit"})
    BY <2>2 DEF Count
  <2> QED
    BY <2>1, <2>3, <1>3, CountInState, CountType DEF Moved
<1>6. a \in Carbon => Cardinality(gone \cap Carbon) < molecules
  BY <1>1, <1>4, <1>5 DEF WholeMolecules, IInv, BarrierInv, TypeOK
<1>7. a \in Hydrogen => Cardinality(gone \cap Hydrogen) < Valence * molecules
  <2> DEFINE vm == Valence * molecules
  <2>1. vm \in Nat
    BY AtomAssumption DEF IInv, BarrierInv, TypeOK
  <2>2. Count(Hydrogen, {"exit"})' <= vm
    BY <1>1, <1>4 DEF WholeMolecules
  <2> HIDE DEF vm
  <2>3. a \in Hydrogen => Cardinality(gone \cap Hydrogen) < vm
    BY <1>5, <2>1, <2>2
  <2> QED
    BY <2>3 DEF vm
<1> QED
  BY <1>1, <1>2, <1>6, <1>7, SameCardinality DEF Abstract!Leave

\* The other steps are invisible: nobody arrives, nobody leaves.
LEMMA OthersStutter ==
  ASSUME IInv, NEW a \in Atom,
         Spawn(a) \/ Lock(a) \/ HandH(a) \/ TakeH(a) \/ HandC(a) \/ TakeC(a) \/ UnlockWait(a)
  PROVE  UNCHANGED Abstract!vars
<1>1. Arrived' = Arrived /\ At(Atom, {"exit"})' = At(Atom, {"exit"})
  BY DEF Arrived, At, Bonding, Queued, IInv, BarrierInv, TypeOK, Goto, Spawn, Lock, HandH, TakeH,
         HandC, TakeC, UnlockWait
<1>2. UNCHANGED molecules
  BY DEF Spawn, Lock, HandH, TakeH, HandC, TakeC, UnlockWait
<1> QED
  BY <1>1, <1>2 DEF Abstract!vars

\* The barrier implements Methane: whoever gets through does so as a part of a
\* molecule, and every molecule is decided on when its last atom arrives.
THEOREM BarrierImplementsMethane == Spec => ImplementsMethane
<1>1. Init => Abstract!Init
  <2> SUFFICES ASSUME Init PROVE Abstract!Init
    OBVIOUS
  <2> QED
    BY DEF Init, Abstract!Init, Arrived, At, Bonding, Queued
<1>2. IInv /\ IInv' /\ [Next]_barrierVars => [Abstract!Next]_(Abstract!vars)
  <2> SUFFICES ASSUME IInv, IInv', [Next]_barrierVars
               PROVE  [Abstract!Next]_(Abstract!vars)
    OBVIOUS
  <2>1. ASSUME NEW a \in Atom, Bond(a) \/ Queue(a)
        PROVE  Abstract!Next
    <3>1. Abstract!Arrive(a)
      BY <2>1, TestRefines
    <3> QED
      BY <3>1 DEF Abstract!Next, Abstract!Atom, Atom
  <2>2. ASSUME NEW a \in Atom, Unlock(a) \/ Wake(a)
        PROVE  Abstract!Next
    <3>1. Abstract!Leave(a)
      BY <2>2, ExitRefines
    <3> QED
      BY <3>1 DEF Abstract!Next, Abstract!Atom, Atom
  <2>3. ASSUME NEW a \in Atom,
               Spawn(a) \/ Lock(a) \/ HandH(a) \/ TakeH(a) \/ HandC(a) \/ TakeC(a)
                 \/ UnlockWait(a)
        PROVE  UNCHANGED Abstract!vars
    BY <2>3, OthersStutter
  <2>4. CASE UNCHANGED barrierVars
    BY <2>4 DEF barrierVars, Abstract!vars, Arrived, At
  <2> QED
    BY <2>1, <2>2, <2>3, <2>4 DEF Next, AtomStep
<1> QED
  BY <1>1, <1>2, InductiveInvariant, PTL DEF Spec, ImplementsMethane, Abstract!Spec
-----------------------------------------------------------------------------
(* The barrier at rest *)

\* Every atom has crossed or is blocked, for good then: nobody can wake another.
AtRest == \A a \in Atom : pc[a] = "exit" \/ Blocked(a)

\* As many molecules are made as the atoms allow, and who is in one has crossed.
MostAreBonded ==
  /\ Count(Carbon, {"exit"}) = molecules
  /\ Count(Hydrogen, {"exit"}) = Valence * molecules
  /\ \A m \in 0 .. Cardinality(Carbon) : Valence * m <= Cardinality(Hydrogen) => m <= molecules

\* What is left of the atoms makes no other molecule.
LEMMA NoneMore ==
  ASSUME NEW v \in Nat \ {0}, NEW n \in Nat, NEW m \in Nat, NEW w \in Nat,
         v * m <= w + v * n, w < v
  PROVE  m <= n
<1> SUFFICES ASSUME n < m PROVE FALSE
  OBVIOUS
<1>1. PICK k \in Nat : m = n + 1 + k
  <2>1. m - n - 1 \in Nat /\ m = n + 1 + (m - n - 1)
    OBVIOUS
  <2> QED BY <2>1
<1>2. v * m = v * n + v + v * k
  BY <1>1
<1>3. v * n \in Nat /\ v * k \in Nat
  OBVIOUS
<1> DEFINE vn == v * n  vk == v * k
<1>4. vn \in Nat /\ vk \in Nat /\ vn + v + vk <= w + vn
  BY <1>2, <1>3
<1> HIDE DEF vn, vk
<1> QED BY <1>4

\* The barrier of as5 and as6 leaves nobody waiting who could be bonded: when
\* all atoms have come and none can go on, the molecules made are as many as the
\* atoms allow (carbon.c:18-39, hydrogen.c:19-44).
THEOREM BondedAtRest == Spec => [](AtRest => MostAreBonded)
<1>1. IInv => (AtRest => MostAreBonded)
  <2> SUFFICES ASSUME IInv, AtRest PROVE MostAreBonded
    OBVIOUS
  <2>1. BarrierInv /\ \A a \in Atom : pc[a] \in {"unborn", "exit"} \/ Blocked(a)
    BY DEF IInv, AtRest
  <2>2. At(Carbon, Alive) = Carbon /\ At(Hydrogen, Alive) = Hydrogen
    BY DEF AtRest, Blocked, At, Alive, Stage, Atom
  <2>3. /\ Cardinality(Carbon) = waiting_c + molecules
        /\ Cardinality(Hydrogen) = waiting_h + Valence * molecules
    BY <2>1, <2>2, NobodyMissing DEF Count
  <2>4. Count(Carbon, {"exit"}) = molecules /\ Count(Hydrogen, {"exit"}) = Valence * molecules
    BY <2>1, AllBlocked
  <2>5. /\ waiting_c \in Nat /\ waiting_h \in Nat /\ molecules \in Nat /\ Valence \in Nat \ {0}
        /\ waiting_c = 0 \/ waiting_h < Valence
    BY <2>1, AtomAssumption DEF BarrierInv, TypeOK, NoMissedMolecule
  <2>6. ASSUME NEW m \in 0 .. Cardinality(Carbon), Valence * m <= Cardinality(Hydrogen)
        PROVE  m <= molecules
    <3> m \in Nat /\ m <= Cardinality(Carbon)
      BY <2>3, <2>5
    <3>1. CASE waiting_c = 0
      BY <2>3, <2>5, <2>6, <3>1
    <3>2. CASE waiting_h < Valence
      BY <2>3, <2>5, <2>6, <3>2, NoneMore
    <3> QED BY <2>5, <3>1, <3>2
  <2> QED BY <2>4, <2>6 DEF MostAreBonded
<1> QED BY <1>1, InductiveInvariant, PTL
=============================================================================
