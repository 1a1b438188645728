------------------------ MODULE BarberMonitorProofs ------------------------
(***************************************************************************)
(* Proofs about the barbershop of as4, for any number of customers of any  *)
(* kinds and any capacity of the lines.                                    *)
(***************************************************************************)
EXTENDS BarberMonitor, Functions, FiniteSetTheorems, SequenceTheorems, TLAPS

-----------------------------------------------------------------------------
(* Queues, and those who are in them *)

\* A queue that has somebody has a head; the rest moves up.
LEMMA HeadAndTail ==
  ASSUME NEW S, NEW q \in Seq(S), q # <<>>
  PROVE  /\ Len(q) \in Nat \ {0}
         /\ Head(q) = q[1] /\ Head(q) \in S
         /\ Tail(q) \in Seq(S) /\ Len(Tail(q)) = Len(q) - 1
         /\ \A i \in 1 .. Len(q) - 1 : Tail(q)[i] = q[i + 1]
BY EmptySeq, HeadTailProperties

\* Who joins a queue is one more in it, once if not there before.
LEMMA Joins ==
  ASSUME NEW S, NEW q \in Seq(S), NEW x \in S
  PROVE  /\ Range(Append(q, x)) = Range(q) \cup {x}
         /\ IsInjective(q) /\ x \notin Range(q) => IsInjective(Append(q, x))
<1>1. PICK r \in Seq(S) : r = Append(q, x)
  BY AppendProperties
<1>2. PICK l \in Nat : l = Len(q)
  OBVIOUS
<1>3. /\ DOMAIN q = 1 .. l /\ DOMAIN r = 1 .. l + 1
      /\ r[l + 1] = x /\ \A i \in 1 .. l : r[i] = q[i]
  BY <1>2, <1>1, AppendProperties
<1>4. \A i \in 1 .. l + 1 : i \in 1 .. l \/ i = l + 1
  OBVIOUS
<1>5. l + 1 \in 1 .. l + 1 /\ \A i \in 1 .. l : i \in 1 .. l + 1
  OBVIOUS
<1>6. Range(q) = {q[i] : i \in 1 .. l} /\ Range(r) = {r[i] : i \in 1 .. l + 1}
  BY <1>3 DEF Range
<1>7. Range(r) = Range(q) \cup {x}
  BY <1>3, <1>4, <1>5, <1>6
<1>8. IsInjective(q) /\ x \notin Range(q) => IsInjective(r)
  BY <1>3, <1>4, <1>6 DEF IsInjective
<1> QED BY <1>1, <1>3, <1>7, <1>8

\* Tail takes the head away, and for good if it was there once.
LEMMA Leaves ==
  ASSUME NEW S, NEW q \in Seq(S), q # <<>>
  PROVE  /\ Range(q) = Range(Tail(q)) \cup {Head(q)}
         /\ IsInjective(q) => Head(q) \notin Range(Tail(q)) /\ IsInjective(Tail(q))
<1>1. PICK r \in Seq(S) : r = Tail(q)
  BY HeadAndTail
<1>2. PICK l \in Nat \ {0} : l = Len(q)
  BY HeadAndTail
<1>3. /\ DOMAIN q = 1 .. l /\ DOMAIN r = 1 .. l - 1 /\ Head(q) = q[1]
      /\ \A i \in 1 .. l - 1 : r[i] = q[i + 1]
  BY <1>2, <1>1, HeadAndTail
<1>4. \A i \in 1 .. l : i = 1 \/ (i - 1 \in 1 .. l - 1 /\ (i - 1) + 1 = i)
  OBVIOUS
<1>5. 1 \in 1 .. l /\ \A i \in 1 .. l - 1 : i + 1 \in 1 .. l /\ i + 1 # 1
  OBVIOUS
<1>6. Range(q) = {q[i] : i \in 1 .. l} /\ Range(r) = {q[i + 1] : i \in 1 .. l - 1}
  BY <1>3 DEF Range
<1>7. Range(q) = Range(r) \cup {q[1]}
  BY <1>4, <1>5, <1>6
<1>8. ASSUME IsInjective(q)
      PROVE  q[1] \notin Range(r) /\ IsInjective(r)
  <2>1. \A i, j \in 1 .. l : q[i] = q[j] => i = j
    BY <1>3, <1>8 DEF IsInjective
  <2>2. \A i, j \in 1 .. l - 1 : i + 1 = j + 1 => i = j
    OBVIOUS
  <2>3. q[1] \notin Range(r)
    BY <1>5, <1>6, <2>1
  <2>4. \A i, j \in 1 .. l - 1 : r[i] = r[j] => i = j
    BY <1>3, <1>5, <2>1, <2>2
  <2> QED BY <1>3, <2>3, <2>4 DEF IsInjective
<1> QED BY <1>1, <1>3, <1>7, <1>8

-----------------------------------------------------------------------------
(* The inductive invariant *)

Tuple == [pid : Customer, time : Nat]

TypeInv ==
  /\ kind \in [Customer -> CustType]
  /\ line \in [CustType -> Seq(Tuple)] /\ \A t \in CustType : Len(line[t]) <= N
  /\ free \in [CustType -> Seq(Customer)]
  /\ cust \in [Customer -> {"outside", "lined", "waiting", "released", "gone"}]
  /\ barber \in [Barber -> {"free", "asleep", "woken", "greeting"}]
  /\ chosen \in [Barber -> [pid : Customer \union {Nobody}, type : CustType]]
  /\ now \in Nat
  /\ lost \in [CustType -> Nat]

\* Customers wait on the condition of their kind, each once.
FreeInv ==
  \A t \in CustType :
    /\ IsInjective(free[t])
    /\ Range(free[t]) = {c \in Customer : kind[c] = t /\ cust[c] = "waiting"}

\* One signalled process at most is about to run; if it is a barber she has
\* somebody to serve.
SignalInv ==
  /\ \A b \in Barber : barber[b] = "woken" => ~ NobodyFor(b)
  /\ \A b, d \in Barber : barber[b] = "woken" /\ barber[d] = "woken" => b = d
  /\ \A c, d \in Customer : cust[c] = "released" /\ cust[d] = "released" => c = d
  /\ \A b \in Barber, c \in Customer : ~ (barber[b] = "woken" /\ cust[c] = "released")

\* A barber holds a tuple while she greets, of a line that she serves.
ChosenInv ==
  \A b \in Barber :
    IF barber[b] = "greeting"
    THEN chosen[b].pid \in Customer /\ chosen[b].type \in {b, "dc"}
    ELSE chosen[b] = NoTuple

\* The lines are in the order of arrival.
OrderInv ==
  \A t \in CustType : \A j \in 1 .. Len(line[t]) :
    /\ line[t][j].time <= now
    /\ \A k \in 1 .. j : line[t][k].time <= line[t][j].time

MonitorInv ==
  /\ TypeInv /\ FreeInv /\ SignalInv /\ ChosenInv /\ OrderInv
  /\ LeftBehindBySignals

-----------------------------------------------------------------------------

LEMMA LineTypes ==
  /\ "dc" \in CustType /\ \A b \in Barber : b \in CustType /\ b # "dc"
  /\ NoTuple \in [pid : Customer \union {Nobody}, type : CustType] /\ NoTuple.pid = Nobody
BY DEF CustType, Barber, NoTuple

LEMMA FiniteGroups ==
  ASSUME NEW t
  PROVE  /\ IsFiniteSet(Waiting(t)) /\ Cardinality(Waiting(t)) \in Nat
         /\ IsFiniteSet(Greeted(t)) /\ Cardinality(Greeted(t)) \in Nat
<1>1. Waiting(t) \in SUBSET Customer /\ Greeted(t) \in SUBSET Barber
  BY DEF Waiting, Greeted
<1>2. IsFiniteSet(Barber)
  <2>1. Barber = {"tina"} \cup {"judy"}
    BY DEF Barber
  <2> QED
    BY <2>1, FS_Singleton, FS_Union
<1>3. IsFiniteSet(Waiting(t)) /\ IsFiniteSet(Greeted(t))
  BY <1>1, <1>2, FS_Subset, MonitorAssumption
<1> QED
  BY <1>3, FS_CardinalityType

\* A customer that comes finds room and wakes at most one barber.
LEMMA GetInLineStep ==
  ASSUME MonitorInv, NEW c \in Customer, enter_shop(c), GetInLine(c, kind[c])
  PROVE  MonitorInv'
<1> DEFINE t == kind[c]
<1>1. t \in CustType /\ cust[c] = "outside" /\ HasRoom(t) /\ MonitorFree
  BY DEF MonitorInv, TypeInv, enter_shop, GetInLine
<1>2. PICK time \in IF AllEmpty THEN {0} ELSE {now, now + 1} :
        /\ now' = time
        /\ line' = [line EXCEPT ![t] = Append(@, [pid |-> c, time |-> time])]
  BY DEF GetInLine
<1>3. /\ cust' = [cust EXCEPT ![c] = "lined"]
      /\ barber' = [b \in Barber |-> IF b \in Wakes(t) /\ barber[b] = "asleep"
                                     THEN "woken" ELSE barber[b]]
      /\ UNCHANGED <<kind, free, chosen, lost>>
  BY DEF GetInLine, enter_shop
<1> DEFINE x == [pid |-> c, time |-> time]
<1>4. x \in Tuple /\ time \in Nat /\ x.time = time /\ (~ AllEmpty => now <= time)
  <2>1. now \in Nat
    BY DEF MonitorInv, TypeInv
  <2>2. CASE AllEmpty
    BY <1>2, <2>2 DEF Tuple
  <2>3. CASE ~ AllEmpty
    BY <1>2, <2>1, <2>3 DEF Tuple
  <2> QED
    BY <2>2, <2>3
<1> HIDE DEF t, x
<1>5. /\ line' \in [CustType -> Seq(Tuple)]
      /\ line'[t] = Append(line[t], x) /\ Len(line'[t]) = Len(line[t]) + 1
      /\ line'[t][Len(line[t]) + 1] = x
      /\ \A j \in 1 .. Len(line[t]) : line'[t][j] = line[t][j]
      /\ \A u \in CustType : u # t => line'[u] = line[u]
      /\ \A u \in CustType : Len(line[u]) \in Nat
  <2>1. line[t] \in Seq(Tuple)
    BY <1>1 DEF MonitorInv, TypeInv
  <2>2. line' = [line EXCEPT ![t] = Append(@, x)]
    BY <1>2 DEF x
  <2>3. /\ Append(line[t], x) \in Seq(Tuple) /\ Len(Append(line[t], x)) = Len(line[t]) + 1
        /\ Append(line[t], x)[Len(line[t]) + 1] = x
        /\ \A j \in 1 .. Len(line[t]) : Append(line[t], x)[j] = line[t][j]
    BY <1>4, <2>1, AppendProperties
  <2>4. /\ line' \in [CustType -> Seq(Tuple)]
        /\ line'[t] = Append(line[t], x)
        /\ \A u \in CustType : u # t => line'[u] = line[u]
    BY <1>1, <2>2, <2>3 DEF MonitorInv, TypeInv
  <2>5. \A u \in CustType : Len(line[u]) \in Nat
    BY LenProperties DEF MonitorInv, TypeInv
  <2> QED
    BY <2>3, <2>4, <2>5
<1>6. TypeInv'
  <2>1. Len(line[t]) + 1 <= N
    BY <1>1, <1>5, MonitorAssumption DEF HasRoom
  <2>2. \A u \in CustType : Len(line'[u]) <= N
    BY <1>5, <2>1 DEF MonitorInv, TypeInv
  <2>3. /\ cust' \in [Customer -> {"outside", "lined", "waiting", "released", "gone"}]
        /\ barber' \in [Barber -> {"free", "asleep", "woken", "greeting"}]
    BY <1>3 DEF MonitorInv, TypeInv
  <2> QED
    BY <1>2, <1>3, <1>4, <1>5, <2>2, <2>3 DEF MonitorInv, TypeInv
<1>7. FreeInv'
  BY <1>1, <1>3 DEF MonitorInv, TypeInv, FreeInv
<1>8. SignalInv'
  <2>1. ASSUME NEW b \in Barber, barber'[b] = "woken"
        PROVE  b \in Wakes(t)
    BY <1>1, <1>3, <2>1 DEF MonitorFree
  <2>2. \A b, d \in Barber : barber'[b] = "woken" /\ barber'[d] = "woken" => b = d
    BY <2>1 DEF Wakes
  <2>3. ASSUME NEW b \in Barber, barber'[b] = "woken"
        PROVE  ~ (line'[b] = <<>> /\ line'["dc"] = <<>>)
    <3>1. line'[t] # <<>>
      BY <1>5
    <3>2. t \in {b, "dc"}
      BY <2>1, <2>3 DEF Wakes
    <3> QED
      BY <3>1, <3>2
  <2>4. \A d \in Customer : cust'[d] # "released"
    BY <1>1, <1>3 DEF MonitorFree, MonitorInv, TypeInv
  <2> QED
    BY <2>2, <2>3, <2>4 DEF SignalInv, NobodyFor
<1>9. ChosenInv'
  <2>1. \A b \in Barber : barber'[b] = "greeting" <=> barber[b] = "greeting"
    BY <1>3
  <2> QED
    BY <1>3, <2>1 DEF MonitorInv, ChosenInv
<1>10. OrderInv'
  <2> SUFFICES ASSUME NEW u \in CustType, NEW j \in 1 .. Len(line'[u])
               PROVE  /\ line'[u][j].time <= now'
                      /\ \A k \in 1 .. j : line'[u][k].time <= line'[u][j].time
    BY DEF OrderInv
  <2>1. \A k \in 1 .. Len(line[u]) : /\ line[u][k].time <= now /\ line[u][k].time \in Nat
                                    /\ \A i \in 1 .. k : line[u][i].time <= line[u][k].time
    <3>1. \A k \in 1 .. Len(line[u]) : line[u][k] \in Tuple
      BY ElementOfSeq DEF MonitorInv, TypeInv
    <3> QED
      BY <3>1 DEF MonitorInv, OrderInv, Tuple
  <2>2. j \in 1 .. Len(line[u]) => now <= now'
    <3>1. j \in 1 .. Len(line[u]) => ~ AllEmpty
      BY DEF AllEmpty
    <3> QED
      BY <1>2, <1>4, <3>1
  <2>3. now \in Nat /\ now' \in Nat
    BY <1>2, <1>4 DEF MonitorInv, TypeInv
  <2>4. CASE u # t
    BY <1>5, <2>1, <2>2, <2>3, <2>4
  <2>5. CASE u = t /\ j \in 1 .. Len(line[t])
    <3>1. \A k \in 1 .. j : k \in 1 .. Len(line[t]) /\ line'[t][k] = line[t][k]
      BY <1>1, <1>5, <2>5
    <3>2. line'[t][j] = line[t][j] /\ now <= now'
      BY <1>5, <2>2, <2>5
    <3>3. line'[u][j].time <= now'
      BY <2>1, <2>3, <2>5, <3>2
    <3> QED
      BY <2>1, <2>5, <3>1, <3>2, <3>3
  <2>6. CASE u = t /\ j = Len(line[t]) + 1
    <3>1. line'[t][j].time = now'
      BY <1>2, <1>4, <1>5, <2>6
    <3>2. ASSUME NEW k \in 1 .. j
          PROVE  line'[t][k].time <= now'
      <4>1. CASE k = j
        BY <2>3, <3>1, <4>1
      <4>2. CASE k # j
        <5>1. k \in 1 .. Len(line[t])
          BY <1>1, <1>5, <2>6, <4>2
        <5>2. now <= now'
          BY <1>2, <1>4, <5>1 DEF AllEmpty
        <5> QED
          BY <1>5, <2>1, <2>3, <2>6, <5>1, <5>2
      <4> QED
        BY <4>1, <4>2
    <3> QED
      BY <2>3, <2>6, <3>1, <3>2
  <2>7. u = t => j \in 1 .. Len(line[t]) \/ j = Len(line[t]) + 1
    BY <1>1, <1>5
  <2> QED
    BY <2>4, <2>5, <2>6, <2>7
<1>11. LeftBehindBySignals'
  <2> SUFFICES ASSUME NEW u \in CustType
               PROVE  Cardinality(Waiting(u)') =
                        Len(line'[u]) + Cardinality(Greeted(u)') + lost[u]
    BY <1>3 DEF LeftBehindBySignals
  <2>1. Cardinality(Waiting(u)) = Len(line[u]) + Cardinality(Greeted(u)) + lost[u]
    BY DEF MonitorInv, LeftBehindBySignals
  <2>2. Greeted(u)' = Greeted(u)
    BY <1>3 DEF Greeted
  <2>3. CASE u = t
    <3>1. Waiting(u)' = Waiting(u) \cup {c} /\ c \notin Waiting(u)
      BY <1>1, <1>3, <2>3 DEF Waiting, MonitorInv, TypeInv, t
    <3>2. Cardinality(Waiting(u)') = Cardinality(Waiting(u)) + 1
      BY <3>1, FiniteGroups, FS_AddElement
    <3>3. Cardinality(Greeted(u)) \in Nat /\ lost[u] \in Nat /\ Len(line[u]) \in Nat
      BY <1>5, FiniteGroups DEF MonitorInv, TypeInv
    <3>4. Len(line'[u]) = Len(line[u]) + 1
      BY <1>5, <2>3
    <3> QED
      BY <2>1, <2>2, <3>2, <3>3, <3>4
  <2>4. CASE u # t
    <3>1. Waiting(u)' = Waiting(u)
      BY <1>1, <1>3, <2>4 DEF Waiting, MonitorInv, TypeInv, t
    <3> QED
      BY <1>5, <2>1, <2>2, <2>4, <3>1
  <2> QED
    BY <2>3, <2>4
<1> QED
  BY <1>6, <1>7, <1>8, <1>9, <1>10, <1>11 DEF MonitorInv

\* A customer turned away leaves no trace.
LEMMA TurnAwayStep ==
  ASSUME MonitorInv, NEW c \in Customer, enter_shop(c), TurnAway(c, kind[c])
  PROVE  MonitorInv'
<1>1. /\ cust[c] = "outside" /\ cust' = [cust EXCEPT ![c] = "gone"]
      /\ UNCHANGED <<kind, line, free, barber, chosen, now, lost>>
  BY DEF enter_shop, TurnAway
<1>2. \A d \in Customer : cust'[d] = IF d = c THEN "gone" ELSE cust[d]
  BY <1>1 DEF MonitorInv, TypeInv
<1>3. TypeInv'
  BY <1>1 DEF MonitorInv, TypeInv
<1>4. FreeInv' /\ SignalInv'
  BY <1>1, <1>2 DEF MonitorInv, FreeInv, SignalInv, NobodyFor
<1>5. ChosenInv' /\ OrderInv'
  BY <1>1 DEF MonitorInv, ChosenInv, OrderInv
<1>6. LeftBehindBySignals'
  <2>1. ASSUME NEW u \in CustType
        PROVE  Waiting(u)' = Waiting(u) /\ Greeted(u)' = Greeted(u)
    <3>1. Waiting(u)' = Waiting(u)
      <4>1. \A d \in Customer : cust'[d] \in {"lined", "waiting"}
                               <=> cust[d] \in {"lined", "waiting"}
        BY <1>1, <1>2
      <4> QED
        BY <1>1, <4>1 DEF Waiting
    <3>2. Greeted(u)' = Greeted(u)
      BY <1>1 DEF Greeted
    <3> QED
      BY <3>1, <3>2
  <2> QED
    BY <1>1, <2>1 DEF MonitorInv, LeftBehindBySignals
<1> QED
  BY <1>3, <1>4, <1>5, <1>6 DEF MonitorInv

\* From the line to the condition: a customer that waits is in nobody's way.
LEMMA HaircutStep ==
  ASSUME MonitorInv, NEW c \in Customer, get_haircut(c)
  PROVE  MonitorInv'
<1> DEFINE t == kind[c]
<1>1. /\ cust[c] = "lined" /\ MonitorFree
      /\ cust' = [cust EXCEPT ![c] = "waiting"]
      /\ free' = [free EXCEPT ![t] = Append(@, c)]
      /\ UNCHANGED <<kind, line, barber, chosen, now, lost>>
  BY DEF get_haircut
<1>2. \A d \in Customer : cust'[d] = IF d = c THEN "waiting" ELSE cust[d]
  BY <1>1 DEF MonitorInv, TypeInv
<1>3. t \in CustType /\ free[t] \in Seq(Customer)
  BY DEF MonitorInv, TypeInv
<1>4. Append(free[t], c) \in Seq(Customer)
  BY <1>3, AppendProperties
<1> HIDE DEF t
<1>5. \A u \in CustType : free'[u] = IF u = t THEN Append(free[t], c) ELSE free[u]
  BY <1>1 DEF MonitorInv, TypeInv
<1>6. TypeInv'
  BY <1>1, <1>3, <1>4 DEF MonitorInv, TypeInv
<1>7. FreeInv'
  <2> SUFFICES ASSUME NEW u \in CustType
               PROVE  /\ IsInjective(free'[u])
                      /\ Range(free'[u]) = {d \in Customer : kind[d] = u /\ cust'[d] = "waiting"}
    BY <1>1 DEF FreeInv
  <2>1. /\ IsInjective(free[u])
        /\ Range(free[u]) = {d \in Customer : kind[d] = u /\ cust[d] = "waiting"}
    BY DEF MonitorInv, FreeInv
  <2>2. CASE u = t
    <3>1. c \notin Range(free[t])
      BY <1>1, <2>1, <2>2
    <3>2. /\ IsInjective(Append(free[t], c))
          /\ Range(Append(free[t], c)) = Range(free[t]) \cup {c}
      BY <1>3, <2>1, <2>2, <3>1, Joins
    <3>3. \A d \in Customer : kind[d] = u /\ cust'[d] = "waiting"
                               <=> (kind[d] = u /\ cust[d] = "waiting") \/ d = c
      BY <1>2, <2>2 DEF t
    <3> QED
      BY <1>5, <2>1, <2>2, <3>2, <3>3
  <2>3. CASE u # t
    <3>1. \A d \in Customer : kind[d] = u /\ cust'[d] = "waiting"
                               <=> kind[d] = u /\ cust[d] = "waiting"
      BY <1>2, <2>3 DEF t
    <3> QED
      BY <1>5, <2>1, <2>3, <3>1
  <2> QED
    BY <2>2, <2>3
<1>8. SignalInv'
  <2>1. \A d \in Customer : cust'[d] = "released" => cust[d] = "released"
    BY <1>2
  <2> QED
    BY <1>1, <2>1 DEF MonitorInv, SignalInv, NobodyFor
<1>9. ChosenInv' /\ OrderInv'
  BY <1>1 DEF MonitorInv, ChosenInv, OrderInv
<1>10. LeftBehindBySignals'
  <2>1. ASSUME NEW u \in CustType
        PROVE  Waiting(u)' = Waiting(u) /\ Greeted(u)' = Greeted(u)
    <3>1. Waiting(u)' = Waiting(u)
      BY <1>1, <1>2 DEF Waiting
    <3>2. Greeted(u)' = Greeted(u)
      BY <1>1 DEF Greeted
    <3> QED
      BY <3>1, <3>2
  <2> QED
    BY <1>1, <2>1 DEF MonitorInv, LeftBehindBySignals
<1> QED
  BY <1>6, <1>7, <1>8, <1>9, <1>10 DEF MonitorInv

LEMMA LeaveStep ==
  ASSUME MonitorInv, NEW c \in Customer, Leave(c)
  PROVE  MonitorInv'
<1>1. /\ cust[c] = "released" /\ cust' = [cust EXCEPT ![c] = "gone"]
      /\ UNCHANGED <<kind, line, free, barber, chosen, now, lost>>
  BY DEF Leave
<1>2. \A d \in Customer : cust'[d] = IF d = c THEN "gone" ELSE cust[d]
  BY <1>1 DEF MonitorInv, TypeInv
<1>3. TypeInv'
  BY <1>1 DEF MonitorInv, TypeInv
<1>4. FreeInv' /\ SignalInv'
  BY <1>1, <1>2 DEF MonitorInv, FreeInv, SignalInv, NobodyFor
<1>5. ChosenInv' /\ OrderInv'
  BY <1>1 DEF MonitorInv, ChosenInv, OrderInv
<1>6. LeftBehindBySignals'
  <2>1. ASSUME NEW u \in CustType
        PROVE  Waiting(u)' = Waiting(u) /\ Greeted(u)' = Greeted(u)
    <3>1. Waiting(u)' = Waiting(u)
      <4>1. \A d \in Customer : cust'[d] \in {"lined", "waiting"}
                               <=> cust[d] \in {"lined", "waiting"}
        BY <1>1, <1>2
      <4> QED
        BY <1>1, <4>1 DEF Waiting
    <3>2. Greeted(u)' = Greeted(u)
      BY <1>1 DEF Greeted
    <3> QED
      BY <3>1, <3>2
  <2> QED
    BY <1>1, <2>1 DEF MonitorInv, LeftBehindBySignals
<1> QED
  BY <1>3, <1>4, <1>5, <1>6 DEF MonitorInv

LEMMA AsleepStep ==
  ASSUME MonitorInv, NEW b \in Barber, hello_customer(b), FallAsleep(b)
  PROVE  MonitorInv'
<1>1. /\ barber[b] = "free" /\ barber' = [barber EXCEPT ![b] = "asleep"]
      /\ UNCHANGED <<kind, line, free, cust, chosen, now, lost>>
  BY DEF hello_customer, FallAsleep
<1>2. \A d \in Barber : barber'[d] = IF d = b THEN "asleep" ELSE barber[d]
  BY <1>1 DEF MonitorInv, TypeInv
<1>3. TypeInv'
  BY <1>1 DEF MonitorInv, TypeInv
<1>4. FreeInv' /\ OrderInv'
  BY <1>1 DEF MonitorInv, FreeInv, OrderInv
<1>5. SignalInv'
  <2>1. \A d \in Barber : barber'[d] = "woken" => barber[d] = "woken"
    BY <1>2
  <2> QED
    BY <1>1, <2>1 DEF MonitorInv, SignalInv, NobodyFor
<1>6. \A d \in Barber : barber'[d] = "greeting" <=> barber[d] = "greeting"
  BY <1>1, <1>2
<1>7. ChosenInv'
  BY <1>1, <1>6 DEF MonitorInv, ChosenInv
<1>8. LeftBehindBySignals'
  <2>1. ASSUME NEW u \in CustType
        PROVE  Waiting(u)' = Waiting(u) /\ Greeted(u)' = Greeted(u)
    <3>1. Waiting(u)' = Waiting(u)
      BY <1>1 DEF Waiting
    <3>2. Greeted(u)' = Greeted(u)
      BY <1>1, <1>6 DEF Greeted
    <3> QED
      BY <3>1, <3>2
  <2> QED
    BY <1>1, <2>1 DEF MonitorInv, LeftBehindBySignals
<1> QED
  BY <1>3, <1>4, <1>5, <1>7, <1>8 DEF MonitorInv

\* The line she takes from is not empty, and its head is the oldest of both.
LEMMA NextInLine ==
  ASSUME MonitorInv, NEW b \in Barber, ~ NobodyFor(b)
  PROVE  LET t == NextLine(b) IN
         /\ t \in {b, "dc"} /\ line[t] # <<>>
         /\ \A u \in {b, "dc"} : \A y \in Range(line[u]) : Head(line[t]).time <= y.time
<1> DEFINE t == NextLine(b)
<1>1. t \in {b, "dc"} /\ line[t] # <<>>
  BY DEF NextLine, NobodyFor
<1>2. \A u \in CustType : line[u] \in Seq(Tuple)
  BY DEF MonitorInv, TypeInv
<1>3. {b, "dc"} \subseteq CustType
  BY LineTypes
<1>4. ASSUME NEW u \in CustType, line[u] # <<>>
      PROVE  /\ Head(line[u]).time \in Nat
             /\ \A y \in Range(line[u]) : y.time \in Nat /\ Head(line[u]).time <= y.time
  <2>1. /\ Len(line[u]) \in Nat \ {0} /\ Head(line[u]) = line[u][1] /\ Head(line[u]) \in Tuple
        /\ Range(line[u]) = {line[u][k] : k \in 1 .. Len(line[u])}
        /\ Range(line[u]) \subseteq Tuple
    BY <1>2, <1>4, HeadAndTail, RangeEquality, RangeOfSeq
  <2>2. \A k \in 1 .. Len(line[u]) : 1 \in 1 .. k
    BY <2>1
  <2>3. \A k \in 1 .. Len(line[u]) : line[u][1].time <= line[u][k].time
    BY <2>2 DEF MonitorInv, OrderInv
  <2> QED
    BY <2>1, <2>3 DEF Tuple
<1>5. ASSUME NEW u \in {b, "dc"}, NEW y \in Range(line[u])
      PROVE  Head(line[t]).time <= y.time
  <2>1. u \in CustType /\ line[u] # <<>>
    BY <1>2, <1>3, RangeEquality, EmptySeq
  <2>2. Head(line[u]).time \in Nat /\ y.time \in Nat /\ Head(line[u]).time <= y.time
    BY <1>4, <2>1
  <2>3. Head(line[t]).time \in Nat
    BY <1>1, <1>3, <1>4
  <2>4. Head(line[t]).time <= Head(line[u]).time
    <3>1. CASE u = t
      BY <2>3, <3>1
    <3>2. CASE u = "dc" /\ t = b /\ b # "dc"
      BY <2>1, <3>2 DEF NextLine
    <3>3. CASE u = b /\ t = "dc" /\ b # "dc"
      <4>1. ~ (Head(line[b]).time <= Head(line["dc"]).time)
        BY <2>1, <3>3 DEF NextLine
      <4> QED
        BY <2>2, <2>3, <3>3, <4>1
    <3> QED
      BY <1>1, <3>1, <3>2, <3>3
  <2> QED
    BY <2>2, <2>3, <2>4
<1> QED
  BY <1>1, <1>5

\* What poll gives her when somebody is there.
LEMMA PollTakes ==
  ASSUME MonitorInv, NEW b \in Barber, ~ NobodyFor(b), Poll(b)
  PROVE  LET t == NextLine(b)
         IN  /\ chosen' = [chosen EXCEPT ![b] = [pid |-> Head(line[t]).pid, type |-> t]]
             /\ line' = [line EXCEPT ![t] = Tail(@)]
             /\ barber' = [barber EXCEPT ![b] = "greeting"]
BY NextInLine DEF Poll

LEMMA PollStep ==
  ASSUME MonitorInv, NEW b \in Barber, Poll(b), UNCHANGED <<kind, free, cust, now, lost>>,
         \/ barber[b] = "free" /\ MonitorFree /\ ~ NobodyFor(b)
         \/ barber[b] = "woken"
  PROVE  MonitorInv'
<1> DEFINE t == NextLine(b)
           p == Head(line[t]).pid
<1>1. ~ NobodyFor(b) /\ barber[b] \in {"free", "woken"}
  BY DEF MonitorInv, SignalInv
<1>2. t \in {b, "dc"} /\ t \in CustType /\ line[t] # <<>>
  BY <1>1, NextInLine, LineTypes
<1>3. /\ chosen' = [chosen EXCEPT ![b] = [pid |-> p, type |-> t]]
      /\ line' = [line EXCEPT ![t] = Tail(@)]
      /\ barber' = [barber EXCEPT ![b] = "greeting"]
  BY <1>1, PollTakes
<1>4. /\ Len(line[t]) \in Nat \ {0} /\ p \in Customer
      /\ Tail(line[t]) \in Seq(Tuple) /\ Len(Tail(line[t])) = Len(line[t]) - 1
      /\ \A k \in 1 .. Len(line[t]) - 1 : Tail(line[t])[k] = line[t][k + 1]
  <2>1. line[t] \in Seq(Tuple)
    BY <1>2 DEF MonitorInv, TypeInv
  <2>2. /\ Len(line[t]) \in Nat \ {0} /\ Head(line[t]) \in Tuple
        /\ Tail(line[t]) \in Seq(Tuple) /\ Len(Tail(line[t])) = Len(line[t]) - 1
        /\ \A k \in 1 .. Len(line[t]) - 1 : Tail(line[t])[k] = line[t][k + 1]
    BY <1>2, <2>1, HeadAndTail
  <2> QED
    BY <2>2 DEF Tuple
<1> HIDE DEF t, p
<1>5. /\ line'[t] = Tail(line[t])
      /\ \A u \in CustType : u # t => line'[u] = line[u]
  BY <1>2, <1>3 DEF MonitorInv, TypeInv
<1>6. /\ \A d \in Barber : barber'[d] = IF d = b THEN "greeting" ELSE barber[d]
      /\ \A d \in Barber : chosen'[d] = IF d = b THEN [pid |-> p, type |-> t] ELSE chosen[d]
  BY <1>3 DEF MonitorInv, TypeInv
<1>7. TypeInv'
  <2>1. line' \in [CustType -> Seq(Tuple)]
    BY <1>3, <1>4 DEF MonitorInv, TypeInv
  <2>2. ASSUME NEW u \in CustType
        PROVE  Len(line'[u]) <= N
    <3>1. Len(line[u]) <= N /\ Len(line[u]) \in Nat
      BY LenProperties DEF MonitorInv, TypeInv
    <3>2. CASE u = t
      <4>1. Len(line'[u]) = Len(line[u]) - 1
        BY <1>4, <1>5, <3>2
      <4> QED
        BY <3>1, <4>1, MonitorAssumption
    <3> QED
      BY <1>5, <3>1, <3>2
  <2>3. /\ barber' \in [Barber -> {"free", "asleep", "woken", "greeting"}]
        /\ chosen' \in [Barber -> [pid : Customer \union {Nobody}, type : CustType]]
    BY <1>2, <1>3, <1>4 DEF MonitorInv, TypeInv
  <2> QED
    BY <2>1, <2>2, <2>3 DEF MonitorInv, TypeInv
<1>8. FreeInv'
  BY DEF MonitorInv, FreeInv
<1>9. SignalInv'
  <2>1. \A d \in Barber : barber[d] = "woken" => d = b
    BY DEF MonitorInv, SignalInv, MonitorFree
  <2>2. \A d \in Barber : barber'[d] # "woken"
    BY <1>6, <2>1
  <2> QED
    BY <2>2 DEF MonitorInv, SignalInv
<1>10. ChosenInv'
  <2>1. NoTuple # [pid |-> p, type |-> t]
    BY <1>4, MonitorAssumption DEF NoTuple
  <2> QED
    BY <1>2, <1>4, <1>6, <2>1 DEF MonitorInv, ChosenInv
<1>11. OrderInv'
  <2> SUFFICES ASSUME NEW u \in CustType, NEW j \in 1 .. Len(line'[u])
               PROVE  /\ line'[u][j].time <= now
                      /\ \A k \in 1 .. j : line'[u][k].time <= line'[u][j].time
    BY DEF OrderInv
  <2>1. \A k \in 1 .. Len(line[u]) : /\ line[u][k].time <= now
                                    /\ \A i \in 1 .. k : line[u][i].time <= line[u][k].time
    BY DEF MonitorInv, OrderInv
  <2>2. CASE u # t
    BY <1>5, <2>1, <2>2
  <2>3. CASE u = t
    <3>1. Len(line'[u]) = Len(line[t]) - 1 /\ Len(line[t]) \in Nat
      BY <1>4, <1>5, <2>3
    <3>2. j \in 1 .. Len(line[t]) - 1 /\ j + 1 \in 1 .. Len(line[t])
      BY <3>1
    <3>3. \A k \in 1 .. j : k \in 1 .. Len(line[t]) - 1 /\ k + 1 \in 1 .. j + 1
      BY <3>1, <3>2
    <3>4. \A k \in 1 .. Len(line[t]) - 1 : line'[u][k] = line[u][k + 1]
      BY <1>4, <1>5, <2>3
    <3> QED
      BY <2>1, <2>3, <3>2, <3>3, <3>4
  <2> QED
    BY <2>2, <2>3
<1>12. LeftBehindBySignals'
  <2> SUFFICES ASSUME NEW u \in CustType
               PROVE  Cardinality(Waiting(u)') =
                        Len(line'[u]) + Cardinality(Greeted(u)') + lost[u]
    BY DEF LeftBehindBySignals
  <2>1. Cardinality(Waiting(u)) = Len(line[u]) + Cardinality(Greeted(u)) + lost[u]
    BY DEF MonitorInv, LeftBehindBySignals
  <2>2. Waiting(u)' = Waiting(u)
    BY DEF Waiting
  <2>3. Cardinality(Greeted(u)) \in Nat /\ lost[u] \in Nat /\ Len(line[u]) \in Nat
    BY FiniteGroups, LenProperties DEF MonitorInv, TypeInv
  <2>4. CASE u = t
    <3>1. Greeted(u)' = Greeted(u) \cup {b} /\ b \notin Greeted(u)
      BY <1>1, <1>6, <2>4 DEF Greeted
    <3>2. Cardinality(Greeted(u)') = Cardinality(Greeted(u)) + 1
      BY <3>1, FiniteGroups, FS_AddElement
    <3>3. Len(line'[u]) = Len(line[u]) - 1
      BY <1>4, <1>5, <2>4
    <3> QED
      BY <2>1, <2>2, <2>3, <3>2, <3>3
  <2>5. CASE u # t
    <3>1. Greeted(u)' = Greeted(u)
      BY <1>1, <1>6, <2>5 DEF Greeted
    <3> QED
      BY <1>5, <2>1, <2>2, <2>5, <3>1
  <2> QED
    BY <2>4, <2>5
<1> QED
  BY <1>7, <1>8, <1>9, <1>10, <1>11, <1>12 DEF MonitorInv

LEMMA GiveHaircutStep ==
  ASSUME MonitorInv, NEW b \in Barber, give_haircut(b)
  PROVE  MonitorInv'
<1> DEFINE t == chosen[b].type
           h == Head(free[t])
<1>1. /\ barber[b] = "greeting" /\ MonitorFree
      /\ barber' = [barber EXCEPT ![b] = "free"]
      /\ chosen' = [chosen EXCEPT ![b] = NoTuple]
      /\ UNCHANGED <<kind, line, now>>
      /\ \/ /\ free[t] # <<>>
            /\ cust' = [cust EXCEPT ![h] = "released"]
            /\ free' = [free EXCEPT ![t] = Tail(@)]
            /\ UNCHANGED lost
         \/ /\ free[t] = <<>>
            /\ lost' = [lost EXCEPT ![t] = @ + 1]
            /\ UNCHANGED <<cust, free>>
  BY DEF give_haircut, Chair
<1>2. t \in CustType /\ t \in {b, "dc"} /\ free[t] \in Seq(Customer)
  BY <1>1, LineTypes DEF MonitorInv, ChosenInv, TypeInv
<1>3. /\ \A d \in Barber : barber'[d] = IF d = b THEN "free" ELSE barber[d]
      /\ \A d \in Barber : chosen'[d] = IF d = b THEN NoTuple ELSE chosen[d]
      /\ barber' \in [Barber -> {"free", "asleep", "woken", "greeting"}]
      /\ chosen' \in [Barber -> [pid : Customer \union {Nobody}, type : CustType]]
  BY <1>1, LineTypes DEF MonitorInv, TypeInv
<1>4. ChosenInv' /\ OrderInv'
  <2>1. ChosenInv'
    BY <1>3 DEF MonitorInv, ChosenInv
  <2>2. OrderInv'
    BY <1>1 DEF MonitorInv, OrderInv
  <2> QED
    BY <2>1, <2>2
<1>5. \A u \in CustType : Greeted(u)' = IF u = t THEN Greeted(u) \ {b} ELSE Greeted(u)
  <2> SUFFICES ASSUME NEW u \in CustType
               PROVE  Greeted(u)' = IF u = t THEN Greeted(u) \ {b} ELSE Greeted(u)
    OBVIOUS
  <2>1. CASE u = t
    BY <1>3, <2>1 DEF Greeted
  <2>2. CASE u # t
    <3>1. \A d \in Barber : barber'[d] = "greeting" /\ chosen'[d].type = u
                            <=> barber[d] = "greeting" /\ chosen[d].type = u
      BY <1>3, <2>2
    <3> QED
      BY <2>2, <3>1 DEF Greeted
  <2> QED
    BY <2>1, <2>2
<1>6. b \in Greeted(t)
  BY <1>1 DEF Greeted
<1>7. \A u \in CustType : /\ Cardinality(Waiting(u)) = Len(line[u]) + Cardinality(Greeted(u)) + lost[u]
                          /\ Cardinality(Greeted(u)) \in Nat /\ lost[u] \in Nat
                          /\ Len(line[u]) \in Nat
  BY FiniteGroups, LenProperties DEF MonitorInv, LeftBehindBySignals, TypeInv
<1>8. ASSUME NEW u \in CustType, u = t
      PROVE  Cardinality(Greeted(u)') = Cardinality(Greeted(u)) - 1
  <2>1. Greeted(u)' = Greeted(u) \ {b} /\ b \in Greeted(u)
    BY <1>5, <1>6, <1>8
  <2>2. IsFiniteSet(Greeted(u))
    BY FiniteGroups
  <2> QED
    BY <2>1, <2>2, FS_RemoveElement
<1>9. CASE free[t] = <<>>
  <2>1. lost' = [lost EXCEPT ![t] = @ + 1] /\ UNCHANGED <<cust, free>>
    BY <1>1, <1>9
  <2> HIDE DEF t, h
  <2>2. TypeInv'
    BY <1>1, <1>2, <1>3, <2>1 DEF MonitorInv, TypeInv
  <2>3. FreeInv'
    BY <1>1, <2>1 DEF MonitorInv, FreeInv
  <2>4. SignalInv'
    <3>1. \A d \in Barber : barber'[d] # "woken"
      BY <1>1, <1>3 DEF MonitorFree
    <3> QED
      BY <2>1, <3>1 DEF MonitorInv, SignalInv
  <2>5. ASSUME NEW u \in CustType
        PROVE  Cardinality(Waiting(u)') = Len(line'[u]) + Cardinality(Greeted(u)') + lost'[u]
    <3>1. Waiting(u)' = Waiting(u)
      BY <1>1, <2>1 DEF Waiting
    <3>2. CASE u = t
      <4>1. lost'[u] = lost[u] + 1 /\ line'[u] = line[u]
        BY <1>1, <2>1, <3>2 DEF MonitorInv, TypeInv
      <4>2. Cardinality(Greeted(u)') = Cardinality(Greeted(u)) - 1
        BY <1>8, <3>2
      <4>3. /\ Cardinality(Waiting(u)) = Len(line[u]) + Cardinality(Greeted(u)) + lost[u]
            /\ Cardinality(Greeted(u)) \in Nat /\ lost[u] \in Nat /\ Len(line[u]) \in Nat
        BY <1>7
      <4>4. Cardinality(Waiting(u)') = Cardinality(Waiting(u)) /\ Len(line'[u]) = Len(line[u])
        BY <3>1, <4>1
      <4>5. \A l, g, n \in Nat : l + (g - 1) + (n + 1) = l + g + n
        OBVIOUS
      <4> QED
        BY <4>1, <4>2, <4>3, <4>4, <4>5
    <3>3. CASE u # t
      <4>1. lost'[u] = lost[u] /\ line'[u] = line[u]
        BY <1>1, <2>1, <3>3 DEF MonitorInv, TypeInv
      <4> QED
        BY <1>5, <1>7, <3>1, <3>3, <4>1
    <3> QED
      BY <3>2, <3>3
  <2>6. LeftBehindBySignals'
    BY <2>5 DEF LeftBehindBySignals
  <2> QED
    BY <1>4, <2>2, <2>3, <2>4, <2>6 DEF MonitorInv
<1>10. CASE free[t] # <<>>
  <2>1. /\ cust' = [cust EXCEPT ![h] = "released"]
        /\ free' = [free EXCEPT ![t] = Tail(@)]
        /\ UNCHANGED lost
    BY <1>1, <1>10
  <2>2. /\ IsInjective(free[t])
        /\ Range(free[t]) = {c \in Customer : kind[c] = t /\ cust[c] = "waiting"}
    BY <1>2 DEF MonitorInv, FreeInv
  <2>3. /\ Range(free[t]) = Range(Tail(free[t])) \cup {h}
        /\ h \notin Range(Tail(free[t])) /\ IsInjective(Tail(free[t]))
        /\ Tail(free[t]) \in Seq(Customer)
    BY <1>2, <1>10, <2>2, Leaves, HeadAndTail
  <2>4. h \in Customer /\ kind[h] = t /\ cust[h] = "waiting"
    BY <2>2, <2>3
  <2> HIDE DEF t, h
  <2>5. /\ \A c \in Customer : cust'[c] = IF c = h THEN "released" ELSE cust[c]
        /\ \A u \in CustType : free'[u] = IF u = t THEN Tail(free[t]) ELSE free[u]
    BY <2>1 DEF MonitorInv, TypeInv
  <2>6. TypeInv'
    BY <1>1, <1>3, <2>1, <2>3 DEF MonitorInv, TypeInv
  <2>7. FreeInv'
    <3> SUFFICES ASSUME NEW u \in CustType
                 PROVE  /\ IsInjective(free'[u])
                        /\ Range(free'[u]) = {c \in Customer : kind[c] = u /\ cust'[c] = "waiting"}
      BY <1>1 DEF FreeInv
    <3>1. CASE u = t
      <4>1. \A c \in Customer : kind[c] = t /\ cust'[c] = "waiting"
                                <=> (kind[c] = t /\ cust[c] = "waiting") /\ c # h
        BY <2>5
      <4>2. Range(Tail(free[t])) = {c \in Customer : kind[c] = t /\ cust[c] = "waiting"} \ {h}
        BY <2>2, <2>3
      <4> QED
        BY <2>3, <2>5, <3>1, <4>1, <4>2
    <3>2. CASE u # t
      <4>1. \A c \in Customer : kind[c] = u /\ cust'[c] = "waiting"
                                <=> kind[c] = u /\ cust[c] = "waiting"
        BY <2>4, <2>5, <3>2
      <4>2. /\ IsInjective(free[u])
            /\ Range(free[u]) = {c \in Customer : kind[c] = u /\ cust[c] = "waiting"}
        BY DEF MonitorInv, FreeInv
      <4> QED
        BY <2>5, <3>2, <4>1, <4>2
    <3> QED
      BY <3>1, <3>2
  <2>8. SignalInv'
    <3>1. \A d \in Barber : barber'[d] # "woken"
      BY <1>1, <1>3 DEF MonitorFree
    <3>2. \A c \in Customer : cust'[c] = "released" => c = h
      BY <1>1, <2>5 DEF MonitorFree
    <3> QED
      BY <3>1, <3>2 DEF SignalInv
  <2>9. ASSUME NEW u \in CustType
        PROVE  Cardinality(Waiting(u)') = Len(line'[u]) + Cardinality(Greeted(u)') + lost'[u]
    <3>1. lost'[u] = lost[u] /\ line'[u] = line[u]
      BY <1>1, <2>1
    <3>2. CASE u = t
      <4>1. \A c \in Customer : kind[c] = u /\ cust'[c] \in {"lined", "waiting"}
                                <=> (kind[c] = u /\ cust[c] \in {"lined", "waiting"}) /\ c # h
        BY <2>5
      <4>2. Waiting(u)' = Waiting(u) \ {h} /\ h \in Waiting(u)
        BY <1>1, <2>4, <3>2, <4>1 DEF Waiting
      <4>3. Cardinality(Waiting(u)') = Cardinality(Waiting(u)) - 1
        BY <4>2, FiniteGroups, FS_RemoveElement
      <4>4. Cardinality(Greeted(u)') = Cardinality(Greeted(u)) - 1
        BY <1>8, <3>2
      <4> QED
        BY <1>7, <3>1, <4>3, <4>4
    <3>3. CASE u # t
      <4>1. \A c \in Customer : kind[c] = u /\ cust'[c] \in {"lined", "waiting"}
                                <=> kind[c] = u /\ cust[c] \in {"lined", "waiting"}
        BY <2>4, <2>5, <3>3
      <4>2. Waiting(u)' = Waiting(u)
        BY <1>1, <4>1 DEF Waiting
      <4> QED
        BY <1>5, <1>7, <3>1, <3>3, <4>2
    <3> QED
      BY <3>2, <3>3
  <2>10. LeftBehindBySignals'
    BY <2>9 DEF LeftBehindBySignals
  <2> QED
    BY <1>4, <2>6, <2>7, <2>8, <2>10 DEF MonitorInv
<1> QED
  BY <1>9, <1>10

-----------------------------------------------------------------------------

LEMMA InitMonitor == Init => MonitorInv
<1> SUFFICES ASSUME Init PROVE MonitorInv
  OBVIOUS
<1>1. TypeInv
  BY LineTypes, MonitorAssumption DEF Init, TypeInv
<1>2. FreeInv
  <2>1. Range(<<>>) = {} /\ IsInjective(<<>>)
    BY DEF Range, IsInjective
  <2>2. \A t \in CustType : free[t] = <<>>
    BY DEF Init
  <2>3. \A c \in Customer : cust[c] # "waiting"
    BY DEF Init
  <2> QED
    BY <2>1, <2>2, <2>3 DEF FreeInv
<1>3. SignalInv /\ ChosenInv /\ OrderInv
  BY DEF Init, SignalInv, ChosenInv, OrderInv
<1>4. LeftBehindBySignals
  <2>1. \A t \in CustType : Waiting(t) = {} /\ Greeted(t) = {}
    BY DEF Init, Waiting, Greeted
  <2>2. \A t \in CustType : Len(line[t]) = 0 /\ lost[t] = 0
    BY DEF Init
  <2> QED
    BY <2>1, <2>2, FS_EmptySet DEF LeftBehindBySignals
<1> QED
  BY <1>1, <1>2, <1>3, <1>4 DEF MonitorInv

LEMMA NextMonitor == MonitorInv /\ [Next]_vars => MonitorInv'
<1> SUFFICES ASSUME MonitorInv, [Next]_vars PROVE MonitorInv'
  OBVIOUS
<1>1. ASSUME NEW b \in Barber, hello_customer(b)
      PROVE  MonitorInv'
  BY <1>1, AsleepStep, PollStep DEF hello_customer
<1>2. ASSUME NEW b \in Barber, WakeUp(b)
      PROVE  MonitorInv'
  BY <1>2, PollStep DEF WakeUp
<1>3. ASSUME NEW b \in Barber, give_haircut(b)
      PROVE  MonitorInv'
  BY <1>3, GiveHaircutStep
<1>4. ASSUME NEW c \in Customer, enter_shop(c)
      PROVE  MonitorInv'
  BY <1>4, GetInLineStep, TurnAwayStep DEF enter_shop
<1>5. ASSUME NEW c \in Customer, InShop(c)
      PROVE  MonitorInv'
  BY <1>5, HaircutStep, LeaveStep DEF InShop
<1>6. CASE UNCHANGED vars
  <2>1. TypeInv' /\ FreeInv' /\ SignalInv'
    BY <1>6 DEF vars, MonitorInv, TypeInv, FreeInv, SignalInv, NobodyFor
  <2>2. ChosenInv' /\ OrderInv'
    BY <1>6 DEF vars, MonitorInv, ChosenInv, OrderInv
  <2>3. LeftBehindBySignals'
    BY <1>6 DEF vars, MonitorInv, LeftBehindBySignals, Waiting, Greeted
  <2> QED
    BY <2>1, <2>2, <2>3 DEF MonitorInv
<1> QED
  BY <1>1, <1>2, <1>3, <1>4, <1>5, <1>6 DEF Next, BarberStep

\* MonitorInv is inductive.
THEOREM MonitorInvHolds == Spec => []MonitorInv
BY InitMonitor, NextMonitor, PTL DEF Spec

\* A woken barber never greets nobody: the poll after the wait of hello_customer
\* finds a tuple in one of her lines.
THEOREM SomebodyGreeted == Spec => []NeverGreetsNobody
<1>1. MonitorInv => NeverGreetsNobody
  BY DEF MonitorInv, ChosenInv, NeverGreetsNobody
<1> QED
  BY <1>1, MonitorInvHolds, PTL

\* The signals of give_haircut that meet nobody are what separates those still to
\* be served from those in the line or being greeted.
THEOREM LostSignalsCount == Spec => []LeftBehindBySignals
<1>1. MonitorInv => LeftBehindBySignals
  BY DEF MonitorInv
<1> QED
  BY <1>1, MonitorInvHolds, PTL

\* Types, with at most one signalled process about to run.
THEOREM MonitorTypeCorrect == Spec => []MonitorTypeOK
<1>1. ASSUME MonitorInv
      PROVE  MonitorTypeOK
  <2> DEFINE W == {b \in Barber : barber[b] = "woken"}
             R == {c \in Customer : cust[c] = "released"}
  <2>1. Cardinality(W \union R) <= 1
    <3>1. \A x, y \in W \union R : x = y
      BY <1>1 DEF MonitorInv, SignalInv
    <3>2. CASE W \union R = {}
      BY <3>2, FS_EmptySet
    <3>3. CASE W \union R # {}
      <4>1. PICK x : W \union R = {x}
        BY <3>1, <3>3
      <4> QED
        BY <4>1, FS_Singleton
    <3> QED
      BY <3>2, <3>3
  <2> QED
    BY <1>1, <2>1 DEF MonitorInv, TypeInv, FreeInv, Tuple, MonitorTypeOK
<1> QED
  BY <1>1, MonitorInvHolds, PTL

\* do_tina_hello and do_judy_hello compare the heads of two lines only, and still
\* take the oldest of all.
THEOREM OldestTaken == Spec => OldestFirst
<1> DEFINE A == \A b \in Barber : chosen[b] = NoTuple /\ chosen'[b] # NoTuple =>
                  \E x \in Range(line[chosen'[b].type]) :
                    /\ x.pid = chosen'[b].pid
                    /\ \A y \in Range(line'[b]) \union Range(line'["dc"]) : x.time <= y.time
<1>1. MonitorInv /\ [Next]_vars => [A]_vars
  <2> SUFFICES ASSUME MonitorInv, [Next]_vars, NEW b \in Barber,
                      chosen[b] = NoTuple, chosen'[b] # NoTuple
               PROVE  \E x \in Range(line[chosen'[b].type]) :
                        /\ x.pid = chosen'[b].pid
                        /\ \A y \in Range(line'[b]) \union Range(line'["dc"]) : x.time <= y.time
    OBVIOUS
  <2>1. Poll(b) /\ ~ NobodyFor(b)
    <3>1. \A d \in Barber : Poll(d) \/ give_haircut(d) => d = b \/ chosen'[b] = chosen[b]
      BY DEF Poll, give_haircut, MonitorInv, TypeInv
    <3>2. ~ give_haircut(b)
      BY DEF give_haircut, MonitorInv, TypeInv
    <3>3. \E d \in Barber : hello_customer(d) \/ WakeUp(d) \/ give_haircut(d)
      BY DEF Next, BarberStep, InShop, enter_shop, GetInLine, TurnAway, get_haircut, Leave, vars
    <3>4. \E d \in Barber : \/ Poll(d) /\ ~ NobodyFor(d)
                            \/ give_haircut(d)
      BY <3>3 DEF hello_customer, WakeUp, FallAsleep, MonitorInv, SignalInv
    <3> QED
      BY <3>1, <3>2, <3>4
  <2> DEFINE t == NextLine(b)
             x == Head(line[t])
  <2>2. /\ t \in {b, "dc"} /\ line[t] # <<>>
        /\ \A u \in {b, "dc"} : \A y \in Range(line[u]) : x.time <= y.time
    BY <2>1, NextInLine
  <2>3. /\ chosen' = [chosen EXCEPT ![b] = [pid |-> x.pid, type |-> t]]
        /\ line' = [line EXCEPT ![t] = Tail(@)]
    BY <2>1, PollTakes
  <2>4. t \in CustType /\ line[t] \in Seq(Tuple)
    BY <2>2, LineTypes DEF MonitorInv, TypeInv
  <2>5. x \in Range(line[t]) /\ Range(Tail(line[t])) \subseteq Range(line[t])
    BY <2>2, <2>4, Leaves
  <2> HIDE DEF t, x
  <2>6. \A u \in {b, "dc"} : Range(line'[u]) \subseteq Range(line[u])
    BY <2>3, <2>5, LineTypes DEF MonitorInv, TypeInv
  <2>7. chosen'[b].pid = x.pid /\ chosen'[b].type = t
    BY <2>3 DEF MonitorInv, TypeInv
  <2> QED
    BY <2>2, <2>5, <2>6, <2>7
<1> QED
  BY <1>1, MonitorInvHolds, PTL DEF Spec, OldestFirst

-----------------------------------------------------------------------------
(* The shop at rest *)

\* A barber sleeps only while the lines whose customers wake her are empty: Judy
\* is not woken by those who don't care, but Tina is.
SleepInv ==
  \A b \in Barber, t \in CustType : barber[b] = "asleep" /\ b \in Wakes(t) => line[t] = <<>>

\* Nobody in the shop goes on: who is not blocked on a condition or over is kept
\* out of the monitor.
AtRest ==
  /\ \A b \in Barber : barber[b] = "asleep" \/ (barber[b] # "woken" /\ ~ MonitorFree)
  /\ \A c \in Customer :
       \/ cust[c] \in {"outside", "waiting", "gone"}
       \/ cust[c] = "lined" /\ ~ MonitorFree

\* Then both barbers sleep, the lines are empty, and who waits missed the signal.
NobodyInLine ==
  /\ \A b \in Barber : barber[b] = "asleep"
  /\ \A t \in CustType :
       /\ line[t] = <<>>
       /\ Cardinality({c \in Customer : kind[c] = t /\ cust[c] = "waiting"}) = lost[t]

\* Who gets in a line wakes the barber that the line needs.
LEMMA SleepOnEntry ==
  ASSUME MonitorInv, SleepInv, NEW c \in Customer, enter_shop(c)
  PROVE  SleepInv'
<1>1. CASE TurnAway(c, kind[c])
  BY <1>1 DEF TurnAway, SleepInv
<1>2. CASE GetInLine(c, kind[c])
  <2>1. /\ \A t \in CustType : t # kind[c] => line'[t] = line[t]
        /\ \A b \in Barber : barber'[b] = "asleep" => barber[b] = "asleep" /\ b \notin Wakes(kind[c])
    BY <1>2 DEF GetInLine, MonitorInv, TypeInv
  <2> QED
    BY <2>1 DEF SleepInv
<1> QED
  BY <1>1, <1>2 DEF enter_shop

\* A barber goes to sleep when there is nobody for her, and takes from a line only.
LEMMA SleepOnBarber ==
  ASSUME MonitorInv, SleepInv, NEW b \in Barber, BarberStep(b)
  PROVE  SleepInv'
<1>1. CASE FallAsleep(b)
  <2>1. barber' = [barber EXCEPT ![b] = "asleep"] /\ line' = line /\ NobodyFor(b)
    BY <1>1 DEF FallAsleep
  <2>2. \A t \in CustType : b \in Wakes(t) => t \in {b, "dc"}
    BY DEF Wakes
  <2> QED
    BY <2>1, <2>2 DEF SleepInv, NobodyFor, MonitorInv, TypeInv
<1>2. CASE Poll(b)
  <2>1. \A t \in CustType : line[t] = <<>> => line'[t] = <<>>
    BY <1>2 DEF Poll, MonitorInv, TypeInv
  <2>2. \A d \in Barber : barber'[d] = "asleep" => barber[d] = "asleep"
    BY <1>2 DEF Poll, MonitorInv, TypeInv
  <2> QED
    BY <2>1, <2>2 DEF SleepInv
<1>3. CASE give_haircut(b)
  <2>1. line' = line /\ \A d \in Barber : barber'[d] = "asleep" => barber[d] = "asleep"
    BY <1>3 DEF give_haircut, MonitorInv, TypeInv
  <2> QED
    BY <2>1 DEF SleepInv
<1> QED
  BY <1>1, <1>2, <1>3 DEF BarberStep, hello_customer, WakeUp

\* The monitor of as4 loses no wake-up of a barber: when nobody goes on any more
\* both sleep before empty lines, and of each kind those who were left behind are
\* as many as the haircut signals that met nobody (do_tina_hello, do_judy_hello).
THEOREM NobodyLeftInLine == Spec => [](AtRest => NobodyInLine)
<1>1. Init => SleepInv
  BY DEF Init, SleepInv
<1>2. MonitorInv /\ SleepInv /\ [Next]_vars => SleepInv'
  <2> SUFFICES ASSUME MonitorInv, SleepInv, [Next]_vars PROVE SleepInv'
    OBVIOUS
  <2>1. ASSUME NEW c \in Customer, InShop(c) PROVE SleepInv'
    BY <2>1 DEF InShop, get_haircut, Leave, SleepInv
  <2>2. CASE UNCHANGED vars
    BY <2>2 DEF vars, SleepInv
  <2> QED
    BY <2>1, <2>2, SleepOnEntry, SleepOnBarber DEF Next
<1>3. MonitorInv /\ SleepInv => (AtRest => NobodyInLine)
  <2> SUFFICES ASSUME MonitorInv, SleepInv, AtRest PROVE NobodyInLine
    OBVIOUS
  <2>1. MonitorFree
    BY DEF AtRest, MonitorFree
  <2>2. \A b \in Barber : barber[b] = "asleep"
    BY <2>1 DEF AtRest
  <2>3. \A t \in CustType : line[t] = <<>>
    BY <2>2 DEF SleepInv, Wakes, CustType, Barber
  <2>4. ASSUME NEW t \in CustType
        PROVE  Cardinality({c \in Customer : kind[c] = t /\ cust[c] = "waiting"}) = lost[t]
    <3>1. Waiting(t) = {c \in Customer : kind[c] = t /\ cust[c] = "waiting"}
      BY <2>1 DEF AtRest, Waiting
    <3>2. Greeted(t) = {}
      BY <2>2 DEF Greeted
    <3>3. Len(line[t]) = 0 /\ Cardinality(Greeted(t)) = 0 /\ lost[t] \in Nat
      BY <2>3, <2>4, <3>2, FS_EmptySet DEF MonitorInv, TypeInv
    <3>4. Cardinality(Waiting(t)) = Len(line[t]) + Cardinality(Greeted(t)) + lost[t]
      BY DEF MonitorInv, LeftBehindBySignals
    <3>5. Cardinality(Waiting(t)) = lost[t]
      BY <3>3, <3>4
    <3> QED
      BY <3>1, <3>5
  <2> QED
    BY <2>2, <2>3, <2>4 DEF NobodyInLine
<1> QED
  BY <1>1, <1>2, <1>3, MonitorInvHolds, PTL DEF Spec

=============================================================================
