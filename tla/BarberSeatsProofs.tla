------------------------- MODULE BarberSeatsProofs -------------------------
(***************************************************************************)
(* Proofs about the barbershop of as3, for any number of customers and of  *)
(* seats and for both readings of the don't-care line.                     *)
(***************************************************************************)
EXTENDS BarberSeats, Functions, FiniteSetTheorems, SequenceTheorems, TLAPS

-----------------------------------------------------------------------------
(* Queues, and those who are in them *)

\* A queue that has somebody has a head; the rest moves up.
LEMMA HeadAndTail ==
  ASSUME NEW S, NEW q \in Seq(S), q # <<>>
  PROVE  /\ Len(q) \in Nat \ {0}
         /\ Head(q) = q[1] /\ Head(q) \in S
         /\ Tail(q) \in Seq(S) /\ Len(Tail(q)) = Len(q) - 1
         /\ \A i \in 1 .. Len(q) - 1 : Tail(q)[i] = q[i + 1]
BY EmptySeq, HeadTailProperties

\* Who joins a queue is one more in it, once if not there before.
LEMMA Joins ==
  ASSUME NEW S, NEW q \in Seq(S), NEW x \in S
  PROVE  /\ Range(Append(q, x)) = Range(q) \cup {x}
         /\ IsInjective(q) /\ x \notin Range(q) => IsInjective(Append(q, x))
<1>1. PICK r \in Seq(S) : r = Append(q, x)
  BY AppendProperties
<1>2. PICK l \in Nat : l = Len(q)
  OBVIOUS
<1>3. /\ DOMAIN q = 1 .. l /\ DOMAIN r = 1 .. l + 1
      /\ r[l + 1] = x /\ \A i \in 1 .. l : r[i] = q[i]
  BY <1>2, <1>1, AppendProperties
<1>4. \A i \in 1 .. l + 1 : i \in 1 .. l \/ i = l + 1
  OBVIOUS
<1>5. l + 1 \in 1 .. l + 1 /\ \A i \in 1 .. l : i \in 1 .. l + 1
  OBVIOUS
<1>6. Range(q) = {q[i] : i \in 1 .. l} /\ Range(r) = {r[i] : i \in 1 .. l + 1}
  BY <1>3 DEF Range
<1>7. Range(r) = Range(q) \cup {x}
  BY <1>3, <1>4, <1>5, <1>6
<1>8. IsInjective(q) /\ x \notin Range(q) => IsInjective(r)
  BY <1>3, <1>4, <1>6 DEF IsInjective
<1> QED BY <1>1, <1>3, <1>7, <1>8

\* Tail takes the head away, and for good if it was there once.
LEMMA Leaves ==
  ASSUME NEW S, NEW q \in Seq(S), q # <<>>
  PROVE  /\ Range(q) = Range(Tail(q)) \cup {Head(q)}
         /\ IsInjective(q) => Head(q) \notin Range(Tail(q)) /\ IsInjective(Tail(q))
<1>1. PICK r \in Seq(S) : r = Tail(q)
  BY HeadAndTail
<1>2. PICK l \in Nat \ {0} : l = Len(q)
  BY HeadAndTail
<1>3. /\ DOMAIN q = 1 .. l /\ DOMAIN r = 1 .. l - 1 /\ Head(q) = q[1]
      /\ \A i \in 1 .. l - 1 : r[i] = q[i + 1]
  BY <1>2, <1>1, HeadAndTail
<1>4. \A i \in 1 .. l : i = 1 \/ (i - 1 \in 1 .. l - 1 /\ (i - 1) + 1 = i)
  OBVIOUS
<1>5. 1 \in 1 .. l /\ \A i \in 1 .. l - 1 : i + 1 \in 1 .. l /\ i + 1 # 1
  OBVIOUS
<1>6. Range(q) = {q[i] : i \in 1 .. l} /\ Range(r) = {q[i + 1] : i \in 1 .. l - 1}
  BY <1>3 DEF Range
<1>7. Range(q) = Range(r) \cup {q[1]}
  BY <1>4, <1>5, <1>6
<1>8. ASSUME IsInjective(q)
      PROVE  q[1] \notin Range(r) /\ IsInjective(r)
  <2>1. \A i, j \in 1 .. l : q[i] = q[j] => i = j
    BY <1>3, <1>8 DEF IsInjective
  <2>2. \A i, j \in 1 .. l - 1 : i + 1 = j + 1 => i = j
    OBVIOUS
  <2>3. q[1] \notin Range(r)
    BY <1>5, <1>6, <2>1
  <2>4. \A i, j \in 1 .. l - 1 : r[i] = r[j] => i = j
    BY <1>3, <1>5, <2>1, <2>2
  <2> QED BY <1>3, <2>3, <2>4 DEF IsInjective
<1> QED BY <1>1, <1>3, <1>7, <1>8

-----------------------------------------------------------------------------
(* The inductive invariant *)

\* Only those who do not care change lines.
KindInv == \A c \in Customer : kind[c] # "dc" => line[c] = kind[c]

\* A customer who is blocked is in the queue of its line, once.
QueueInv ==
  \A t \in Line :
    /\ IsInjective(queue[t])
    /\ Range(queue[t]) = {c \in Customer : line[c] = t /\ stage[c] = "waiting"}

UncountedInv == ~ counted => free["dc"] = N

\* A barber takes customers from the don't-care line only if she saw one there.
CallingInv ==
  \A b \in Barber :
    round[b] \in {"asleep", "awake", "peeking"} \/ Undisturbed(b) => calling[b] = b

\* How many pids in the seats of an undisturbed barber she has still to serve.
Unserved(b) ==
  At(b, {"seated"}) + awake[b] + (IF round[b] \in {"awake", "peeking", "choosing"} THEN 1 ELSE 0)

\* The k-th seat from the one that she serves next.
Around(b, k) ==
  LET first == next_serve[b] % N IN IF first + k < N THEN first + k ELSE first + k - N

\* They are next to each other, up to the seat where the next customer sits down.
RingInv ==
  \A b \in Barber : Undisturbed(b) =>
    /\ next_seat[b] % N = Around(b, Unserved(b))
    /\ \A k \in 0 .. Unserved(b) - 1 : seats[b][Around(b, k)] = "customer"

SeatsInv ==
  /\ SeatsTypeOK /\ KindInv /\ QueueInv /\ UncountedInv /\ CallingInv
  /\ AwakeForEachCustomer /\ RingInv

-----------------------------------------------------------------------------
(* Counting customers *)

Sitting == {"seated", "knocked", "waiting", "called"}

LEMMA Lines ==
  /\ Line = {"tina", "judy", "dc"} /\ Barber = {"tina", "judy"}
  /\ \A b \in Barber : b \in Line /\ b # "dc"
BY DEF Line, Barber

Here(c, t, S) == IF line[c] = t /\ stage[c] \in S THEN 1 ELSE 0

LEMMA AtType ==
  ASSUME NEW t, NEW S
  PROVE  /\ IsFiniteSet({c \in Customer : line[c] = t /\ stage[c] \in S})
         /\ At(t, S) \in Nat
         /\ \A c \in Customer : line[c] = t /\ stage[c] \in S => At(t, S) >= 1
<1> DEFINE G == {c \in Customer : line[c] = t /\ stage[c] \in S}
<1>1. IsFiniteSet(G)
  BY FS_Subset, SeatsAssumption
<1>2. Cardinality(G) \in Nat
  BY <1>1, FS_CardinalityType
<1>3. G # {} => Cardinality(G) # 0
  BY <1>1, FS_EmptySet
<1> QED
  BY <1>1, <1>2, <1>3 DEF At

\* One customer moves, and the counts with it.
LEMMA AtMove ==
  ASSUME NEW c \in Customer, NEW t, NEW S,
         \A d \in Customer : d # c => line'[d] = line[d] /\ stage'[d] = stage[d]
  PROVE  At(t, S)' = At(t, S) + Here(c, t, S)' - Here(c, t, S)
<1> DEFINE G == {d \in Customer : line[d] = t /\ stage[d] \in S}
           H == {d \in Customer : line'[d] = t /\ stage'[d] \in S}
<1>1. IsFiniteSet(G) /\ Cardinality(G) \in Nat /\ At(t, S) = Cardinality(G)
  BY AtType DEF At
<1>2. At(t, S)' = Cardinality(H)
  BY DEF At
<1>3. /\ Here(c, t, S) = IF c \in G THEN 1 ELSE 0
      /\ Here(c, t, S)' = IF c \in H THEN 1 ELSE 0
  BY DEF Here
<1>4. \A d \in Customer : d # c => (d \in H <=> d \in G)
  OBVIOUS
<1>5. G \subseteq Customer /\ H \subseteq Customer
  OBVIOUS
<1> HIDE DEF G, H
<1>6. CASE c \in G <=> c \in H
  <2>1. G = H
    BY <1>4, <1>5, <1>6
  <2> QED
    BY <1>1, <1>2, <1>3, <1>6, <2>1
<1>7. CASE c \in H /\ c \notin G
  <2>1. H = G \cup {c}
    BY <1>4, <1>5, <1>7
  <2>2. Cardinality(H) = Cardinality(G) + 1
    BY <1>1, <1>7, <2>1, FS_AddElement
  <2> QED
    BY <1>1, <1>2, <1>3, <1>7, <2>2
<1>8. CASE c \in G /\ c \notin H
  <2>1. H = G \ {c}
    BY <1>4, <1>5, <1>8
  <2>2. Cardinality(H) = Cardinality(G) - 1
    BY <1>1, <1>8, <2>1, FS_RemoveElement
  <2> QED
    BY <1>1, <1>2, <1>3, <1>8, <2>2
<1> QED
  BY <1>6, <1>7, <1>8

LEMMA AtStays ==
  ASSUME NEW t, NEW S, UNCHANGED custVars
  PROVE  At(t, S)' = At(t, S)
BY DEF At, custVars

LEMMA TwoGroups ==
  ASSUME NEW A, NEW B, IsFiniteSet(A), IsFiniteSet(B), A \cap B = {}
  PROVE  IsFiniteSet(A \cup B) /\ Cardinality(A \cup B) = Cardinality(A) + Cardinality(B)
<1>1. Cardinality(A) \in Nat /\ Cardinality(B) \in Nat
  BY FS_CardinalityType
<1>2. Cardinality(A \cap B) = 0
  BY FS_EmptySet
<1>3. /\ IsFiniteSet(A \cup B)
      /\ Cardinality(A \cup B) = Cardinality(A) + Cardinality(B) - Cardinality(A \cap B)
  BY FS_Union
<1> QED
  BY <1>1, <1>2, <1>3

\* Those sitting are those to be served and those called.
LEMMA AtParts ==
  ASSUME NEW t
  PROVE  At(t, Sitting) = At(t, {"seated"}) + At(t, {"knocked", "waiting"}) + At(t, {"called"})
<1> DEFINE A == {c \in Customer : line[c] = t /\ stage[c] \in {"seated"}}
           B == {c \in Customer : line[c] = t /\ stage[c] \in {"knocked", "waiting"}}
           C == {c \in Customer : line[c] = t /\ stage[c] \in {"called"}}
           D == {c \in Customer : line[c] = t /\ stage[c] \in Sitting}
<1>1. IsFiniteSet(A) /\ IsFiniteSet(B) /\ IsFiniteSet(C)
  BY AtType
<1>2. /\ D = (A \cup B) \cup C
      /\ A \cap B = {} /\ (A \cup B) \cap C = {}
  BY DEF Sitting
<1>3. /\ At(t, {"seated"}) = Cardinality(A) /\ At(t, {"knocked", "waiting"}) = Cardinality(B)
      /\ At(t, {"called"}) = Cardinality(C) /\ At(t, Sitting) = Cardinality(D)
  BY DEF At
<1> HIDE DEF A, B, C, D
<1>4. IsFiniteSet(A \cup B) /\ Cardinality(A \cup B) = Cardinality(A) + Cardinality(B)
  BY <1>1, <1>2, TwoGroups
<1>5. Cardinality((A \cup B) \cup C) = Cardinality(A \cup B) + Cardinality(C)
  BY <1>1, <1>2, <1>4, TwoGroups
<1> QED
  BY <1>2, <1>3, <1>4, <1>5

\* The seats of a ring.
LEMMA Remainder ==
  ASSUME NEW x \in 0 .. N
  PROVE  x % N = (IF x = N THEN 0 ELSE x) /\ x % N \in Seat
<1>1. N \in Nat \ {0}
  BY SeatsAssumption
<1> QED
  BY <1>1 DEF Seat

LEMMA AroundIsSeat ==
  ASSUME SeatsTypeOK, NEW b \in Barber, NEW k \in 0 .. N
  PROVE  /\ Around(b, k) \in Seat
         /\ Around(b, 0) = next_serve[b] % N
<1>1. next_serve[b] \in 0 .. N
  BY Lines DEF SeatsTypeOK
<1>2. next_serve[b] % N \in Seat
  BY <1>1, Remainder
<1> QED
  BY <1>2, SeatsAssumption DEF Around, Seat

\* A step that moves the ring on leaves what it needs.
LEMMA AroundMoves ==
  ASSUME SeatsTypeOK, NEW b \in Barber,
         next_serve'[b] = (next_serve[b] % N) + 1
  PROVE  /\ \A k \in 0 .. N - 1 : Around(b, k)' = Around(b, k + 1)
         /\ \A k \in 1 .. N - 1 : Around(b, k) # next_serve[b] % N
<1>1. next_serve[b] \in 0 .. N /\ N \in Nat \ {0}
  BY Lines, SeatsAssumption DEF SeatsTypeOK
<1>2. next_serve[b] % N \in 0 .. N - 1
  BY <1>1, Remainder DEF Seat
<1> DEFINE first == next_serve[b] % N
<1>3. next_serve'[b] % N = IF first = N - 1 THEN 0 ELSE first + 1
  <2>1. next_serve'[b] \in 0 .. N
    BY <1>1, <1>2
  <2>2. next_serve'[b] % N = (IF next_serve'[b] = N THEN 0 ELSE next_serve'[b])
    BY <2>1, Remainder
  <2> QED
    BY <1>1, <1>2, <2>2
<1> DEFINE next == next_serve'[b] % N
<1>4. /\ \A k : Around(b, k) = IF first + k < N THEN first + k ELSE first + k - N
      /\ \A k : Around(b, k)' = IF next + k < N THEN next + k ELSE next + k - N
  BY DEF Around
<1> HIDE DEF first, next
<1>5. first \in 0 .. N - 1 /\ next = IF first = N - 1 THEN 0 ELSE first + 1
  BY <1>2, <1>3 DEF first, next
<1>6. ASSUME NEW k \in 0 .. N - 1
      PROVE  Around(b, k)' = Around(b, k + 1)
  BY <1>1, <1>4, <1>5
<1>7. ASSUME NEW k \in 1 .. N - 1
      PROVE  Around(b, k) # first
  BY <1>1, <1>4, <1>5
<1> QED
  BY <1>6, <1>7 DEF first

-----------------------------------------------------------------------------
(* An undisturbed barber *)

\* She sees no don't-care customer.
LEMMA SeesNone ==
  ASSUME SeatsInv, NEW b \in Barber, Undisturbed(b)
  PROVE  free["dc"] = N
<1>1. CASE \A c \in Customer : kind[c] # "dc"
  <2>1. \A c \in Customer : line[c] # "dc"
    BY <1>1 DEF SeatsInv, KindInv
  <2>2. At("dc", Sitting) = 0
    <3>1. {c \in Customer : line[c] = "dc" /\ stage[c] \in Sitting} = {}
      BY <2>1
    <3> QED
      BY <3>1, FS_EmptySet DEF At
  <2>3. CASE counted
    <3>1. N - free["dc"] = 0 /\ free["dc"] \in 0 .. N
      BY <2>2, <2>3, Lines DEF SeatsInv, SeatsTypeOK, Sitting
    <3> QED
      BY <3>1, SeatsAssumption
  <2>4. CASE ~ counted
    BY <2>4 DEF SeatsInv, UncountedInv
  <2> QED
    BY <2>3, <2>4
<1>2. CASE ~ counted
  BY <1>2 DEF SeatsInv, UncountedInv
<1> QED
  BY <1>1, <1>2 DEF Undisturbed

LEMMA UndisturbedStays ==
  ASSUME UNCHANGED <<counted, kind>>, NEW b
  PROVE  Undisturbed(b)' = Undisturbed(b)
BY DEF Undisturbed

\* As many pids are to be served as there are customers for them at most.
LEMMA UnservedSit ==
  ASSUME SeatsInv, NEW b \in Barber, Undisturbed(b)
  PROVE  /\ Unserved(b) \in Nat /\ Unserved(b) <= N - free[b]
         /\ free[b] \in 0 .. N
         /\ round[b] \in {"awake", "peeking", "choosing"} => Unserved(b) > 0
<1>1. /\ At(b, Sitting) = At(b, {"seated"}) + At(b, {"knocked", "waiting"}) + At(b, {"called"})
      /\ At(b, {"seated"}) \in Nat /\ At(b, {"knocked", "waiting"}) \in Nat
      /\ At(b, {"called"}) \in Nat
  BY AtParts, AtType
<1>2. /\ N - free[b] = At(b, Sitting) /\ free[b] \in 0 .. N
      /\ awake[b] \in Nat /\ called[b] \in Nat
      /\ round[b] \in {"asleep", "awake", "peeking", "choosing", "calling"}
  BY Lines DEF SeatsInv, SeatsTypeOK, Sitting
<1>3. At(b, {"knocked", "waiting"}) = awake[b] + (IF round[b] = "asleep" THEN 0 ELSE 1) + called[b]
  BY DEF SeatsInv, AwakeForEachCustomer
<1>4. N \in Nat
  BY SeatsAssumption
<1> QED
  BY <1>1, <1>2, <1>3, <1>4 DEF Unserved

\* The seat after the k-th is the next one, round the ring.
LEMMA AroundNext ==
  ASSUME SeatsTypeOK, NEW b \in Barber, NEW k \in 0 .. N - 1
  PROVE  (Around(b, k) + 1) % N = Around(b, k + 1)
<1>1. next_serve[b] \in 0 .. N /\ N \in Nat \ {0}
  BY Lines, SeatsAssumption DEF SeatsTypeOK
<1>2. next_serve[b] % N \in 0 .. N - 1
  BY <1>1, Remainder DEF Seat
<1>3. Around(b, k) + 1 \in 0 .. N
  BY <1>1, <1>2 DEF Around
<1>4. (Around(b, k) + 1) % N = (IF Around(b, k) + 1 = N THEN 0 ELSE Around(b, k) + 1)
  BY <1>3, Remainder
<1> QED
  BY <1>1, <1>2, <1>4 DEF Around

-----------------------------------------------------------------------------
(* Customers *)

\* One who sits down takes the seat after the last that is still to be served.
LEMMA SitDownStep ==
  ASSUME SeatsInv, NEW c \in Customer, SitDown(c)
  PROVE  SeatsInv'
<1> DEFINE t == line[c]
           s == next_seat[t] % N
<1>1. /\ t \in Line /\ stage[c] \in {"outside", "arriving"} /\ free[t] > 0 /\ free[t] \in 0 .. N
      /\ s \in Seat /\ N \in Nat \ {0}
  <2>1. next_seat[t] \in 0 .. N
    BY DEF SeatsInv, SeatsTypeOK
  <2>2. s \in Seat
    BY <2>1, Remainder
  <2> QED
    BY <2>2, SeatsAssumption DEF SitDown, Arrive, SeatsInv, SeatsTypeOK
<1>2. /\ free' = FreeSeats(t, free[t] - 1)
      /\ next_seat' = [next_seat EXCEPT ![t] = s + 1]
      /\ seats' = [seats EXCEPT ![t][s] = "customer"]
      /\ stage' = [stage EXCEPT ![c] = "seated"]
      /\ UNCHANGED <<counted, kind, line, round, calling, awake, access, called, queue, next_serve>>
  BY DEF SitDown, barberVars
<1> HIDE DEF t, s
<1>3. /\ \A u \in Line : u # t => free'[u] = free[u]
      /\ t # "dc" \/ counted => free'[t] = free[t] - 1
      /\ t = "dc" /\ ~ counted => free' = free
      /\ free' \in [Line -> 0 .. N]
  BY <1>1, <1>2 DEF FreeSeats, SeatsInv, SeatsTypeOK
<1>4. \A u, S : /\ At(u, S)' = At(u, S) + Here(c, u, S)' - Here(c, u, S)
                /\ At(u, S) \in Nat
  BY <1>2, AtMove, AtType DEF SeatsInv, SeatsTypeOK
<1>5. stage' \in [Customer -> {"outside", "arriving", "seated", "knocked", "waiting", "called", "gone"}]
      /\ stage'[c] = "seated" /\ line'[c] = t /\ line[c] = t
      /\ \A d \in Customer : d # c => stage'[d] = stage[d]
  BY <1>2 DEF SeatsInv, SeatsTypeOK, t
<1>6. SeatsTypeOK'
  <2>1. /\ next_seat' \in [Line -> 0 .. N]
        /\ seats' \in [Line -> [Seat -> {"customer", "barber", "nobody"}]]
    BY <1>1, <1>2 DEF SeatsInv, SeatsTypeOK, Seat
  <2>2. ASSUME NEW u \in Line, u # "dc" \/ counted'
        PROVE  N - free'[u] = At(u, Sitting)'
    <3>1. N - free[u] = At(u, Sitting) /\ free[u] \in 0 .. N
      BY <1>2, <2>2 DEF SeatsInv, SeatsTypeOK, Sitting
    <3>2. At(u, Sitting)' = At(u, Sitting) + (IF u = t THEN 1 ELSE 0)
      BY <1>1, <1>4, <1>5 DEF Here, Sitting
    <3> QED
      BY <1>1, <1>2, <1>3, <2>2, <3>1, <3>2
  <2> QED
    BY <1>2, <1>3, <1>5, <2>1, <2>2 DEF SeatsInv, SeatsTypeOK, Sitting
<1>7. KindInv' /\ CallingInv'
  BY <1>2, UndisturbedStays DEF SeatsInv, KindInv, CallingInv
<1>8. UncountedInv'
  BY <1>2, <1>3, Lines DEF SeatsInv, UncountedInv
<1>9. QueueInv'
  <2>1. \A d \in Customer : stage'[d] = "waiting" <=> stage[d] = "waiting"
    BY <1>1, <1>5
  <2> QED
    BY <1>2, <2>1 DEF SeatsInv, QueueInv
<1>10. AwakeForEachCustomer'
  <2>1. \A b \in Barber : At(b, {"knocked", "waiting"})' = At(b, {"knocked", "waiting"})
    BY <1>1, <1>4, <1>5 DEF Here
  <2> QED
    BY <1>2, <2>1, UndisturbedStays DEF SeatsInv, AwakeForEachCustomer
<1>11. RingInv'
  <2> SUFFICES ASSUME NEW b \in Barber, Undisturbed(b)
               PROVE  /\ next_seat'[b] % N = Around(b, Unserved(b))'
                      /\ \A k \in 0 .. Unserved(b)' - 1 : seats'[b][Around(b, k)'] = "customer"
    BY <1>2, UndisturbedStays DEF RingInv
  <2>1. /\ Unserved(b) \in Nat /\ Unserved(b) <= N - free[b] /\ free[b] \in 0 .. N
        /\ next_seat[b] % N = Around(b, Unserved(b))
        /\ \A k \in 0 .. Unserved(b) - 1 : seats[b][Around(b, k)] = "customer"
    BY UnservedSit DEF SeatsInv, RingInv
  <2>2. Unserved(b)' = Unserved(b) + (IF b = t THEN 1 ELSE 0)
    <3>1. At(b, {"seated"})' = At(b, {"seated"}) + (IF b = t THEN 1 ELSE 0)
      BY <1>1, <1>4, <1>5 DEF Here
    <3>2. awake[b] \in Nat
      BY DEF SeatsInv, SeatsTypeOK
    <3> QED
      BY <1>2, <1>4, <3>1, <3>2 DEF Unserved
  <2>3. \A k : Around(b, k)' = Around(b, k)
    BY <1>2 DEF Around
  <2>4. CASE b # t
    <3>1. next_seat'[b] = next_seat[b] /\ seats'[b] = seats[b]
      BY <1>2, <2>4
    <3>2. Unserved(b)' = Unserved(b)
      BY <2>1, <2>2, <2>4
    <3>3. Around(b, Unserved(b))' = Around(b, Unserved(b)')
      BY <1>2 DEF Around
    <3> QED
      BY <2>1, <2>3, <3>1, <3>2, <3>3
  <2>5. CASE b = t
    <3>1. Unserved(b) \in 0 .. N - 1 /\ Unserved(b)' = Unserved(b) + 1
      BY <1>1, <2>1, <2>2, <2>5
    <3>2. next_seat'[b] = s + 1 /\ s = Around(b, Unserved(b))
      BY <1>1, <1>2, <2>1, <2>5, Lines DEF s, SeatsInv, SeatsTypeOK
    <3>3. (Around(b, Unserved(b)) + 1) % N = Around(b, Unserved(b) + 1)
      BY <3>1, AroundNext DEF SeatsInv
    <3>4. Around(b, Unserved(b))' = Around(b, Unserved(b)')
      BY <1>2 DEF Around
    <3>5. ASSUME NEW k \in 0 .. Unserved(b)
          PROVE  seats'[b][Around(b, k)] = "customer"
      <4>1. Around(b, k) \in Seat
        BY <1>1, <3>1, AroundIsSeat DEF SeatsInv
      <4>2. seats'[b] = [seats[b] EXCEPT ![s] = "customer"] /\ DOMAIN seats[b] = Seat
        BY <1>2, <1>1, <2>5 DEF SeatsInv, SeatsTypeOK
      <4>3. k # Unserved(b) => k \in 0 .. Unserved(b) - 1
        BY <2>1
      <4> QED
        BY <2>1, <3>2, <4>1, <4>2, <4>3
    <3> QED
      BY <2>1, <2>3, <3>1, <3>2, <3>3, <3>4, <3>5
  <2> QED
    BY <2>4, <2>5
<1> QED
  BY <1>6, <1>7, <1>8, <1>9, <1>10, <1>11 DEF SeatsInv

\* The ring of a barber stays as it is if her counts do.
LEMMA RingStays ==
  ASSUME SeatsInv, NEW b \in Barber, Undisturbed(b), Unserved(b)' = Unserved(b),
         next_serve'[b] = next_serve[b], next_seat'[b] = next_seat[b], seats'[b] = seats[b]
  PROVE  /\ next_seat'[b] % N = Around(b, Unserved(b))'
         /\ \A k \in 0 .. Unserved(b)' - 1 : seats'[b][Around(b, k)'] = "customer"
<1>1. \A k : Around(b, k)' = Around(b, k)
  BY DEF Around
<1>2. Around(b, Unserved(b))' = Around(b, Unserved(b)')
  BY DEF Around
<1> QED
  BY <1>1, <1>2 DEF SeatsInv, RingInv

\* Whoever moves on is in no seat afterwards.
LEMMA MovesOn ==
  ASSUME SeatsInv, NEW c \in Customer, MoveOn(c), stage[c] \in {"outside", "arriving", "called"},
         UNCHANGED <<kind, queue>>
  PROVE  /\ line' \in [Customer -> Line]
         /\ stage' \in [Customer -> {"outside", "arriving", "seated", "knocked", "waiting", "called", "gone"}]
         /\ stage'[c] \in {"arriving", "gone"}
         /\ \A d \in Customer : d # c => line'[d] = line[d] /\ stage'[d] = stage[d]
         /\ KindInv' /\ QueueInv'
<1>1. /\ line \in [Customer -> Line]
      /\ stage \in [Customer -> {"outside", "arriving", "seated", "knocked", "waiting", "called", "gone"}]
  BY DEF SeatsInv, SeatsTypeOK
<1>2. CASE kind[c] = "dc" /\ line[c] # "judy"
  <2>1. /\ line' = [line EXCEPT ![c] = IF @ = "dc" THEN "tina" ELSE "judy"]
        /\ stage' = [stage EXCEPT ![c] = "arriving"]
    BY <1>2 DEF MoveOn
  <2>2. /\ line' \in [Customer -> Line]
        /\ stage' \in [Customer -> {"outside", "arriving", "seated", "knocked", "waiting", "called", "gone"}]
        /\ stage'[c] = "arriving"
        /\ \A d \in Customer : d # c => line'[d] = line[d] /\ stage'[d] = stage[d]
    BY <1>1, <2>1, Lines
  <2>3. KindInv'
    BY <1>2, <2>2 DEF SeatsInv, KindInv
  <2>4. \A d \in Customer, t \in Line :
          line'[d] = t /\ stage'[d] = "waiting" <=> line[d] = t /\ stage[d] = "waiting"
    BY <2>2
  <2>5. QueueInv'
    BY <2>4 DEF SeatsInv, QueueInv
  <2> QED
    BY <2>2, <2>3, <2>5
<1>3. CASE ~ (kind[c] = "dc" /\ line[c] # "judy")
  <2>1. stage' = [stage EXCEPT ![c] = "gone"] /\ UNCHANGED line
    BY <1>3 DEF MoveOn
  <2>2. /\ stage' \in [Customer -> {"outside", "arriving", "seated", "knocked", "waiting", "called", "gone"}]
        /\ stage'[c] = "gone"
        /\ \A d \in Customer : d # c => stage'[d] = stage[d]
    BY <1>1, <2>1
  <2>3. KindInv'
    BY <2>1 DEF SeatsInv, KindInv
  <2>4. \A d \in Customer, t \in Line :
          line'[d] = t /\ stage'[d] = "waiting" <=> line[d] = t /\ stage[d] = "waiting"
    BY <2>1, <2>2
  <2>5. QueueInv'
    BY <2>4 DEF SeatsInv, QueueInv
  <2> QED
    BY <1>1, <2>1, <2>2, <2>3, <2>5
<1> QED
  BY <1>2, <1>3

\* A customer turned away or getting up leaves the counts of those to be served.
LEMMA LeaveStep ==
  ASSUME SeatsInv, NEW c \in Customer, TurnAway(c) \/ GetUp(c)
  PROVE  SeatsInv'
<1> DEFINE t == line[c]
<1>1. /\ MoveOn(c) /\ t \in Line /\ free[t] \in 0 .. N /\ N \in Nat \ {0}
      /\ stage[c] \in {"outside", "arriving", "called"}
      /\ UNCHANGED <<counted, kind, round, calling, awake, access, called, queue,
                     next_seat, next_serve, seats>>
  BY SeatsAssumption DEF TurnAway, GetUp, Arrive, barberVars, SeatsInv, SeatsTypeOK
<1>2. /\ line' \in [Customer -> Line]
      /\ stage' \in [Customer -> {"outside", "arriving", "seated", "knocked", "waiting", "called", "gone"}]
      /\ stage'[c] \in {"arriving", "gone"}
      /\ \A d \in Customer : d # c => line'[d] = line[d] /\ stage'[d] = stage[d]
      /\ KindInv' /\ QueueInv'
  BY <1>1, MovesOn
<1>3. \A u, S : /\ At(u, S)' = At(u, S) + Here(c, u, S)' - Here(c, u, S)
                /\ At(u, S) \in Nat
  BY <1>2, AtMove, AtType
<1>4. \A u \in Line : At(u, {"seated"})' = At(u, {"seated"})
                      /\ At(u, {"knocked", "waiting"})' = At(u, {"knocked", "waiting"})
  BY <1>1, <1>2, <1>3 DEF Here
<1>5. /\ stage[c] # "called" => free' = free
      /\ stage[c] = "called" => free' = FreeSeats(t, free[t] + 1)
  BY DEF TurnAway, GetUp, Arrive
<1>6. \A u \in Line : At(u, Sitting)' = At(u, Sitting) - (IF u = t /\ stage[c] = "called" THEN 1 ELSE 0)
  BY <1>1, <1>2, <1>3 DEF Here, Sitting
<1>7. stage[c] = "called" => At(t, Sitting) >= 1
  BY AtType DEF Sitting
<1> HIDE DEF t
<1>8. \A u \in Line : u # "dc" \/ counted =>
        N - free[u] = At(u, Sitting) /\ free[u] \in 0 .. N
  BY DEF SeatsInv, SeatsTypeOK, Sitting
<1>9. /\ free' \in [Line -> 0 .. N]
      /\ \A u \in Line : u # "dc" \/ counted => N - free'[u] = At(u, Sitting)'
      /\ ~ counted => free'["dc"] = free["dc"]
  <2>0. free \in [Line -> 0 .. N]
    BY DEF SeatsInv, SeatsTypeOK
  <2>1. CASE stage[c] # "called"
    BY <1>5, <1>6, <1>3, <1>8, <2>0, <2>1
  <2>2. CASE stage[c] = "called" /\ t = "dc" /\ ~ counted
    <3>1. free' = free
      BY <1>5, <2>2 DEF FreeSeats
    <3> QED
      BY <1>3, <1>6, <1>8, <2>0, <2>2, <3>1
  <2>3. CASE stage[c] = "called" /\ (t # "dc" \/ counted)
    <3>1. free' = [free EXCEPT ![t] = free[t] + 1]
      BY <1>5, <2>3 DEF FreeSeats
    <3>2. free[t] + 1 \in 0 .. N
      BY <1>1, <1>7, <1>8, <2>3
    <3>3. /\ free' \in [Line -> 0 .. N] /\ free'[t] = free[t] + 1
          /\ \A u \in Line : u # t => free'[u] = free[u]
      BY <1>1, <2>0, <3>1, <3>2
    <3>4. ASSUME NEW u \in Line, u # "dc" \/ counted
          PROVE  N - free'[u] = At(u, Sitting)'
      BY <1>1, <1>6, <1>8, <2>3, <3>3, <3>4
    <3> QED
      BY <2>3, <3>3, <3>4, Lines
  <2> QED
    BY <2>1, <2>2, <2>3
<1>10. SeatsTypeOK'
  BY <1>1, <1>2, <1>9 DEF SeatsInv, SeatsTypeOK, Sitting
<1>11. UncountedInv' /\ CallingInv'
  BY <1>1, <1>9, UndisturbedStays DEF SeatsInv, UncountedInv, CallingInv
<1>12. AwakeForEachCustomer'
  BY <1>1, <1>4, Lines, UndisturbedStays DEF SeatsInv, AwakeForEachCustomer
<1>13. RingInv'
  <2>1. \A b \in Barber : Unserved(b)' = Unserved(b)
    BY <1>1, <1>4, Lines DEF Unserved
  <2> QED
    BY <1>1, <2>1, UndisturbedStays, RingStays DEF RingInv
<1> QED
  BY <1>2, <1>10, <1>11, <1>12, <1>13 DEF SeatsInv

\* An undisturbed barber is woken by those of her line, and by nobody else.
LEMMA WakesHer ==
  ASSUME SeatsInv, NEW b \in Barber, Undisturbed(b), NEW c \in Customer
  PROVE  b \in Wakes(line[c]) <=> b = line[c]
<1>1. CASE line[c] = "dc"
  <2>1. kind[c] = "dc"
    BY <1>1 DEF SeatsInv, KindInv
  <2>2. b = "judy"
    BY <2>1 DEF Undisturbed
  <2> QED
    BY <1>1, <2>2 DEF Wakes
<1>2. CASE line[c] # "dc"
  BY <1>2 DEF Wakes
<1> QED
  BY <1>1, <1>2

LEMMA KnockStep ==
  ASSUME SeatsInv, NEW c \in Customer, Knock(c)
  PROVE  SeatsInv'
<1> DEFINE t == line[c]
<1>1. /\ stage[c] = "seated" /\ t \in Line
      /\ awake' = [b \in Barber |-> IF b \in Wakes(t) THEN awake[b] + 1 ELSE awake[b]]
      /\ stage' = [stage EXCEPT ![c] = "knocked"]
      /\ UNCHANGED <<counted, kind, line, round, calling, access, called, queue, free,
                     next_seat, next_serve, seats>>
  BY DEF Knock, barberVars, SeatsInv, SeatsTypeOK
<1>2. /\ stage' \in [Customer -> {"outside", "arriving", "seated", "knocked", "waiting", "called", "gone"}]
      /\ stage'[c] = "knocked"
      /\ \A d \in Customer : d # c => stage'[d] = stage[d]
  BY <1>1 DEF SeatsInv, SeatsTypeOK
<1>3. \A u, S : /\ At(u, S)' = At(u, S) + Here(c, u, S)' - Here(c, u, S)
                /\ At(u, S) \in Nat
  BY <1>1, <1>2, AtMove, AtType
<1>4. \A u \in Line :
        /\ At(u, Sitting)' = At(u, Sitting)
        /\ At(u, {"seated"})' = At(u, {"seated"}) - (IF u = t THEN 1 ELSE 0)
        /\ At(u, {"knocked", "waiting"})' = At(u, {"knocked", "waiting"}) + (IF u = t THEN 1 ELSE 0)
  BY <1>1, <1>2, <1>3 DEF Here, Sitting
<1>5. /\ awake' \in [Barber -> Nat] /\ \A b \in Barber : awake[b] \in Nat
      /\ \A b \in Barber : Undisturbed(b) => awake'[b] = awake[b] + (IF b = t THEN 1 ELSE 0)
  <2>1. awake \in [Barber -> Nat]
    BY DEF SeatsInv, SeatsTypeOK
  <2>2. awake' \in [Barber -> Nat]
    BY <1>1, <2>1
  <2> QED
    BY <1>1, <2>1, <2>2, WakesHer
<1> HIDE DEF t
<1>6. SeatsTypeOK'
  BY <1>1, <1>2, <1>4, <1>5 DEF SeatsInv, SeatsTypeOK, Sitting
<1>7. KindInv' /\ UncountedInv' /\ CallingInv'
  BY <1>1, UndisturbedStays DEF SeatsInv, KindInv, UncountedInv, CallingInv
<1>8. QueueInv'
  <2>1. \A d \in Customer : stage'[d] = "waiting" <=> stage[d] = "waiting"
    BY <1>1, <1>2
  <2> QED
    BY <1>1, <2>1 DEF SeatsInv, QueueInv
<1>9. AwakeForEachCustomer'
  <2> SUFFICES ASSUME NEW b \in Barber, Undisturbed(b)
               PROVE  At(b, {"knocked", "waiting"})' =
                        awake'[b] + (IF round'[b] = "asleep" THEN 0 ELSE 1) + called'[b]
    BY <1>1, UndisturbedStays DEF AwakeForEachCustomer
  <2>1. called[b] \in Nat
    BY Lines DEF SeatsInv, SeatsTypeOK
  <2> QED
    BY <1>1, <1>3, <1>4, <1>5, <2>1, Lines DEF SeatsInv, AwakeForEachCustomer
<1>10. RingInv'
  <2>1. ASSUME NEW b \in Barber, Undisturbed(b)
        PROVE  Unserved(b)' = Unserved(b)
    BY <1>1, <1>3, <1>4, <1>5, <2>1, Lines DEF Unserved
  <2> QED
    BY <1>1, <2>1, UndisturbedStays, RingStays DEF RingInv
<1> QED
  BY <1>6, <1>7, <1>8, <1>9, <1>10 DEF SeatsInv

\* wait(...Custs): the customer goes through, or is the last of the queue.
LEMMA WaitTurnStep ==
  ASSUME SeatsInv, NEW c \in Customer, WaitTurn(c)
  PROVE  SeatsInv'
<1> DEFINE t == line[c]
<1>1. /\ stage[c] = "knocked" /\ t \in Line
      /\ \/ /\ called[t] > 0
            /\ called' = [called EXCEPT ![t] = @ - 1]
            /\ stage' = [stage EXCEPT ![c] = "called"]
            /\ UNCHANGED queue
         \/ /\ called[t] = 0
            /\ queue' = [queue EXCEPT ![t] = Append(@, c)]
            /\ stage' = [stage EXCEPT ![c] = "waiting"]
            /\ UNCHANGED called
      /\ UNCHANGED <<counted, kind, line, round, calling, awake, access, free,
                     next_seat, next_serve, seats>>
  BY DEF WaitTurn, barberVars, SeatsInv, SeatsTypeOK
<1>2. /\ stage' \in [Customer -> {"outside", "arriving", "seated", "knocked", "waiting", "called", "gone"}]
      /\ stage'[c] \in {"called", "waiting"}
      /\ stage'[c] = "called" => called' = [called EXCEPT ![t] = @ - 1] /\ called[t] > 0
      /\ stage'[c] = "waiting" => called' = called
      /\ \A d \in Customer : d # c => line'[d] = line[d] /\ stage'[d] = stage[d]
  BY <1>1 DEF SeatsInv, SeatsTypeOK
<1>0. UNCHANGED <<counted, kind, line, round, calling, awake, access, free,
                  next_seat, next_serve, seats>>
  BY <1>1
<1>3. \A u, S : /\ At(u, S)' = At(u, S) + Here(c, u, S)' - Here(c, u, S)
                /\ At(u, S) \in Nat
  BY <1>2, AtMove, AtType
<1>4. \A u \in Line :
        /\ At(u, Sitting)' = At(u, Sitting)
        /\ At(u, {"seated"})' = At(u, {"seated"})
        /\ At(u, {"knocked", "waiting"})' =
             At(u, {"knocked", "waiting"}) - (IF u = t /\ stage'[c] = "called" THEN 1 ELSE 0)
  BY <1>1, <1>2, <1>3 DEF Here, Sitting
<1>5. /\ called' \in [Line -> Nat]
      /\ \A u \in Line : /\ called[u] \in Nat
                         /\ called'[u] = called[u] - (IF u = t /\ stage'[c] = "called" THEN 1 ELSE 0)
  <2>1. called \in [Line -> Nat]
    BY DEF SeatsInv, SeatsTypeOK
  <2>2. CASE stage'[c] = "called"
    BY <1>1, <1>2, <2>1, <2>2
  <2>3. CASE stage'[c] = "waiting"
    BY <1>1, <1>2, <2>1, <2>3
  <2> QED
    BY <1>2, <2>2, <2>3
<1>6. QueueInv' /\ queue' \in [Line -> Seq(Customer)]
  <2>0. /\ queue \in [Line -> Seq(Customer)]
        /\ \A u \in Line : IsInjective(queue[u]) /\ c \notin Range(queue[u])
        /\ \A u \in Line : Range(queue[u]) = {d \in Customer : line[d] = u /\ stage[d] = "waiting"}
    BY <1>1 DEF SeatsInv, SeatsTypeOK, QueueInv
  <2>1. CASE stage'[c] = "called"
    <3>1. UNCHANGED queue
      BY <1>1, <2>1 DEF SeatsInv, SeatsTypeOK
    <3>2. \A d \in Customer : stage'[d] = "waiting" <=> stage[d] = "waiting"
      BY <1>1, <1>2, <2>1
    <3> QED
      BY <1>1, <2>0, <3>1, <3>2 DEF QueueInv
  <2>2. CASE stage'[c] = "waiting"
    <3>1. queue' = [queue EXCEPT ![t] = Append(@, c)]
      BY <1>1, <2>2 DEF SeatsInv, SeatsTypeOK
    <3>2. queue[t] \in Seq(Customer) /\ Append(queue[t], c) \in Seq(Customer)
      BY <1>1, <2>0
    <3>3. /\ queue' \in [Line -> Seq(Customer)] /\ queue'[t] = Append(queue[t], c)
          /\ \A u \in Line : u # t => queue'[u] = queue[u]
      BY <1>1, <2>0, <3>1, <3>2
    <3>4. IsInjective(queue'[t]) /\ Range(queue'[t]) = Range(queue[t]) \cup {c}
      BY <1>1, <2>0, <3>2, <3>3, Joins
    <3>5. ASSUME NEW u \in Line
          PROVE  /\ IsInjective(queue'[u])
                 /\ Range(queue'[u]) = {d \in Customer : line'[d] = u /\ stage'[d] = "waiting"}
      <4>1. CASE u = t
        <5>1. \A d \in Customer : stage'[d] = "waiting" <=> stage[d] = "waiting" \/ d = c
          BY <1>2, <2>2
        <5> QED
          BY <1>1, <2>0, <3>4, <4>1, <5>1
      <4>2. CASE u # t
        <5>1. \A d \in Customer : line[d] = u => (stage'[d] = "waiting" <=> stage[d] = "waiting")
          BY <1>2, <4>2
        <5> QED
          BY <1>1, <2>0, <3>3, <4>2, <5>1
      <4> QED
        BY <4>1, <4>2
    <3> QED
      BY <3>3, <3>5 DEF QueueInv
  <2> QED
    BY <1>2, <2>1, <2>2
<1> HIDE DEF t
<1>7. SeatsTypeOK'
  BY <1>0, <1>2, <1>4, <1>5, <1>6 DEF SeatsInv, SeatsTypeOK, Sitting
<1>8. KindInv' /\ UncountedInv' /\ CallingInv'
  BY <1>0, UndisturbedStays DEF SeatsInv, KindInv, UncountedInv, CallingInv
<1>9. AwakeForEachCustomer'
  <2> SUFFICES ASSUME NEW b \in Barber, Undisturbed(b)
               PROVE  At(b, {"knocked", "waiting"})' =
                        awake'[b] + (IF round'[b] = "asleep" THEN 0 ELSE 1) + called'[b]
    BY <1>0, UndisturbedStays DEF AwakeForEachCustomer
  <2>1. awake[b] \in Nat
    BY DEF SeatsInv, SeatsTypeOK
  <2> QED
    BY <1>0, <1>3, <1>4, <1>5, <2>1, Lines DEF SeatsInv, AwakeForEachCustomer
<1>10. RingInv'
  <2>1. \A b \in Barber : Unserved(b)' = Unserved(b)
    BY <1>0, <1>4, Lines DEF Unserved
  <2> QED
    BY <1>0, <2>1, UndisturbedStays, RingStays DEF RingInv
<1> QED
  BY <1>6, <1>7, <1>8, <1>9, <1>10 DEF SeatsInv

-----------------------------------------------------------------------------
(* Barbers *)

LEMMA BarberTypes ==
  ASSUME SeatsInv, NEW b \in Barber
  PROVE  /\ awake[b] \in Nat /\ called[b] \in Nat
         /\ At(b, {"seated"}) \in Nat
         /\ calling[b] \in {b, "dc"} /\ calling[b] \in Line
         /\ Undisturbed(b) => calling[b] = b
BY Lines, AtType DEF SeatsInv, SeatsTypeOK, CallingInv

\* A barber wakes up, or goes for the mutex of her line.
LEMMA WakeUpStep ==
  ASSUME SeatsInv, NEW b \in Barber, WakeUp(b) \/ LockOwn(b)
  PROVE  SeatsInv'
<1>1. /\ round' = [round EXCEPT ![b] = IF round[b] = "asleep" THEN "awake" ELSE "peeking"]
      /\ round[b] \in {"asleep", "awake"}
      /\ round[b] = "asleep" => awake[b] > 0 /\ awake' = [awake EXCEPT ![b] = @ - 1]
      /\ round[b] = "awake" => awake' = awake
      /\ access' = access \/ access' = [access EXCEPT ![b] = 0]
      /\ UNCHANGED <<counted, kind, line, stage, calling, called, queue, free,
                     next_seat, next_serve, seats>>
  BY DEF WakeUp, LockOwn, custVars
<1>2. /\ round' \in [Barber -> {"asleep", "awake", "peeking", "choosing", "calling"}]
      /\ round'[b] = (IF round[b] = "asleep" THEN "awake" ELSE "peeking")
      /\ \A d \in Barber : d # b => round'[d] = round[d]
  BY <1>1 DEF SeatsInv, SeatsTypeOK
<1>3. /\ awake' \in [Barber -> Nat] /\ awake[b] \in Nat
      /\ awake'[b] = awake[b] - (IF round[b] = "asleep" THEN 1 ELSE 0)
      /\ \A d \in Barber : d # b => awake'[d] = awake[d]
  <2>1. awake \in [Barber -> Nat]
    BY DEF SeatsInv, SeatsTypeOK
  <2> QED
    BY <1>1, <2>1
<1>4. \A u, S : At(u, S)' = At(u, S)
  BY <1>1, AtStays DEF custVars
<1>5. SeatsTypeOK'
  <2>1. access' \in [Line -> {0, 1}]
    BY <1>1, Lines DEF SeatsInv, SeatsTypeOK
  <2> QED
    BY <1>1, <1>2, <1>3, <1>4, <2>1 DEF SeatsInv, SeatsTypeOK, Sitting
<1>6. KindInv' /\ UncountedInv' /\ QueueInv'
  BY <1>1 DEF SeatsInv, KindInv, UncountedInv, QueueInv
<1>7. CallingInv'
  <2>1. \A d \in Barber : round'[d] \in {"asleep", "awake", "peeking"} =>
                          round[d] \in {"asleep", "awake", "peeking"}
    BY <1>1, <1>2
  <2> QED
    BY <1>1, <2>1, UndisturbedStays DEF SeatsInv, CallingInv
<1>8. AwakeForEachCustomer'
  <2> SUFFICES ASSUME NEW d \in Barber, Undisturbed(d)
               PROVE  At(d, {"knocked", "waiting"})' =
                        awake'[d] + (IF round'[d] = "asleep" THEN 0 ELSE 1) + called'[d]
    BY <1>1, UndisturbedStays DEF AwakeForEachCustomer
  <2>1. At(d, {"knocked", "waiting"}) = awake[d] + (IF round[d] = "asleep" THEN 0 ELSE 1) + called[d]
    BY DEF SeatsInv, AwakeForEachCustomer
  <2> QED
    BY <1>1, <1>2, <1>3, <1>4, <2>1, BarberTypes
<1>9. RingInv'
  <2>1. ASSUME NEW d \in Barber
        PROVE  Unserved(d)' = Unserved(d)
    BY <1>1, <1>2, <1>3, <1>4, BarberTypes DEF Unserved
  <2> QED
    BY <1>1, <2>1, UndisturbedStays, RingStays DEF RingInv
<1> QED
  BY <1>5, <1>6, <1>7, <1>8, <1>9 DEF SeatsInv

\* An undisturbed barber who has woken up finds a taken seat in her own line.
LEMMA ChooseStep ==
  ASSUME SeatsInv, NEW b \in Barber, Choose(b)
  PROVE  SeatsInv'
<1>1. /\ round[b] = "peeking"
      /\ UNCHANGED <<counted, kind, line, stage, awake, called, queue, free,
                     next_seat, next_serve, seats>>
      /\ \/ \E t \in Taken(b) :
              /\ calling' = [calling EXCEPT ![b] = t]
              /\ access' = [access EXCEPT ![b] = 1, !["dc"] = 1, ![t] = 0]
              /\ round' = [round EXCEPT ![b] = "choosing"]
         \/ /\ Taken(b) = {}
            /\ access' = [access EXCEPT ![b] = 1]
            /\ round' = [round EXCEPT ![b] = "asleep"]
            /\ UNCHANGED calling
  BY DEF Choose, custVars
<1>2. ASSUME Undisturbed(b)
      PROVE  Taken(b) = {b}
  <2>1. free["dc"] = N
    BY <1>2, SeesNone
  <2>2. Unserved(b) \in Nat /\ Unserved(b) <= N - free[b] /\ free[b] \in 0 .. N /\ Unserved(b) > 0
    BY <1>1, <1>2, UnservedSit
  <2> QED
    BY <2>1, <2>2, SeatsAssumption DEF Taken
<1>3. /\ round' \in [Barber -> {"asleep", "awake", "peeking", "choosing", "calling"}]
      /\ round'[b] \in {"asleep", "choosing"}
      /\ Undisturbed(b) => round'[b] = "choosing" /\ calling'[b] = b
      /\ round'[b] = "asleep" => calling'[b] = calling[b]
      /\ \A d \in Barber : d # b => round'[d] = round[d] /\ calling'[d] = calling[d]
      /\ calling' \in [Barber -> Line] /\ \A d \in Barber : calling'[d] \in {d, "dc"}
      /\ access' \in [Line -> {0, 1}]
  <2>1. /\ round \in [Barber -> {"asleep", "awake", "peeking", "choosing", "calling"}]
        /\ access \in [Line -> {0, 1}]
        /\ calling \in [Barber -> Line] /\ \A d \in Barber : calling[d] \in {d, "dc"}
    BY DEF SeatsInv, SeatsTypeOK
  <2>2. CASE /\ Taken(b) = {} /\ access' = [access EXCEPT ![b] = 1]
             /\ round' = [round EXCEPT ![b] = "asleep"] /\ UNCHANGED calling
    <3>1. ~ Undisturbed(b)
      BY <1>2, <2>2
    <3> QED
      BY <2>1, <2>2, <3>1, Lines
  <2>3. CASE \E t \in Taken(b) :
               /\ calling' = [calling EXCEPT ![b] = t]
               /\ access' = [access EXCEPT ![b] = 1, !["dc"] = 1, ![t] = 0]
               /\ round' = [round EXCEPT ![b] = "choosing"]
    <3>1. PICK t \in Taken(b) :
            /\ calling' = [calling EXCEPT ![b] = t]
            /\ access' = [access EXCEPT ![b] = 1, !["dc"] = 1, ![t] = 0]
            /\ round' = [round EXCEPT ![b] = "choosing"]
      BY <2>3
    <3>2. t \in {b, "dc"} /\ t \in Line /\ (Undisturbed(b) => t = b)
      BY <1>2, Lines DEF Taken
    <3>3. access' \in [Line -> {0, 1}]
      BY <2>1, <3>1
    <3>4. calling' \in [Barber -> Line] /\ calling'[b] = t
          /\ \A d \in Barber : d # b => calling'[d] = calling[d]
      BY <2>1, <3>1, <3>2
    <3>5. round' \in [Barber -> {"asleep", "awake", "peeking", "choosing", "calling"}]
          /\ round'[b] = "choosing" /\ \A d \in Barber : d # b => round'[d] = round[d]
      BY <2>1, <3>1
    <3> QED
      BY <2>1, <3>2, <3>3, <3>4, <3>5
  <2> QED
    BY <1>1, <2>2, <2>3
<1>4. \A u, S : At(u, S)' = At(u, S)
  BY <1>1, AtStays DEF custVars
<1>5. SeatsTypeOK'
  BY <1>1, <1>3, <1>4 DEF SeatsInv, SeatsTypeOK, Sitting
<1>6. KindInv' /\ UncountedInv' /\ QueueInv'
  BY <1>1 DEF SeatsInv, KindInv, UncountedInv, QueueInv
<1>7. CallingInv'
  BY <1>1, <1>3, UndisturbedStays DEF SeatsInv, CallingInv
<1>8. AwakeForEachCustomer'
  <2>1. \A d \in Barber : Undisturbed(d) => (round'[d] = "asleep" <=> round[d] = "asleep")
    BY <1>1, <1>3
  <2> QED
    BY <1>1, <1>4, <2>1, UndisturbedStays DEF SeatsInv, AwakeForEachCustomer
<1>9. RingInv'
  <2>1. ASSUME NEW d \in Barber, Undisturbed(d)
        PROVE  Unserved(d)' = Unserved(d)
    BY <1>1, <1>3, <1>4, <2>1 DEF Unserved
  <2> QED
    BY <1>1, <2>1, UndisturbedStays, RingStays DEF RingInv
<1> QED
  BY <1>5, <1>6, <1>7, <1>8, <1>9 DEF SeatsInv

\* A barber who serves takes the pid in the first of the seats to be served, and
\* no other barber's.
LEMMA ServeStep ==
  ASSUME SeatsInv, NEW b \in Barber, Serve(b)
  PROVE  SeatsInv'
<1> DEFINE t == calling[b]
           s == next_serve[t] % N
<1>1. /\ round[b] = "choosing"
      /\ next_serve' = [next_serve EXCEPT ![t] = s + 1]
      /\ seats' = [seats EXCEPT ![t][s] = "barber"]
      /\ access' = [access EXCEPT ![t] = 1]
      /\ round' = [round EXCEPT ![b] = "calling"]
      /\ UNCHANGED <<counted, kind, line, stage, calling, awake, called, queue, free, next_seat>>
  BY DEF Serve, NextToServe, custVars
<1>2. /\ t \in {b, "dc"} /\ t \in Line /\ s \in Seat /\ N \in Nat \ {0}
      /\ Undisturbed(b) => t = b
  <2>1. t \in {b, "dc"} /\ t \in Line /\ (Undisturbed(b) => t = b)
    BY BarberTypes
  <2>2. next_serve[t] \in 0 .. N
    BY <2>1 DEF SeatsInv, SeatsTypeOK
  <2> QED
    BY <2>1, <2>2, Remainder, SeatsAssumption
<1> HIDE DEF t, s
<1>3. /\ round' \in [Barber -> {"asleep", "awake", "peeking", "choosing", "calling"}]
      /\ round'[b] = "calling"
      /\ \A d \in Barber : d # b => round'[d] = round[d]
  BY <1>1 DEF SeatsInv, SeatsTypeOK
<1>4. \A u, S : At(u, S)' = At(u, S)
  BY <1>1, AtStays DEF custVars
<1>5. SeatsTypeOK'
  <2>1. /\ next_serve' \in [Line -> 0 .. N]
        /\ seats' \in [Line -> [Seat -> {"customer", "barber", "nobody"}]]
        /\ access' \in [Line -> {0, 1}]
    BY <1>1, <1>2 DEF SeatsInv, SeatsTypeOK, Seat
  <2> QED
    BY <1>1, <1>3, <1>4, <2>1 DEF SeatsInv, SeatsTypeOK, Sitting
<1>6. KindInv' /\ UncountedInv' /\ QueueInv'
  BY <1>1 DEF SeatsInv, KindInv, UncountedInv, QueueInv
<1>7. CallingInv'
  BY <1>1, <1>3, UndisturbedStays DEF SeatsInv, CallingInv
<1>8. AwakeForEachCustomer'
  <2>1. \A d \in Barber : round'[d] = "asleep" <=> round[d] = "asleep"
    BY <1>1, <1>3
  <2> QED
    BY <1>1, <1>4, <2>1, UndisturbedStays DEF SeatsInv, AwakeForEachCustomer
<1>9. RingInv'
  <2> SUFFICES ASSUME NEW d \in Barber, Undisturbed(d)
               PROVE  /\ next_seat'[d] % N = Around(d, Unserved(d))'
                      /\ \A k \in 0 .. Unserved(d)' - 1 : seats'[d][Around(d, k)'] = "customer"
    BY <1>1, UndisturbedStays DEF RingInv
  <2>1. CASE d # b
    <3>1. d # t
      BY <1>2, <2>1, Lines
    <3>2. Unserved(d)' = Unserved(d)
      BY <1>1, <1>3, <1>4, <2>1 DEF Unserved
    <3>3. next_serve'[d] = next_serve[d] /\ next_seat'[d] = next_seat[d] /\ seats'[d] = seats[d]
      BY <1>1, <3>1
    <3> QED
      BY <3>2, <3>3, RingStays
  <2>2. CASE d = b
    <3>1. t = b
      BY <1>2, <2>2
    <3>2. /\ Unserved(b) \in Nat /\ Unserved(b) <= N /\ Unserved(b) > 0
          /\ next_seat[b] % N = Around(b, Unserved(b))
          /\ \A k \in 0 .. Unserved(b) - 1 : seats[b][Around(b, k)] = "customer"
      <4>1. Unserved(b) \in Nat /\ Unserved(b) <= N - free[b] /\ free[b] \in 0 .. N /\ Unserved(b) > 0
        BY <1>1, <2>2, UnservedSit
      <4> QED
        BY <1>2, <2>2, <4>1 DEF SeatsInv, RingInv
    <3>3. Unserved(b)' = Unserved(b) - 1
      BY <1>1, <1>3, <1>4, BarberTypes DEF Unserved
    <3>4. next_serve'[b] = (next_serve[b] % N) + 1 /\ s = next_serve[b] % N
      BY <1>1, <1>2, <3>1 DEF s, SeatsInv, SeatsTypeOK
    <3>5. /\ \A k \in 0 .. N - 1 : Around(b, k)' = Around(b, k + 1)
          /\ \A k \in 1 .. N - 1 : Around(b, k) # s
      BY <3>4, AroundMoves DEF SeatsInv
    <3>6. next_seat'[b] % N = Around(b, Unserved(b))'
      <4>1. \A k : Around(b, k)' = LET first == next_serve'[b] % N
                                   IN  IF first + k < N THEN first + k ELSE first + k - N
        BY DEF Around
      <4>2. Around(b, Unserved(b))' = LET first == next_serve'[b] % N
                                      IN  IF first + Unserved(b)' < N
                                          THEN first + Unserved(b)' ELSE first + Unserved(b)' - N
        BY DEF Around
      <4>3. Around(b, Unserved(b))' = Around(b, (Unserved(b) - 1) + 1)
        <5>1. Unserved(b) - 1 \in 0 .. N - 1
          BY <1>2, <3>2
        <5> DEFINE v == Unserved(b) - 1
        <5>2. Unserved(b)' = v
          BY <3>3
        <5> HIDE DEF v
        <5> QED
          BY <3>5, <4>1, <4>2, <5>1, <5>2 DEF v
      <4>4. (Unserved(b) - 1) + 1 = Unserved(b)
        BY <3>2
      <4> QED
        BY <1>1, <3>2, <4>3, <4>4
    <3>7. ASSUME NEW k \in 0 .. Unserved(b)' - 1
          PROVE  seats'[b][Around(b, k)'] = "customer"
      <4>1. k + 1 \in 0 .. Unserved(b) - 1 /\ k + 1 \in 1 .. N - 1 /\ k \in 0 .. N - 1
        BY <1>2, <3>2, <3>3
      <4>2. seats'[b] = [seats[b] EXCEPT ![s] = "barber"] /\ DOMAIN seats[b] = Seat
        BY <1>1, <1>2, <3>1 DEF SeatsInv, SeatsTypeOK
      <4>3. Around(b, k + 1) \in Seat
        BY <1>2, <4>1, AroundIsSeat DEF SeatsInv
      <4>4. Around(b, k)' = Around(b, k + 1) /\ Around(b, k + 1) # s
            /\ seats[b][Around(b, k + 1)] = "customer"
        BY <3>2, <3>5, <4>1
      <4> QED
        BY <4>2, <4>3, <4>4
    <3> QED
      BY <2>2, <3>6, <3>7
  <2> QED
    BY <2>1, <2>2
<1> QED
  BY <1>5, <1>6, <1>7, <1>8, <1>9 DEF SeatsInv

\* signal(...Custs): the head of the queue goes on, or the unit stays.
LEMMA CallStep ==
  ASSUME SeatsInv, NEW b \in Barber, Call(b)
  PROVE  SeatsInv'
<1> DEFINE t == calling[b]
<1>1. /\ round[b] = "calling"
      /\ round' = [round EXCEPT ![b] = "asleep"]
      /\ calling' = [calling EXCEPT ![b] = b]
      /\ \/ /\ queue[t] # <<>>
            /\ stage' = [stage EXCEPT ![Head(queue[t])] = "called"]
            /\ queue' = [queue EXCEPT ![t] = Tail(@)]
            /\ UNCHANGED called
         \/ /\ queue[t] = <<>>
            /\ called' = [called EXCEPT ![t] = @ + 1]
            /\ UNCHANGED <<stage, queue>>
      /\ UNCHANGED <<counted, kind, line, awake, access, free, next_seat, next_serve, seats>>
  BY DEF Call
<1>0. UNCHANGED <<counted, kind, line, awake, access, free, next_seat, next_serve, seats>>
  BY <1>1
<1>2. t \in {b, "dc"} /\ t \in Line /\ (Undisturbed(b) => t = b)
  BY BarberTypes
<1> HIDE DEF t
<1>3. /\ round' \in [Barber -> {"asleep", "awake", "peeking", "choosing", "calling"}]
      /\ round'[b] = "asleep"
      /\ calling' \in [Barber -> Line] /\ calling'[b] = b
      /\ \A d \in Barber : d # b => round'[d] = round[d] /\ calling'[d] = calling[d]
  BY <1>1, Lines DEF SeatsInv, SeatsTypeOK
<1>4. KindInv' /\ UncountedInv'
  BY <1>1 DEF SeatsInv, KindInv, UncountedInv
<1>5. CallingInv'
  BY <1>1, <1>3, UndisturbedStays DEF SeatsInv, CallingInv
<1>6. called \in [Line -> Nat] /\ queue \in [Line -> Seq(Customer)]
      /\ stage \in [Customer -> {"outside", "arriving", "seated", "knocked", "waiting", "called", "gone"}]
  BY DEF SeatsInv, SeatsTypeOK
\* What is left: the counts move together.
<1>7. ASSUME /\ \A u \in Line :
                  /\ At(u, Sitting)' = At(u, Sitting)
                  /\ At(u, {"seated"})' = At(u, {"seated"})
                  /\ called'[u] - At(u, {"knocked", "waiting"})' =
                       called[u] - At(u, {"knocked", "waiting"}) + (IF u = t THEN 1 ELSE 0)
                  /\ At(u, {"knocked", "waiting"})' \in Nat,
             called' \in [Line -> Nat], queue' \in [Line -> Seq(Customer)],
             stage' \in [Customer -> {"outside", "arriving", "seated", "knocked", "waiting", "called", "gone"}],
             QueueInv'
      PROVE  SeatsInv'
  <2>1. SeatsTypeOK'
    <3>1. \A d \in Barber : calling'[d] \in {d, "dc"}
      BY <1>3 DEF SeatsInv, SeatsTypeOK
    <3>2. ASSUME NEW u \in Line, u # "dc" \/ counted'
          PROVE  N - free'[u] = At(u, Sitting)'
      <4>1. N - free[u] = At(u, Sitting)
        BY <1>0, <3>2 DEF SeatsInv, SeatsTypeOK, Sitting
      <4> QED
        BY <1>0, <1>7, <4>1
    <3>3. /\ called' \in [Line -> Nat] /\ queue' \in [Line -> Seq(Customer)]
          /\ stage' \in [Customer -> {"outside", "arriving", "seated", "knocked", "waiting", "called", "gone"}]
      BY <1>7
    <3> QED
      BY <1>0, <1>3, <3>1, <3>2, <3>3 DEF SeatsInv, SeatsTypeOK, Sitting
  <2>2. AwakeForEachCustomer'
    <3> SUFFICES ASSUME NEW d \in Barber, Undisturbed(d)
                 PROVE  At(d, {"knocked", "waiting"})' =
                          awake'[d] + (IF round'[d] = "asleep" THEN 0 ELSE 1) + called'[d]
      BY <1>1, UndisturbedStays DEF AwakeForEachCustomer
    <3>1. At(d, {"knocked", "waiting"}) = awake[d] + (IF round[d] = "asleep" THEN 0 ELSE 1) + called[d]
      BY DEF SeatsInv, AwakeForEachCustomer
    <3>2. /\ awake[d] \in Nat /\ called[d] \in Nat /\ At(d, {"knocked", "waiting"}) \in Nat
          /\ called'[d] \in Nat /\ At(d, {"knocked", "waiting"})' \in Nat
      BY <1>7, BarberTypes, AtType, Lines
    <3>3. called'[d] - At(d, {"knocked", "waiting"})' =
            called[d] - At(d, {"knocked", "waiting"}) + (IF d = b THEN 1 ELSE 0)
      BY <1>2, <1>7, Lines
    <3>4. awake'[d] = awake[d]
      BY <1>1
    <3>5. (IF round'[d] = "asleep" THEN 0 ELSE 1) =
            (IF round[d] = "asleep" THEN 0 ELSE 1) - (IF d = b THEN 1 ELSE 0)
      BY <1>1, <1>3
    <3> QED
      BY <3>1, <3>2, <3>3, <3>4, <3>5
  <2>3. RingInv'
    <3>1. \A d \in Barber : Unserved(d)' = Unserved(d)
      BY <1>1, <1>3, <1>7, Lines DEF Unserved
    <3> QED
      BY <1>1, <3>1, UndisturbedStays, RingStays DEF RingInv
  <2> QED
    BY <1>4, <1>5, <1>7, <2>1, <2>2, <2>3 DEF SeatsInv
<1>8. CASE queue[t] = <<>>
  <2>1. called' = [called EXCEPT ![t] = @ + 1] /\ UNCHANGED <<stage, queue>>
    BY <1>1, <1>8
  <2>2. \A u, S : At(u, S)' = At(u, S) /\ At(u, S) \in Nat
    BY <1>1, <2>1, AtStays, AtType DEF custVars
  <2>3. QueueInv'
    BY <1>1, <2>1 DEF SeatsInv, QueueInv
  <2>4. /\ called' \in [Line -> Nat]
        /\ \A u \in Line : called[u] \in Nat /\ called'[u] = called[u] + (IF u = t THEN 1 ELSE 0)
    BY <1>2, <1>6, <2>1
  <2> QED
    BY <1>6, <1>7, <2>1, <2>2, <2>3, <2>4
<1>9. CASE queue[t] # <<>>
  <2>0. Head(queue[t]) \in Customer
    BY <1>2, <1>6, <1>9, HeadAndTail
  <2> PICK c \in Customer : c = Head(queue[t])
    BY <2>0
  <2>1. /\ stage' = [stage EXCEPT ![c] = "called"]
        /\ queue' = [queue EXCEPT ![t] = Tail(@)] /\ UNCHANGED called
    BY <1>1, <1>9
  <2>2. queue[t] \in Seq(Customer) /\ Tail(queue[t]) \in Seq(Customer)
    BY <1>2, <1>6, <1>9, HeadAndTail
  <2>3. /\ Range(queue[t]) = Range(Tail(queue[t])) \cup {c}
        /\ c \notin Range(Tail(queue[t])) /\ IsInjective(Tail(queue[t]))
    BY <1>2, <1>9, <2>2, Leaves DEF SeatsInv, QueueInv
  <2>4. line[c] = t /\ stage[c] = "waiting"
    BY <1>2, <2>3 DEF SeatsInv, QueueInv
  <2>5. /\ stage' \in [Customer -> {"outside", "arriving", "seated", "knocked", "waiting", "called", "gone"}]
        /\ stage'[c] = "called" /\ \A d \in Customer : d # c => stage'[d] = stage[d]
    BY <1>6, <2>1, <2>2
  <2>6. \A u, S : /\ At(u, S)' = At(u, S) + Here(c, u, S)' - Here(c, u, S)
                  /\ At(u, S) \in Nat
    <3>1. line' = line
      BY <1>1
    <3>2. \A d \in Customer : d # c => line'[d] = line[d] /\ stage'[d] = stage[d]
      BY <2>5, <3>1
    <3> QED
      BY <2>2, <3>2, AtMove, AtType
  <2>7. \A u \in Line :
          /\ At(u, Sitting)' = At(u, Sitting)
          /\ At(u, {"seated"})' = At(u, {"seated"})
          /\ At(u, {"knocked", "waiting"})' = At(u, {"knocked", "waiting"}) - (IF u = t THEN 1 ELSE 0)
    <3>1. line' = line
      BY <1>1
    <3> QED
      BY <2>4, <2>5, <2>6, <3>1 DEF Here, Sitting
  <2>8. At(t, {"knocked", "waiting"}) >= 1
    BY <2>2, <2>4, AtType
  <2>9. queue' \in [Line -> Seq(Customer)] /\ queue'[t] = Tail(queue[t])
        /\ \A u \in Line : u # t => queue'[u] = queue[u]
    BY <1>2, <1>6, <2>1, <2>2
  <2>10. QueueInv'
    <3> SUFFICES ASSUME NEW u \in Line
                 PROVE  /\ IsInjective(queue'[u])
                        /\ Range(queue'[u]) = {d \in Customer : line'[d] = u /\ stage'[d] = "waiting"}
      BY DEF QueueInv
    <3>1. IsInjective(queue[u]) /\ Range(queue[u]) = {d \in Customer : line[d] = u /\ stage[d] = "waiting"}
      BY DEF SeatsInv, QueueInv
    <3>2. CASE u = t
      <4>1. \A d \in Customer : stage'[d] = "waiting" <=> stage[d] = "waiting" /\ d # c
        BY <2>5
      <4>2. Range(queue'[u]) = Range(queue[u]) \ {c}
        BY <2>3, <2>9, <3>2
      <4> QED
        BY <1>1, <2>3, <2>9, <3>1, <3>2, <4>1, <4>2
    <3>3. CASE u # t
      <4>1. \A d \in Customer : line[d] = u => (stage'[d] = "waiting" <=> stage[d] = "waiting")
        BY <2>4, <2>5, <3>3
      <4> QED
        BY <1>1, <2>9, <3>1, <3>3, <4>1
    <3> QED
      BY <3>2, <3>3
  <2>11. \A u \in Line : called[u] \in Nat /\ called'[u] = called[u]
    BY <1>6, <2>1
  <2>12. \A u \in Line : At(u, {"knocked", "waiting"})' \in Nat
    BY <2>6, <2>7, <2>8
  <2> QED
    BY <1>6, <1>7, <2>1, <2>5, <2>6, <2>7, <2>9, <2>10, <2>11, <2>12
<1> QED
  BY <1>8, <1>9

-----------------------------------------------------------------------------

LEMMA InitSeats == Init => SeatsInv
<1> SUFFICES ASSUME Init PROVE SeatsInv
  OBVIOUS
<1>1. \A u, S : At(u, S) \in Nat
  BY AtType
<1>2. \A u : /\ At(u, Sitting) = 0 /\ At(u, {"seated"}) = 0
             /\ At(u, {"knocked", "waiting"}) = 0
  <2> TAKE u
  <2>1. /\ {c \in Customer : line[c] = u /\ stage[c] \in Sitting} = {}
        /\ {c \in Customer : line[c] = u /\ stage[c] \in {"seated"}} = {}
        /\ {c \in Customer : line[c] = u /\ stage[c] \in {"knocked", "waiting"}} = {}
    BY DEF Init, Sitting
  <2> QED
    BY <2>1, FS_EmptySet DEF At
<1>3. N \in Nat \ {0} /\ Kinds \subseteq [Customer -> Line]
  BY SeatsAssumption, Lines
<1>4. SeatsTypeOK
  <2>1. queue \in [Line -> Seq(Customer)] /\ line \in [Customer -> Line]
    BY <1>3 DEF Init
  <2>2. \A t \in Line : free[t] = N /\ N - free[t] = 0
    BY <1>3 DEF Init
  <2>3. /\ calling \in [Barber -> Line] /\ \A b \in Barber : calling[b] \in {b, "dc"}
        /\ access \in [Line -> {0, 1}]
    BY Lines DEF Init
  <2> QED
    BY <1>2, <1>3, <2>1, <2>2, <2>3 DEF Init, SeatsTypeOK, Sitting
<1>5. KindInv /\ UncountedInv /\ CallingInv
  BY Lines DEF Init, KindInv, UncountedInv, CallingInv
<1>6. QueueInv
  <2> SUFFICES ASSUME NEW t \in Line
               PROVE  /\ IsInjective(queue[t])
                      /\ Range(queue[t]) = {c \in Customer : line[c] = t /\ stage[c] = "waiting"}
    BY DEF QueueInv
  <2>1. queue[t] = <<>> /\ <<>> \in Seq(Customer)
    BY DEF Init
  <2>2. Range(queue[t]) = {}
    BY <2>1, EmptySeq DEF Range
  <2>3. IsInjective(queue[t])
    BY <2>1 DEF IsInjective
  <2> QED
    BY <2>2, <2>3 DEF Init
<1>7. AwakeForEachCustomer
  BY <1>2, Lines DEF Init, AwakeForEachCustomer
<1>8. RingInv
  <2> SUFFICES ASSUME NEW b \in Barber
               PROVE  /\ next_seat[b] % N = Around(b, Unserved(b))
                      /\ \A k \in 0 .. Unserved(b) - 1 : seats[b][Around(b, k)] = "customer"
    BY DEF RingInv
  <2>1. Unserved(b) = 0
    BY <1>2 DEF Init, Unserved
  <2>2. next_seat[b] = 0 /\ next_serve[b] = 0
    BY Lines DEF Init
  <2>3. Around(b, 0) = next_serve[b] % N
    BY <1>3, <1>4, AroundIsSeat
  <2> QED
    BY <2>1, <2>2, <2>3
<1> QED
  BY <1>4, <1>5, <1>6, <1>7, <1>8 DEF SeatsInv

LEMMA NextSeats == SeatsInv /\ [Next]_vars => SeatsInv'
<1> SUFFICES ASSUME SeatsInv, [Next]_vars PROVE SeatsInv'
  OBVIOUS
<1>1. ASSUME NEW b \in Barber, BarberStep(b)
      PROVE  SeatsInv'
  BY <1>1, WakeUpStep, ChooseStep, ServeStep, CallStep DEF BarberStep
<1>2. ASSUME NEW c \in Customer, EnterLine(c) \/ Knock(c) \/ WaitTurn(c) \/ GetUp(c)
      PROVE  SeatsInv'
  BY <1>2, SitDownStep, LeaveStep, KnockStep, WaitTurnStep DEF EnterLine
<1>3. CASE UNCHANGED vars
  <2>1. \A u, S : At(u, S)' = At(u, S)
    BY <1>3, AtStays DEF vars
  <2>2. /\ \A b \in Barber : Unserved(b)' = Unserved(b)
        /\ UNCHANGED <<counted, kind, line, stage, round, calling, awake, access, called, queue,
                       free, next_seat, next_serve, seats>>
    BY <1>3, <2>1 DEF vars, custVars, barberVars, Unserved
  <2>3. SeatsTypeOK' /\ KindInv' /\ QueueInv' /\ UncountedInv' /\ CallingInv' /\ AwakeForEachCustomer'
    BY <2>1, <2>2, UndisturbedStays
       DEF SeatsInv, SeatsTypeOK, KindInv, QueueInv, UncountedInv, CallingInv, AwakeForEachCustomer
  <2>4. RingInv'
    BY <2>2, UndisturbedStays, RingStays DEF RingInv
  <2> QED
    BY <2>3, <2>4 DEF SeatsInv
<1> QED
  BY <1>1, <1>2, <1>3 DEF Next

\* SeatsInv is inductive.
THEOREM SeatsInvHolds == Spec => []SeatsInv
BY InitSeats, NextSeats, PTL DEF Spec

\* Every variable keeps its type; a line whose seats are counted has no more
\* customers than seats (SitDown, GetUp).
THEOREM SeatsTypeCorrect == Spec => []SeatsTypeOK
<1>1. SeatsInv => SeatsTypeOK
  BY DEF SeatsInv
<1> QED
  BY <1>1, SeatsInvHolds, PTL

\* A barber that no don't-care customer disturbs has a unit on her semaphore or is
\* in her round for every customer who woke her ("will stay awake", as3.c:21).
THEOREM StaysAwake == Spec => []AwakeForEachCustomer
<1>1. SeatsInv => AwakeForEachCustomer
  BY DEF SeatsInv
<1> QED
  BY <1>1, SeatsInvHolds, PTL

\* The seat that doTina or doJudy serves next then holds the pid of a customer she
\* has not served yet.
THEOREM SeatTaken == Spec => []ServesTakenSeat
<1>1. ASSUME SeatsInv
      PROVE  ServesTakenSeat
  <2> SUFFICES ASSUME NEW b \in Barber, Undisturbed(b), round[b] = "choosing"
               PROVE  seats[b][next_serve[b] % N] = "customer"
    BY DEF ServesTakenSeat
  <2>1. Unserved(b) \in Nat /\ Unserved(b) > 0
    BY <1>1, UnservedSit
  <2>2. seats[b][Around(b, 0)] = "customer"
    BY <1>1, <2>1 DEF SeatsInv, RingInv
  <2>3. Around(b, 0) = next_serve[b] % N
    BY <1>1, AroundIsSeat, SeatsAssumption DEF SeatsInv
  <2> QED
    BY <2>2, <2>3
<1> QED
  BY <1>1, SeatsInvHolds, PTL
-----------------------------------------------------------------------------
(* The shop at rest *)

\* A mutex that is taken is a barber's, who holds it between two steps.
Keeps(b, t) ==
  \/ round[b] = "peeking" /\ b = t
  \/ round[b] = "choosing" /\ calling[b] = t
MutexInv == \A t \in Line : access[t] = 0 => \E b \in Barber : Keeps(b, t)

\* A semaphore that has a unit left has nobody blocked on it.
CalledInv == \A t \in Line : called[t] > 0 => queue[t] = <<>>

RestInv == MutexInv /\ CalledInv

\* Nobody goes on: the barbers and the customers in the shop are all blocked.
AtRest ==
  /\ \A c \in Customer :
       \/ stage[c] \in {"outside", "waiting", "gone"}
       \/ stage[c] \in {"arriving", "called"} /\ access[line[c]] = 0
  /\ \A b \in Barber :
       \/ round[b] = "asleep" /\ awake[b] = 0
       \/ round[b] = "awake" /\ access[b] = 0
       \/ round[b] = "peeking" /\ access["dc"] = 0

\* Then both barbers sleep and no mutex is taken, and of those who wait nobody
\* came for a barber that is undisturbed.
NobodyForgotten ==
  /\ \A b \in Barber : round[b] = "asleep"
  /\ \A t \in Line : access[t] = 1
  /\ \A c \in Customer : stage[c] \in {"outside", "waiting", "gone"}
  /\ \A c \in Customer :
       kind[c] # "dc" /\ Undisturbed(kind[c]) => stage[c] \in {"outside", "gone"}

LEMMA MutexStep ==
  ASSUME SeatsTypeOK, MutexInv, [Next]_vars
  PROVE  MutexInv'
<1>1. CASE UNCHANGED vars
  BY <1>1 DEF vars, barberVars, MutexInv, Keeps
<1>2. ASSUME NEW c \in Customer, EnterLine(c) \/ Knock(c) \/ WaitTurn(c) \/ GetUp(c)
      PROVE  MutexInv'
  BY <1>2 DEF EnterLine, SitDown, TurnAway, Knock, WaitTurn, GetUp, barberVars, MutexInv, Keeps
<1>3. ASSUME NEW b \in Barber, BarberStep(b)
      PROVE  MutexInv'
  <2>1. \A a \in Barber : a # b => round'[a] = round[a] /\ calling'[a] = calling[a]
    BY <1>3 DEF BarberStep, WakeUp, LockOwn, Choose, Serve, Call, SeatsTypeOK
  <2> SUFFICES ASSUME NEW t \in Line, access'[t] = 0
               PROVE  \E a \in Barber : Keeps(a, t)'
    BY DEF MutexInv
  <2>2. ASSUME access[t] = 0, ~ Keeps(b, t)
        PROVE  \E a \in Barber : Keeps(a, t)'
    <3>1. PICK a \in Barber : Keeps(a, t)
      BY <2>2 DEF MutexInv
    <3> QED BY <2>1, <2>2, <3>1 DEF Keeps
  <2>3. CASE WakeUp(b) \/ Call(b)
    <3>1. access[t] = 0
      BY <2>3 DEF WakeUp, Call
    <3>2. ~ Keeps(b, t)
      BY <2>3 DEF WakeUp, Call, Keeps
    <3> QED BY <2>2, <3>1, <3>2
  <2>4. CASE LockOwn(b)
    <3>1. CASE t = b
      <4>1. round'[b] = "peeking"
        BY <2>4 DEF LockOwn, SeatsTypeOK
      <4> QED BY <3>1, <4>1 DEF Keeps
    <3>2. CASE t # b
      <4>1. access[t] = 0 /\ ~ Keeps(b, t)
        BY <2>4, <3>2, Lines DEF LockOwn, SeatsTypeOK, Keeps
      <4> QED BY <2>2, <4>1
    <3> QED BY <3>1, <3>2
  <2>5. CASE Choose(b)
    <3>1. round[b] = "peeking" /\ b \in Line /\ "dc" \in Line
      BY <2>5, Lines DEF Choose
    <3>2. ASSUME NEW u \in Taken(b),
                 calling' = [calling EXCEPT ![b] = u],
                 access' = [access EXCEPT ![b] = 1, !["dc"] = 1, ![u] = 0],
                 round' = [round EXCEPT ![b] = "choosing"]
          PROVE  \E a \in Barber : Keeps(a, t)'
      <4>1. CASE t = u
        BY <3>2, <4>1 DEF SeatsTypeOK, Keeps
      <4>2. CASE t # u
        <5>1. u \in Line /\ access \in [Line -> {0, 1}]
          BY <3>1 DEF SeatsTypeOK, Taken
        <5>2. access'[t] = IF t = "dc" \/ t = b THEN 1 ELSE access[t]
          BY <3>1, <3>2, <4>2, <5>1
        <5>3. t # b /\ access[t] = 0
          BY <5>2
        <5> QED BY <2>2, <3>1, <5>3 DEF Keeps
      <4> QED BY <4>1, <4>2
    <3>3. ASSUME access' = [access EXCEPT ![b] = 1]
          PROVE  \E a \in Barber : Keeps(a, t)'
      <4>1. t # b /\ access[t] = 0
        BY <3>1, <3>3 DEF SeatsTypeOK
      <4> QED BY <2>2, <3>1, <4>1 DEF Keeps
    <3> QED BY <2>5, <3>2, <3>3 DEF Choose
  <2>6. CASE Serve(b)
    <3>1. round[b] = "choosing" /\ access' = [access EXCEPT ![calling[b]] = 1]
      BY <2>6 DEF Serve
    <3>2. calling[b] \in Line
      BY DEF SeatsTypeOK
    <3>3. t # calling[b] /\ access[t] = 0
      BY <3>1, <3>2 DEF SeatsTypeOK
    <3> QED BY <2>2, <3>1, <3>3 DEF Keeps
  <2> QED BY <1>3, <2>3, <2>4, <2>5, <2>6 DEF BarberStep
<1> QED BY <1>1, <1>2, <1>3 DEF Next

LEMMA CalledStep ==
  ASSUME SeatsTypeOK, CalledInv, [Next]_vars
  PROVE  CalledInv'
<1>1. CASE UNCHANGED <<called, queue>>
  BY <1>1 DEF CalledInv
<1>2. ASSUME NEW c \in Customer, WaitTurn(c)
      PROVE  CalledInv'
  <2>1. line[c] \in Line
    BY DEF SeatsTypeOK
  <2>2. \A t \in Line : called[t] \in Nat
    BY DEF SeatsTypeOK
  <2>3. \A t \in Line : \/ queue'[t] = queue[t] /\ called'[t] \in {called[t], called[t] - 1}
                        \/ called'[t] = 0
    BY <1>2, <2>1 DEF WaitTurn, SeatsTypeOK
  <2> QED BY <2>2, <2>3 DEF CalledInv
<1>3. ASSUME NEW b \in Barber, Call(b)
      PROVE  CalledInv'
  <2>1. calling[b] \in Line
    BY DEF SeatsTypeOK
  <2>2. \A t \in Line : called[t] \in Nat
    BY DEF SeatsTypeOK
  <2>3. \A t \in Line : \/ queue'[t] = queue[t] /\ called'[t] = called[t]
                        \/ queue[t] # <<>> /\ called'[t] = called[t]
                        \/ queue'[t] = <<>>
    BY <1>3, <2>1 DEF Call, SeatsTypeOK
  <2> QED BY <2>2, <2>3 DEF CalledInv
<1>4. \/ UNCHANGED <<called, queue>>
      \/ \E c \in Customer : WaitTurn(c)
      \/ \E b \in Barber : Call(b)
  BY DEF Next, BarberStep, WakeUp, LockOwn, Choose, Serve, EnterLine, SitDown, TurnAway, Knock, GetUp,
     vars
<1> QED BY <1>1, <1>2, <1>3, <1>4

\* The mutexes of as3 cannot lock each other up, and no wake-up is lost on an
\* undisturbed barber: when nobody goes on any more, nobody is left in her line
\* (as3.c:21, 83-181, 346-381).
THEOREM NobodyLeftWaiting == Spec => [](AtRest => NobodyForgotten)
<1>1. Init => RestInv
  <2> SUFFICES ASSUME Init PROVE RestInv
    OBVIOUS
  <2>1. \A t \in Line : access[t] # 0 /\ ~ (called[t] > 0)
    BY DEF Init
  <2> QED BY <2>1 DEF RestInv, MutexInv, CalledInv
<1>2. SeatsInv /\ RestInv /\ [Next]_vars => RestInv'
  BY MutexStep, CalledStep DEF RestInv, SeatsInv
<1>3. SeatsInv /\ RestInv => (AtRest => NobodyForgotten)
  <2> SUFFICES ASSUME SeatsInv, RestInv, AtRest PROVE NobodyForgotten
    OBVIOUS
  <2>1. \A b \in Barber : round[b] \in {"asleep", "awake", "peeking"}
    BY DEF AtRest
  <2>2. \A b \in Barber : round[b] # "peeking"
    <3>1. access["dc"] = 0 => \E b \in Barber : round[b] = "choosing"
      BY Lines DEF RestInv, MutexInv, Keeps
    <3> QED BY <2>1, <3>1 DEF AtRest
  <2>3. \A t \in Line : access[t] = 1
    <3>1. \A t \in Line : access[t] # 0
      BY <2>1, <2>2 DEF RestInv, MutexInv, Keeps
    <3>2. \A t \in Line : access[t] \in {0, 1}
      BY DEF SeatsInv, SeatsTypeOK
    <3> QED BY <3>1, <3>2
  <2>4. \A b \in Barber : round[b] = "asleep" /\ awake[b] = 0
    <3>1. \A b \in Barber : access[b] = 1
      BY <2>3, Lines
    <3> QED BY <2>2, <3>1 DEF AtRest
  <2>5. \A c \in Customer : stage[c] \in {"outside", "waiting", "gone"}
    <3>1. \A c \in Customer : line[c] \in Line
      BY DEF SeatsInv, SeatsTypeOK
    <3> QED BY <2>3, <3>1 DEF AtRest
  <2>6. ASSUME NEW c \in Customer, kind[c] # "dc", Undisturbed(kind[c]), stage[c] = "waiting"
        PROVE  FALSE
    <3>1. PICK b \in Barber : b = kind[c] /\ b \in Line
      <4>1. kind[c] \in Line
        BY SeatsAssumption DEF SeatsInv, SeatsTypeOK, Line, Barber
      <4> QED BY <2>6, <4>1, Lines
    <3>2. line[c] = b
      BY <2>6, <3>1 DEF SeatsInv, KindInv
    <3>3. c \in Range(queue[b])
      BY <2>6, <3>1, <3>2 DEF SeatsInv, QueueInv
    <3>4. queue[b] # <<>>
      BY <3>3 DEF Range
    <3>5. called[b] = 0
      <4>1. called[b] \in Nat
        BY <3>1 DEF SeatsInv, SeatsTypeOK
      <4> QED BY <3>1, <3>4, <4>1 DEF RestInv, CalledInv
    <3>6. At(b, {"knocked", "waiting"}) = 0
      BY <2>4, <2>6, <3>1, <3>5 DEF SeatsInv, AwakeForEachCustomer
    <3>7. At(b, {"knocked", "waiting"}) >= 1
      BY <2>6, <3>2, AtType
    <3> QED BY <3>6, <3>7
  <2> QED BY <2>3, <2>4, <2>5, <2>6 DEF NobodyForgotten
<1> QED BY <1>1, <1>2, <1>3, SeatsInvHolds, PTL DEF Spec
=============================================================================
