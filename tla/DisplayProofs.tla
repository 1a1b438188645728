---------------------------- MODULE DisplayProofs ----------------------------
(***************************************************************************)
(* Proofs about as7.                                                       *)
(*                                                                         *)
(* The server alone, for any number of ids, of places for messages and of  *)
(* slots that hold the ids, as long as no client has the id 0 that unused  *)
(* slots hold.                                                             *)
(*                                                                         *)
(* The whole of clients, network and server, for any number of clients     *)
(* with any ids and any numbers of calls, over a network that loses,       *)
(* delays, reorders and repeats datagrams as it likes.  What a client is   *)
(* told of its puts is so, and no call is dropped except by the network;   *)
(* what it is told of its gets is so up to the gets that the server ran    *)
(* again, and a put is turned away only for a copy that took its place.    *)
(***************************************************************************)
EXTENDS Display, Sequences, FiniteSetTheorems, WellFoundedInduction, TLAPS

\* What the code takes for granted of the ids that clients draw.
NobodyIsZero == 0 \notin Id

-----------------------------------------------------------------------------
(* The inductive invariant of the server *)

\* The places of the board fill from the bottom.
PlacesInv ==
  \A k \in Index : IF k < curr_index THEN client_msg_ids[k] \in Id
                                     ELSE client_msg_ids[k] = -1

\* So do the slots; one that is not in use is as it was at the start.
SlotsInv ==
  \A s \in Slot : IF s < curr_client
                  THEN client_list[s] \in Id /\ curr_client_indices[s] < curr_index
                  ELSE client_list[s] = 0 /\ curr_client_indices[s] = -1

NoneTwice ==
  \A s, t \in Slot : s < curr_client /\ t < curr_client /\ client_list[s] = client_list[t]
                       => s = t

ReadsInv == \A id \in Id \ Listed : reads[id] = {}

ServerInv ==
  /\ ServerTypeOK /\ PlacesInv /\ SlotsInv /\ NoneTwice /\ ReadsInv
  /\ OneSlotEach /\ NothingSkipped

-----------------------------------------------------------------------------

\* Every set of natural numbers that is not empty has a least element.
LEMMA LeastOf ==
  ASSUME NEW S \in SUBSET Nat, S # {}
  PROVE  Least(S) \in S /\ \A y \in S : Least(S) <= y
<1> DEFINE R == {p \in Nat \X Nat : p[1] < p[2]}
<1>1. IsWellFoundedOn(R, Nat)
  BY NatLessThanWellFounded DEF OpToRel
<1> HIDE DEF R
<1>2. PICK x \in S : \A y \in S : ~ (<<y, x>> \in R)
  BY <1>1, WFMin
<1>3. \A y \in S : x <= y
  <2> TAKE y \in S
  <2>1. x \in Nat /\ y \in Nat /\ ~ (<<y, x>> \in R)
    BY <1>2
  <2>2. ~ (y < x)
    BY <2>1 DEF R
  <2> QED
    BY <2>1, <2>2
<1> QED
  BY <1>3 DEF Least

\* The search for an id ends at the slot of that client, if it has one.
LEMMA SlotFound ==
  ASSUME ServerInv, NobodyIsZero, NEW id \in Id
  PROVE  /\ id \in Listed <=> Slots(id) # {}
         /\ id \in Listed => /\ SlotOf(id) \in Slot /\ SlotOf(id) < curr_client
                            /\ client_list[SlotOf(id)] = id
                            /\ \A s \in Slot : client_list[s] = id => s = SlotOf(id)
<1> USE DEF Slots, Listed
<1>1. \A s \in Slot : client_list[s] = id => s < curr_client
  BY DEF ServerInv, SlotsInv, NobodyIsZero
<1>2. id \in Listed <=> Slots(id) # {}
  BY <1>1
<1>3. ASSUME id \in Listed
      PROVE  /\ SlotOf(id) \in Slot /\ SlotOf(id) < curr_client
             /\ client_list[SlotOf(id)] = id
             /\ \A s \in Slot : client_list[s] = id => s = SlotOf(id)
  <2>1. Slots(id) \in SUBSET Nat /\ Slots(id) # {}
    BY <1>2, <1>3 DEF Slot
  <2>2. SlotOf(id) \in Slots(id)
    BY <2>1, LeastOf DEF SlotOf
  <2> QED
    BY <1>1, <2>2 DEF ServerInv, NoneTwice
<1> QED
  BY <1>2, <1>3

\* There is a slot for every client, for there are no more of them than slots.
LEMMA RoomForNew ==
  ASSUME ServerInv, NEW id \in Id, id \notin Listed
  PROVE  curr_client \in Slot
<1>1. Listed \subseteq Id
  BY DEF ServerInv, SlotsInv, Listed
<1>2. /\ IsFiniteSet(Id) /\ IsFiniteSet(Listed)
      /\ Cardinality(Listed) <= Cardinality(Id)
      /\ Cardinality(Listed) # Cardinality(Id)
  BY <1>1, FS_Subset, ServerAssumption
<1>3. Cardinality(Id) \in Nat /\ Cardinality(Listed) \in Nat
  BY <1>2, FS_CardinalityType
<1>4. curr_client = Cardinality(Listed) /\ curr_client < MAX_CLIENTS
  BY <1>2, <1>3, ServerAssumption DEF ServerInv, OneSlotEach
<1> QED
  BY <1>3, <1>4, ServerAssumption DEF Slot

\* The next message for a client: there is one between its cursor and the end of
\* the board, and what lies between is its own.
LEMMA NextUnread ==
  ASSUME ServerInv, NobodyIsZero, NEW id \in Id, Unread(id) # {}
  PROVE  LET k == Least(Unread(id))
             s == SlotOf(id)
         IN  /\ id \in Listed
             /\ k \in Index /\ k < curr_index /\ k > curr_client_indices[s]
             /\ client_msg_ids[k] # id
             /\ \A j \in Index : curr_client_indices[s] < j /\ j < k => client_msg_ids[j] = id
<1> DEFINE k == Least(Unread(id))
<1>1. id \in Listed
  BY SlotFound DEF Unread
<1>2. Unread(id) \in SUBSET Nat
  BY DEF Unread, Index
<1>3. k \in Unread(id) /\ \A y \in Unread(id) : k <= y
  BY <1>2, LeastOf
<1> HIDE DEF k
<1>4. k < curr_index
  BY <1>3 DEF Unread, Index, ServerInv, PlacesInv, ServerTypeOK
<1>5. ASSUME NEW j \in Index, curr_client_indices[SlotOf(id)] < j, j < k
      PROVE  client_msg_ids[j] = id
  <2>1. j < curr_index
    BY <1>3, <1>4, <1>5 DEF Unread, Index, ServerInv, ServerTypeOK
  <2>2. client_msg_ids[j] \in Nat
    BY <2>1, ServerAssumption DEF ServerInv, PlacesInv
  <2>3. j \notin Unread(id)
    BY <1>3, <1>5 DEF Unread, Index
  <2> QED
    BY <1>1, <1>5, <2>2, <2>3, SlotFound DEF Unread
<1>6. k \in Index /\ k > curr_client_indices[SlotOf(id)] /\ client_msg_ids[k] # id
  BY <1>3 DEF Unread
<1> QED
  BY <1>1, <1>4, <1>5, <1>6 DEF k

-----------------------------------------------------------------------------
(* Every step keeps the invariant *)

LEMMA GetStep ==
  ASSUME ServerInv, NobodyIsZero, NEW id \in Id, GetFound(id)
  PROVE  ServerInv'
<1> DEFINE k == Least(Unread(id))
           s == SlotOf(id)
<1>1. /\ id \in Listed
      /\ k \in Index /\ k < curr_index /\ k > curr_client_indices[s]
      /\ client_msg_ids[k] # id
      /\ \A j \in Index : curr_client_indices[s] < j /\ j < k => client_msg_ids[j] = id
  BY NextUnread DEF GetFound
<1>2. /\ s \in Slot /\ s < curr_client /\ client_list[s] = id
      /\ \A t \in Slot : client_list[t] = id => t = s
  BY <1>1, SlotFound
<1>3. /\ curr_client_indices' = [curr_client_indices EXCEPT ![s] = k]
      /\ reads' = [reads EXCEPT ![id] = @ \cup {k}]
      /\ UNCHANGED <<client_msgs, client_msg_ids, curr_index, curr_client, client_list>>
  BY DEF GetFound
<1> HIDE DEF k, s
<1>4. ServerTypeOK'
  BY <1>1, <1>2, <1>3 DEF ServerInv, ServerTypeOK
<1>5. PlacesInv' /\ NoneTwice' /\ OneSlotEach' /\ Listed' = Listed
  BY <1>3 DEF ServerInv, PlacesInv, NoneTwice, OneSlotEach, Listed
<1>6. SlotsInv'
  BY <1>1, <1>2, <1>3 DEF ServerInv, ServerTypeOK, SlotsInv
<1>7. ReadsInv'
  BY <1>1, <1>3, <1>5 DEF ServerInv, ServerTypeOK, ReadsInv
<1>8. NothingSkipped'
  <2> SUFFICES ASSUME NEW t \in Slot, t < curr_client
               PROVE  reads'[client_list[t]] =
                        {j \in Index : /\ j <= curr_client_indices'[t]
                                       /\ client_msg_ids[j] # client_list[t]}
    BY <1>3 DEF NothingSkipped
  <2>1. client_list[t] \in Id
    BY DEF ServerInv, SlotsInv
  <2>2. reads[client_list[t]] =
          {j \in Index : /\ j <= curr_client_indices[t]
                         /\ client_msg_ids[j] # client_list[t]}
    BY DEF ServerInv, NothingSkipped
  <2>3. CASE t = s
    <3>1. reads'[id] = reads[id] \cup {k} /\ curr_client_indices'[s] = k
      BY <1>2, <1>3 DEF ServerInv, ServerTypeOK
    <3>2. \A j \in Index : j <= k /\ client_msg_ids[j] # id
                             <=> (j <= curr_client_indices[s] /\ client_msg_ids[j] # id) \/ j = k
      <4> TAKE j \in Index
      <4>1. j \in Int /\ k \in Int /\ curr_client_indices[s] \in Int
        BY <1>1, <1>2 DEF Index, ServerInv, ServerTypeOK
      <4> QED
        BY <1>1, <4>1
    <3> QED
      BY <1>1, <1>2, <2>2, <2>3, <3>1, <3>2
  <2>4. CASE t # s
    <3>1. client_list[t] # id
      BY <1>2, <2>4
    <3> QED
      BY <1>3, <2>1, <2>2, <2>4, <3>1 DEF ServerInv, ServerTypeOK
  <2> QED
    BY <2>3, <2>4
<1> QED
  BY <1>4, <1>5, <1>6, <1>7, <1>8 DEF ServerInv

\* The list grows by the id that puts, unless it has it.
LEMMA ListAfterPut ==
  ASSUME ServerInv, NobodyIsZero, NEW id \in Id, AddClient(id)
  PROVE  \/ id \in Listed /\ UNCHANGED <<curr_client, client_list, Listed>>
         \/ /\ id \notin Listed /\ curr_client \in Slot
            /\ client_list' = [client_list EXCEPT ![curr_client] = id]
            /\ curr_client' = curr_client + 1
            /\ Listed' = Listed \cup {id}
<1>1. CASE id \in Listed
  <2>1. UNCHANGED <<curr_client, client_list>>
    BY <1>1, SlotFound DEF AddClient
  <2> QED
    BY <1>1, <2>1 DEF Listed
<1>2. CASE id \notin Listed
  <2>1. /\ client_list' = [client_list EXCEPT ![curr_client] = id]
        /\ curr_client' = curr_client + 1
    BY <1>2, SlotFound DEF AddClient
  <2>2. curr_client \in Slot
    BY <1>2, RoomForNew
  <2>3. /\ client_list'[curr_client] = id
        /\ \A s \in Slot : s # curr_client => client_list'[s] = client_list[s]
    BY <2>1, <2>2 DEF ServerInv, ServerTypeOK
  <2>4. \A s \in Slot : s < curr_client' <=> s < curr_client \/ s = curr_client
    BY <2>1, <2>2 DEF Slot
  <2>5. curr_client \in Nat /\ ~ (curr_client < curr_client)
    BY <2>2 DEF Slot
  <2>6. Listed' = Listed \cup {id}
    BY <2>2, <2>3, <2>4, <2>5 DEF Listed
  <2> QED
    BY <1>2, <2>1, <2>2, <2>6
<1> QED
  BY <1>1, <1>2

LEMMA PutStep ==
  ASSUME ServerInv, NobodyIsZero, NEW id \in Id, NEW m \in Message, PutStored(id, m)
  PROVE  ServerInv'
<1>1. /\ curr_index \in Index /\ curr_index' = curr_index + 1
      /\ curr_index \in Nat /\ curr_index' \in 0 .. MSG_LIMIT
      /\ client_msgs' = [client_msgs EXCEPT ![curr_index] = m]
      /\ client_msg_ids' = [client_msg_ids EXCEPT ![curr_index] = id]
      /\ AddClient(id)
      /\ UNCHANGED <<curr_client_indices, reads>>
  BY ServerAssumption DEF PutStored, ServerInv, ServerTypeOK, Index
<1>2. /\ \A k \in Index : k \in Nat
      /\ \A k \in Index : (k < curr_index') <=> (k < curr_index \/ k = curr_index)
      /\ \A k \in Index : k # curr_index => client_msg_ids'[k] = client_msg_ids[k]
      /\ client_msg_ids'[curr_index] = id
  BY <1>1 DEF Index, ServerInv, ServerTypeOK
<1>3. \/ id \in Listed /\ UNCHANGED <<curr_client, client_list, Listed>>
      \/ /\ id \notin Listed /\ curr_client \in Slot
         /\ client_list' = [client_list EXCEPT ![curr_client] = id]
         /\ curr_client' = curr_client + 1
         /\ Listed' = Listed \cup {id}
  BY <1>1, ListAfterPut
<1>4. /\ \A s \in Slot : s < curr_client => s < curr_client' /\ client_list'[s] = client_list[s]
      /\ \A s \in Slot : ~ (s < curr_client) /\ s < curr_client' =>
           /\ id \notin Listed /\ s = curr_client /\ client_list'[s] = id
           /\ client_list' = [client_list EXCEPT ![s] = id]
      /\ \A s \in Slot : ~ (s < curr_client') => client_list'[s] = client_list[s]
      /\ Listed' = Listed \cup {id}
  <2>1. CASE id \in Listed /\ UNCHANGED <<curr_client, client_list, Listed>>
    BY <2>1
  <2>2. CASE /\ id \notin Listed /\ curr_client \in Slot
             /\ client_list' = [client_list EXCEPT ![curr_client] = id]
             /\ curr_client' = curr_client + 1
             /\ Listed' = Listed \cup {id}
    <3>1. client_list' \in [Slot -> Id \cup {0}] /\ client_list'[curr_client] = id
      BY <2>2 DEF ServerInv, ServerTypeOK
    <3>2. \A s \in Slot : s # curr_client => client_list'[s] = client_list[s]
      BY <2>2 DEF ServerInv, ServerTypeOK
    <3>3. \A s \in Slot : /\ s < curr_client => s < curr_client' /\ s # curr_client
                          /\ s < curr_client' => s < curr_client \/ s = curr_client
                          /\ s = curr_client => s < curr_client'
      BY <2>2 DEF Slot
    <3> QED
      BY <2>2, <3>1, <3>2, <3>3
  <2> QED
    BY <1>3, <2>1, <2>2
<1>5. \A s \in Slot : s < curr_client => client_list[s] \in Listed /\ client_list[s] \in Id
  BY DEF Listed, ServerInv, SlotsInv
<1>6. ServerTypeOK'
  <2>1. curr_client' \in 0 .. MAX_CLIENTS
    BY <1>3, ServerAssumption DEF ServerInv, ServerTypeOK, Slot
  <2>2. client_list' \in [Slot -> Id \cup {0}]
    BY <1>3 DEF ServerInv, ServerTypeOK
  <2> QED
    BY <1>1, <2>1, <2>2 DEF ServerInv, ServerTypeOK
<1>7. PlacesInv'
  <2> SUFFICES ASSUME NEW k \in Index
               PROVE  IF k < curr_index' THEN client_msg_ids'[k] \in Id
                                         ELSE client_msg_ids'[k] = -1
    BY DEF PlacesInv
  <2>1. CASE k = curr_index
    BY <1>2, <2>1
  <2>2. CASE k # curr_index
    BY <1>2, <2>2 DEF ServerInv, PlacesInv
  <2> QED
    BY <2>1, <2>2
<1>8. SlotsInv'
  <2> SUFFICES ASSUME NEW s \in Slot
               PROVE  IF s < curr_client'
                      THEN client_list'[s] \in Id /\ curr_client_indices[s] < curr_index'
                      ELSE client_list'[s] = 0 /\ curr_client_indices[s] = -1
    BY <1>1 DEF SlotsInv
  <2>1. curr_client_indices[s] \in Int /\ (curr_client_indices[s] < curr_index
                                            => curr_client_indices[s] < curr_index')
    BY <1>1 DEF ServerInv, ServerTypeOK, Index
  <2>2. CASE s < curr_client
    BY <1>4, <2>1, <2>2 DEF ServerInv, SlotsInv
  <2>3. CASE ~ (s < curr_client) /\ s < curr_client'
    <3>1. curr_client_indices[s] = -1
      BY <2>3 DEF ServerInv, SlotsInv
    <3> QED
      BY <1>1, <1>4, <2>3, <3>1
  <2>4. CASE ~ (s < curr_client')
    <3>1. ~ (s < curr_client)
      BY <1>4, <2>4
    <3> QED
      BY <1>4, <2>4, <3>1 DEF ServerInv, SlotsInv
  <2> QED
    BY <2>2, <2>3, <2>4
<1>9. NoneTwice'
  <2> SUFFICES ASSUME NEW s \in Slot, NEW t \in Slot, s < curr_client', t < curr_client',
                      client_list'[s] = client_list'[t]
               PROVE  s = t
    BY DEF NoneTwice
  <2>1. CASE s < curr_client /\ t < curr_client
    BY <1>4, <2>1 DEF ServerInv, NoneTwice
  <2>2. CASE ~ (s < curr_client) /\ t < curr_client
    BY <1>4, <1>5, <2>2
  <2>3. CASE s < curr_client /\ ~ (t < curr_client)
    BY <1>4, <1>5, <2>3
  <2>4. CASE ~ (s < curr_client) /\ ~ (t < curr_client)
    BY <1>4, <2>4
  <2> QED
    BY <2>1, <2>2, <2>3, <2>4
<1>10. ReadsInv'
  BY <1>1, <1>4 DEF ServerInv, ReadsInv
<1>11. OneSlotEach'
  <2>1. Listed \cup {id} = {client_msg_ids'[k] : k \in {j \in Index : j < curr_index'}}
    <3>1. Listed = {client_msg_ids[k] : k \in {j \in Index : j < curr_index}}
      BY DEF ServerInv, OneSlotEach
    <3>2. ~ (curr_index < curr_index)
      BY <1>1
    <3>3. \A k \in Index : k < curr_index => client_msg_ids'[k] = client_msg_ids[k]
      BY <1>2, <3>2
    <3>4. client_msg_ids'[curr_index] = id /\ curr_index < curr_index'
      BY <1>1, <1>2
    <3> DEFINE Before == {j \in Index : j < curr_index}
               After == {j \in Index : j < curr_index'}
    <3>5. After = Before \cup {curr_index}
      BY <1>1, <1>2
    <3>6. \A k \in Before : client_msg_ids'[k] = client_msg_ids[k]
      BY <3>3
    <3> HIDE DEF Before, After
    <3>7. Listed \cup {id} = {client_msg_ids'[k] : k \in After}
      <4>1. Listed = {client_msg_ids[k] : k \in Before}
        BY <3>1 DEF Before
      <4>2. Listed = {client_msg_ids'[k] : k \in Before}
        BY <4>1, <3>6
      <4> QED
        BY <4>2, <3>4, <3>5
    <3> QED
      BY <3>7 DEF After
  <2>2. IsFiniteSet(Listed)
    <3>1. Listed \in SUBSET Id
      BY <1>5 DEF Listed
    <3> QED
      BY <3>1, FS_Subset, ServerAssumption
  <2>3. Cardinality(Listed) = curr_client
    BY DEF ServerInv, OneSlotEach
  <2>4. Cardinality(Listed \cup {id}) = curr_client'
    <3>1. CASE id \in Listed /\ UNCHANGED <<curr_client, client_list, Listed>>
      BY <1>4, <2>3, <3>1
    <3>2. CASE /\ id \notin Listed /\ curr_client \in Slot
               /\ client_list' = [client_list EXCEPT ![curr_client] = id]
               /\ curr_client' = curr_client + 1
               /\ Listed' = Listed \cup {id}
      BY <2>2, <2>3, <3>2, FS_AddElement
    <3> QED
      BY <1>3, <3>1, <3>2
  <2> QED
    BY <1>4, <2>1, <2>4 DEF OneSlotEach
<1>12. NothingSkipped'
  <2> SUFFICES ASSUME NEW s \in Slot, s < curr_client'
               PROVE  reads[client_list'[s]] =
                        {k \in Index : /\ k <= curr_client_indices[s]
                                       /\ client_msg_ids'[k] # client_list'[s]}
    BY <1>1 DEF NothingSkipped
  <2>1. CASE s < curr_client
    <3>1. reads[client_list[s]] =
            {k \in Index : /\ k <= curr_client_indices[s]
                           /\ client_msg_ids[k] # client_list[s]}
      BY <2>1 DEF ServerInv, NothingSkipped
    <3>2. curr_client_indices[s] < curr_index /\ curr_client_indices[s] \in Int
      BY <2>1 DEF ServerInv, SlotsInv, ServerTypeOK, Index
    <3>3. \A k \in Index : k <= curr_client_indices[s] => client_msg_ids'[k] = client_msg_ids[k]
      BY <1>1, <1>2, <3>2
    <3> QED
      BY <1>4, <2>1, <3>1, <3>3
  <2>2. CASE ~ (s < curr_client)
    <3>1. id \notin Listed /\ client_list'[s] = id /\ curr_client_indices[s] = -1
      BY <1>4, <2>2 DEF ServerInv, SlotsInv
    <3>2. reads[id] = {}
      BY <3>1 DEF ServerInv, ReadsInv
    <3>3. \A k \in Index : ~ (k <= -1)
      BY DEF Index
    <3> QED
      BY <3>1, <3>2, <3>3
  <2> QED
    BY <2>1, <2>2
<1> QED
  BY <1>6, <1>7, <1>8, <1>9, <1>10, <1>11, <1>12 DEF ServerInv

LEMMA InitServer == ServerInit => ServerInv
<1> SUFFICES ASSUME ServerInit PROVE ServerInv
  OBVIOUS
<1> USE DEF ServerInit, Index, Slot
<1>1. \A s \in Slot : ~ (s < 0)
  OBVIOUS
<1>2. \A k \in Index : ~ (k < 0)
  OBVIOUS
<1>3. Listed = {}
  BY <1>1 DEF Listed
<1>4. ServerTypeOK /\ PlacesInv /\ SlotsInv /\ NoneTwice /\ ReadsInv /\ NothingSkipped
  BY <1>1, <1>2, ServerAssumption
     DEF ServerTypeOK, PlacesInv, SlotsInv, NoneTwice, ReadsInv, NothingSkipped
<1>5. OneSlotEach
  BY <1>2, <1>3, FS_EmptySet DEF OneSlotEach
<1> QED
  BY <1>4, <1>5 DEF ServerInv

LEMMA NextServer ==
  ASSUME NobodyIsZero
  PROVE  ServerInv /\ [ServerNext]_serverVars => ServerInv'
<1> SUFFICES ASSUME ServerInv, [ServerNext]_serverVars PROVE ServerInv'
  OBVIOUS
<1>1. CASE UNCHANGED serverVars
  <2>1. Listed' = Listed
    BY <1>1 DEF serverVars, Listed
  <2>2. ServerTypeOK' /\ PlacesInv' /\ SlotsInv' /\ NoneTwice'
    BY <1>1 DEF serverVars, ServerInv, ServerTypeOK, PlacesInv, SlotsInv, NoneTwice
  <2>3. ReadsInv' /\ OneSlotEach' /\ NothingSkipped'
    BY <1>1, <2>1 DEF serverVars, ServerInv, ReadsInv, OneSlotEach, NothingSkipped
  <2> QED
    BY <2>2, <2>3 DEF ServerInv
<1>2. ASSUME NEW id \in Id, GetFound(id)
      PROVE  ServerInv'
  BY <1>2, GetStep
<1>3. ASSUME NEW id \in Id, NEW m \in Message, PutStored(id, m)
      PROVE  ServerInv'
  BY <1>3, PutStep
<1> QED
  BY <1>1, <1>2, <1>3 DEF ServerNext, get_1_svc, put_1_svc, GetNothing, PutRefused

\* As long as nobody has the id 0, the arrays of the server stay in order.
THEOREM ServerInvHolds == NobodyIsZero /\ ServerSpec => []ServerInv
<1> SUFFICES ASSUME NobodyIsZero PROVE ServerSpec => []ServerInv
  OBVIOUS
<1>1. ServerInv /\ [ServerNext]_serverVars => ServerInv'
  BY NextServer
<1> QED
  BY <1>1, InitServer, PTL DEF ServerSpec

-----------------------------------------------------------------------------

\* Every variable keeps its type: curr_client stays within the list.
THEOREM ServerTypeCorrect == NobodyIsZero /\ ServerSpec => []ServerTypeOK
<1>1. ServerInv => ServerTypeOK
  BY DEF ServerInv
<1> QED
  BY <1>1, ServerInvHolds, PTL

\* A client has one slot, as soon as a message of it is stored and however often
\* it calls (put_1_svc): the list never overflows and no id is in it twice.
THEOREM OneSlotOnly == NobodyIsZero /\ ServerSpec => []OneSlotEach
<1>1. ServerInv => OneSlotEach
  BY DEF ServerInv
<1> QED
  BY <1>1, ServerInvHolds, PTL

\* get_1_svc gives a client every message of the others up to its cursor.
THEOREM NoneSkipped == NobodyIsZero /\ ServerSpec => []NothingSkipped
<1>1. ServerInv => NothingSkipped
  BY DEF ServerInv
<1> QED
  BY <1>1, ServerInvHolds, PTL

-----------------------------------------------------------------------------
(* The server implements MessageBoard *)

\* The board and the places of the refinement.
BoardNow == [k \in 1 .. curr_index |->
               [id |-> client_msg_ids[k - 1], message |-> client_msgs[k - 1]]]
PlaceNow == [id \in Id |-> IF id \in Listed THEN curr_client_indices[SlotOf(id)] + 1 ELSE 0]

\* A get moves the client's place to the next message of somebody else.
LEMMA GetRefines ==
  ASSUME ServerInv, NobodyIsZero, NEW id \in Id, GetFound(id)
  PROVE  Board!Get(id)
<1> DEFINE k == Least(Unread(id))
           s == SlotOf(id)
<1>1. /\ id \in Listed
      /\ k \in Index /\ k < curr_index /\ k > curr_client_indices[s]
      /\ client_msg_ids[k] # id
      /\ \A j \in Index : curr_client_indices[s] < j /\ j < k => client_msg_ids[j] = id
  BY NextUnread DEF GetFound
<1>2. /\ s \in Slot /\ s < curr_client /\ client_list[s] = id
      /\ \A t \in Slot : client_list[t] = id => t = s
  BY <1>1, SlotFound
<1>3. /\ curr_client_indices' = [curr_client_indices EXCEPT ![s] = k]
      /\ UNCHANGED <<client_msgs, client_msg_ids, curr_index, curr_client, client_list>>
  BY DEF GetFound
<1> HIDE DEF k
<1>4. BoardNow' = BoardNow
  BY <1>3 DEF BoardNow
<1>5. PlaceNow' = [PlaceNow EXCEPT ![id] = k + 1]
  <2>1. \A t \in Slot : curr_client_indices'[t] = IF t = s THEN k ELSE curr_client_indices[t]
    BY <1>2, <1>3 DEF ServerInv, ServerTypeOK
  <2>2. Listed' = Listed /\ \A c \in Id : SlotOf(c)' = SlotOf(c)
    BY <1>3 DEF Listed, SlotOf, Slots
  <2>3. ASSUME NEW c \in Id
        PROVE  PlaceNow'[c] = IF c = id THEN k + 1 ELSE PlaceNow[c]
    <3>1. c \in Listed => SlotOf(c) \in Slot /\ client_list[SlotOf(c)] = c
      BY SlotFound
    <3> QED
      BY <1>1, <1>2, <2>1, <2>2, <3>1 DEF PlaceNow
  <2> QED
    BY <2>3 DEF PlaceNow
<1>6. \E j \in DOMAIN BoardNow : BoardNow[j].id = id
  <2>1. PICK j \in Index : j < curr_index /\ client_msg_ids[j] = id
    BY <1>1 DEF ServerInv, OneSlotEach
  <2>2. j + 1 \in 1 .. curr_index /\ (j + 1) - 1 = j
    BY <2>1 DEF Index, ServerInv, ServerTypeOK
  <2> QED
    BY <2>1, <2>2 DEF BoardNow
<1>7. /\ k + 1 \in DOMAIN BoardNow
      /\ k + 1 > PlaceNow[id] /\ BoardNow[k + 1].id # id
      /\ \A j \in DOMAIN BoardNow : PlaceNow[id] < j /\ j < k + 1 => BoardNow[j].id = id
  <2>1. k + 1 \in 1 .. curr_index /\ (k + 1) - 1 = k /\ k \in Nat /\ curr_index \in Nat
    BY <1>1 DEF Index, ServerInv, ServerTypeOK
  <2>2. PlaceNow[id] = curr_client_indices[s] + 1 /\ curr_client_indices[s] \in Int
    BY <1>1, <1>2 DEF PlaceNow, ServerInv, ServerTypeOK, Index
  <2>3. ASSUME NEW j \in 1 .. curr_index, PlaceNow[id] < j, j < k + 1
        PROVE  BoardNow[j].id = id
    <3>1. j - 1 \in Index /\ curr_client_indices[s] < j - 1 /\ j - 1 < k
      BY <1>1, <2>1, <2>2, <2>3, ServerAssumption DEF Index
    <3> QED
      BY <1>1, <3>1 DEF BoardNow
  <2>4. k + 1 \in DOMAIN BoardNow
    BY <2>1 DEF BoardNow
  <2>5. k + 1 > PlaceNow[id]
    BY <1>1, <2>1, <2>2
  <2>6. BoardNow[k + 1].id # id
    BY <1>1, <2>1 DEF BoardNow
  <2>7. DOMAIN BoardNow = 1 .. curr_index
    BY DEF BoardNow
  <2> QED
    BY <2>3, <2>4, <2>5, <2>6, <2>7
<1> QED
  BY <1>4, <1>5, <1>6, <1>7 DEF Board!Get, BoardNow, PlaceNow

\* A put appends to the board and moves nobody.
LEMMA PutRefines ==
  ASSUME ServerInv, NobodyIsZero, NEW id \in Id, NEW m \in Message, PutStored(id, m)
  PROVE  Board!Put(id, m)
<1>1. /\ curr_index \in Index /\ curr_index' = curr_index + 1
      /\ curr_index \in Nat /\ curr_index < MSG_LIMIT
      /\ client_msgs' = [client_msgs EXCEPT ![curr_index] = m]
      /\ client_msg_ids' = [client_msg_ids EXCEPT ![curr_index] = id]
      /\ AddClient(id)
      /\ UNCHANGED curr_client_indices
  BY ServerAssumption DEF PutStored, ServerInv, ServerTypeOK, Index
<1>2. Len(BoardNow) = curr_index
  BY <1>1 DEF BoardNow
<1>3. BoardNow' = Append(BoardNow, [id |-> id, message |-> m])
  <2>1. ASSUME NEW k \in 1 .. curr_index
        PROVE  /\ client_msg_ids'[k - 1] = client_msg_ids[k - 1]
               /\ client_msgs'[k - 1] = client_msgs[k - 1]
    <3>1. k - 1 \in Index /\ k - 1 # curr_index
      BY <1>1, ServerAssumption DEF Index
    <3> QED
      BY <1>1, <3>1 DEF ServerInv, ServerTypeOK
  <2>2. client_msg_ids'[curr_index] = id /\ client_msgs'[curr_index] = m
    BY <1>1 DEF ServerInv, ServerTypeOK
  <2>3. (curr_index + 1) - 1 = curr_index
    BY <1>1
  <2> QED
    BY <1>1, <1>2, <2>1, <2>2, <2>3 DEF BoardNow
<1>4. PlaceNow' = PlaceNow
  <2> SUFFICES ASSUME NEW c \in Id
               PROVE  (IF c \in Listed' THEN curr_client_indices[SlotOf(c)'] + 1 ELSE 0)
                        = IF c \in Listed THEN curr_client_indices[SlotOf(c)] + 1 ELSE 0
    BY <1>1 DEF PlaceNow
  <2>1. \/ id \in Listed /\ UNCHANGED <<curr_client, client_list, Listed>>
        \/ /\ id \notin Listed /\ curr_client \in Slot
           /\ client_list' = [client_list EXCEPT ![curr_client] = id]
           /\ curr_client' = curr_client + 1
           /\ Listed' = Listed \cup {id}
    BY <1>1, ListAfterPut
  <2>2. CASE id \in Listed /\ UNCHANGED <<curr_client, client_list, Listed>>
    <3>1. SlotOf(c)' = SlotOf(c)
      BY <2>2 DEF SlotOf, Slots
    <3> QED
      BY <2>2, <3>1
  <2>3. CASE /\ id \notin Listed /\ curr_client \in Slot
             /\ client_list' = [client_list EXCEPT ![curr_client] = id]
             /\ curr_client' = curr_client + 1
             /\ Listed' = Listed \cup {id}
    <3>1. client_list'[curr_client] = id
          /\ \A s \in Slot : s # curr_client => client_list'[s] = client_list[s]
      BY <2>3 DEF ServerInv, ServerTypeOK
    <3>2. /\ client_list[curr_client] = 0 /\ curr_client_indices[curr_client] = -1
          /\ \A s \in Slot : client_list[s] = id => s = curr_client
      <4>1. ~ (curr_client < curr_client)
        BY <2>3 DEF Slot
      <4>2. Slots(id) = {}
        BY <2>3, SlotFound
      <4> QED
        BY <2>3, <4>1, <4>2 DEF ServerInv, SlotsInv, Slots
    <3>3. CASE c = id
      <4>1. Slots(c)' = {curr_client}
        BY <2>3, <3>1, <3>2, <3>3 DEF Slots
      <4>2. SlotOf(c)' = curr_client
        <5>1. SlotOf(c)' = Least({curr_client})
          BY <4>1 DEF SlotOf
        <5>2. {curr_client} \in SUBSET Nat
          BY <2>3 DEF Slot
        <5> QED
          BY <5>1, <5>2, LeastOf
      <4> QED
        BY <2>3, <3>2, <3>3, <4>2
    <3>4. CASE c # id
      <4>1. c # 0
        BY DEF NobodyIsZero
      <4>2. Slots(c)' = Slots(c)
        BY <2>3, <3>1, <3>2, <3>4, <4>1 DEF Slots
      <4>3. SlotOf(c)' = SlotOf(c)
        BY <4>2 DEF SlotOf
      <4> QED
        BY <2>3, <3>4, <4>3
    <3> QED
      BY <3>3, <3>4
  <2> QED
    BY <2>1, <2>2, <2>3
<1> QED
  BY <1>1, <1>2, <1>3, <1>4 DEF Board!Put, BoardNow, PlaceNow

LEMMA InitRefines == ServerInit => Board!Init
<1> SUFFICES ASSUME ServerInit PROVE Board!Init
  OBVIOUS
<1>1. Listed = {}
  BY DEF ServerInit, Listed, Slot
<1> QED
  BY <1>1 DEF ServerInit, Board!Init

LEMMA StepRefines ==
  ASSUME NobodyIsZero
  PROVE  ServerInv /\ [ServerNext]_serverVars => [Board!Next]_(Board!vars)
<1> SUFFICES ASSUME ServerInv, [ServerNext]_serverVars PROVE [Board!Next]_(Board!vars)
  OBVIOUS
<1>1. CASE UNCHANGED serverVars
  BY <1>1 DEF serverVars, Board!vars, Listed, SlotOf, Slots
<1>2. ASSUME NEW id \in Id, GetFound(id)
      PROVE  Board!Next
  BY <1>2, GetRefines DEF Board!Next
<1>3. ASSUME NEW id \in Id, NEW m \in Message, PutStored(id, m)
      PROVE  Board!Next
  BY <1>3, PutRefines DEF Board!Next
<1> QED
  BY <1>1, <1>2, <1>3 DEF ServerNext, get_1_svc, put_1_svc, GetNothing, PutRefused

\* put_1_svc and get_1_svc over the arrays behave as one board of messages on
\* which each client has its place.
THEOREM ServerImplementsBoard == NobodyIsZero /\ ServerSpec => ImplementsBoard
<1> SUFFICES ASSUME NobodyIsZero PROVE ServerSpec => ImplementsBoard
  OBVIOUS
<1>1. ServerInv /\ [ServerNext]_serverVars => [Board!Next]_(Board!vars)
  BY StepRefines
<1>2. ServerSpec => []ServerInv
  BY ServerInvHolds
<1> QED
  BY <1>1, <1>2, InitRefines, PTL DEF ServerSpec, ImplementsBoard, Board!Spec

-----------------------------------------------------------------------------
(* The inductive invariant of as7 as a whole: clients, network and server *)

ClientsInv ==
  /\ host_id \in [Client -> Id]
  /\ call \in [Client -> Nat \ {0}]
  /\ refused \in [Client -> SUBSET Nat]

PlacesInUse ==
  /\ curr_index \in 0 .. MSG_LIMIT
  /\ DOMAIN client_msgs = Index /\ DOMAIN client_msg_ids = Index

Full == curr_index = MSG_LIMIT

\* A text is under the id of its client.
AuthorInv ==
  \A c \in Client, n \in 1 .. NUM_PUTS : \A k \in Stored(c, n) : client_msg_ids[k] = host_id[c]

\* Nobody asks for a call it has not come to yet.
RequestInv ==
  \A q \in BagToSet(requests) : q.from \in Client /\ q.xid \in 1 .. call[q.from]

\* A reply to a put tells the truth, however late it comes.
ReplyInv ==
  \A r \in replies : r.xid \in 1 .. NUM_PUTS =>
    /\ r.to \in Client
    /\ r.result = 0 => Stored(r.to, r.xid) # {}
    /\ r.result # 0 => Full

\* A client that goes on to its next call has an answer.
AnsweredInv ==
  \A c \in Client, n \in 1 .. NUM_PUTS :
    /\ n < call[c] /\ n \notin refused[c] => Stored(c, n) # {}
    /\ n \in refused[c] => Full

\* A message comes after one of its predecessor.
OrderInv ==
  \A c \in Client, n \in 2 .. NUM_PUTS : Stored(c, n) # {} =>
    \E j \in Stored(c, n - 1) : \A k \in Stored(c, n) : j < k

DisplayInv ==
  /\ ClientsInv /\ PlacesInUse /\ AuthorInv /\ RequestInv /\ ReplyInv /\ AnsweredInv
  /\ OrderInv

-----------------------------------------------------------------------------

LEMMA Texts ==
  ASSUME NEW c, NEW d, NEW m, NEW n, Text(c, m) = Text(d, n)
  PROVE  c = d /\ m = n
BY DEF Text

\* A step that leaves the board alone leaves what is stored.
LEMMA BoardStays ==
  ASSUME UNCHANGED <<client_msgs, client_msg_ids, curr_index, host_id>>
  PROVE  /\ \A c, n : Stored(c, n)' = Stored(c, n)
         /\ Full' = Full
         /\ PlacesInUse => PlacesInUse'
         /\ AuthorInv => AuthorInv'
         /\ OrderInv => OrderInv'
<1>1. \A c, n : Stored(c, n)' = Stored(c, n)
  BY DEF Stored
<1>2. Full' = Full /\ (PlacesInUse => PlacesInUse')
  BY DEF Full, PlacesInUse
<1>3. AuthorInv => AuthorInv'
  BY <1>1 DEF AuthorInv
<1>4. OrderInv => OrderInv'
  BY <1>1 DEF OrderInv
<1> QED
  BY <1>1, <1>2, <1>3, <1>4

\* A message that is stored goes to the next place.
LEMMA StoredGrows ==
  ASSUME PlacesInUse, NEW c, NEW n, NEW id, PutStored(id, Text(c, n))
  PROVE  /\ curr_index \in Index /\ ~ Full
         /\ Stored(c, n)' = Stored(c, n) \cup {curr_index}
         /\ \A d, m : Text(d, m) # Text(c, n) => Stored(d, m)' = Stored(d, m)
         /\ \A d, m : \A k \in Stored(d, m) : k < curr_index
         /\ client_msg_ids'[curr_index] = id
         /\ \A k \in Index : k < curr_index => client_msg_ids'[k] = client_msg_ids[k]
         /\ PlacesInUse'
<1>1. /\ curr_index < MSG_LIMIT
      /\ client_msgs' = [client_msgs EXCEPT ![curr_index] = Text(c, n)]
      /\ client_msg_ids' = [client_msg_ids EXCEPT ![curr_index] = id]
      /\ curr_index' = curr_index + 1
  BY DEF PutStored
<1>2. curr_index \in Index /\ ~ Full /\ MSG_LIMIT \in Nat
  BY <1>1, ServerAssumption DEF PlacesInUse, Index, Full
<1>3. PlacesInUse'
  BY <1>1, <1>2 DEF PlacesInUse, Index
<1>4. /\ client_msgs'[curr_index] = Text(c, n) /\ client_msg_ids'[curr_index] = id
      /\ \A k \in Index : k < curr_index =>
           client_msgs'[k] = client_msgs[k] /\ client_msg_ids'[k] = client_msg_ids[k]
  BY <1>1, <1>2 DEF PlacesInUse, Index
<1>5. \A k \in Index : k < curr_index' <=> k < curr_index \/ k = curr_index
  BY <1>1, <1>2 DEF Index
<1>6. \A d, m, k :
        /\ k \in Stored(d, m) <=> k \in Index /\ k < curr_index /\ client_msgs[k] = Text(d, m)
        /\ k \in Stored(d, m)' <=> k \in Index /\ k < curr_index' /\ client_msgs'[k] = Text(d, m)
  BY DEF Stored, Text, Index
<1>7. ASSUME NEW d, NEW m
      PROVE  /\ \A k \in Stored(d, m) : k < curr_index
             /\ Text(d, m) # Text(c, n) => Stored(d, m)' = Stored(d, m)
             /\ Text(d, m) = Text(c, n) => Stored(d, m)' = Stored(d, m) \cup {curr_index}
  <2>1. \A k \in Stored(d, m) : k < curr_index
    BY <1>6
  <2>2. ~ (curr_index < curr_index)
    BY <1>2 DEF Index
  <2>3. ASSUME NEW k
        PROVE  k \in Stored(d, m)' <=> \/ k \in Stored(d, m)
                                       \/ k = curr_index /\ Text(d, m) = Text(c, n)
    <3>1. curr_index < curr_index' /\ (k \in Index /\ k < curr_index => k < curr_index')
      BY <1>1, <1>2, <1>5
    <3>2. CASE k \in Index /\ k < curr_index
      BY <1>4, <1>6, <2>2, <3>1, <3>2
    <3>3. CASE k = curr_index
      BY <1>2, <1>4, <1>6, <2>2, <3>1, <3>3
    <3>4. CASE ~ (k \in Index /\ k < curr_index) /\ k # curr_index
      BY <1>5, <1>6, <3>4
    <3> QED
      BY <3>2, <3>3, <3>4
  <2>4. Text(d, m) # Text(c, n) => Stored(d, m)' = Stored(d, m)
    BY <2>3
  <2>5. Text(d, m) = Text(c, n) => Stored(d, m)' = Stored(d, m) \cup {curr_index}
    BY <2>3
  <2> QED
    BY <2>1, <2>4, <2>5
<1> QED
  BY <1>2, <1>3, <1>4, <1>7

\* A bag that gains a datagram, and one that loses a copy.
LEMMA Datagrams ==
  ASSUME NEW B, NEW x
  PROVE  /\ BagToSet(B (+) SetToBag({x})) = BagToSet(B) \cup {x}
         /\ BagToSet(B (-) SetToBag({x})) \subseteq BagToSet(B)
BY DEF BagToSet, SetToBag, (+), (-)

-----------------------------------------------------------------------------
(* Clients *)

\* A request that is sent, once more perhaps, is of the current call.
LEMMA SendStep ==
  ASSUME DisplayInv, NEW c \in Client, Call(c) \/ Retransmit(c)
  PROVE  DisplayInv'
<1>1. /\ requests' = requests (+) SetToBag({[from |-> c, xid |-> call[c]]})
      /\ UNCHANGED <<serverVars, host_id, call, replies, refused>>
  BY DEF Call, Retransmit, Send
<1>2. UNCHANGED <<client_msgs, client_msg_ids, curr_index, host_id>>
  BY <1>1 DEF serverVars
<1>3. RequestInv'
  <2>1. BagToSet(requests') = BagToSet(requests) \cup {[from |-> c, xid |-> call[c]]}
    BY <1>1, Datagrams
  <2>2. call[c] \in Nat \ {0}
    BY DEF DisplayInv, ClientsInv
  <2> QED
    BY <1>1, <2>1, <2>2 DEF DisplayInv, RequestInv
<1>4. ReplyInv' /\ AnsweredInv'
  BY <1>1, <1>2, BoardStays DEF DisplayInv, ReplyInv, AnsweredInv
<1>5. ClientsInv'
  BY <1>1 DEF DisplayInv, ClientsInv
<1> QED
  BY <1>2, <1>3, <1>4, <1>5, BoardStays DEF DisplayInv

\* The reply that is taken is that of the current call.
LEMMA ReceiveStep ==
  ASSUME DisplayInv, NEW c \in Client, NEW r \in replies, Receive(c, r)
  PROVE  DisplayInv'
<1>1. /\ r.to = c /\ r.xid = call[c]
      /\ replies' = {x \in replies : x.to = c => x.xid > r.xid}
      /\ refused' = IF r.result = 0 THEN refused ELSE [refused EXCEPT ![c] = @ \cup {r.xid}]
      /\ call' = [call EXCEPT ![c] = @ + 1]
      /\ UNCHANGED <<serverVars, host_id, requests>>
  BY DEF Receive
<1>2. UNCHANGED <<client_msgs, client_msg_ids, curr_index, host_id>>
  BY <1>1 DEF serverVars
<1>3. /\ call \in [Client -> Nat \ {0}] /\ refused \in [Client -> SUBSET Nat]
      /\ host_id \in [Client -> Id]
  BY DEF DisplayInv, ClientsInv
<1>4. /\ call' \in [Client -> Nat \ {0}] /\ call'[c] = call[c] + 1
      /\ \A d \in Client : d # c => call'[d] = call[d]
  BY <1>1, <1>3
<1>5. /\ refused' \in [Client -> SUBSET Nat]
      /\ refused'[c] = refused[c] \cup (IF r.result = 0 THEN {} ELSE {call[c]})
      /\ \A d \in Client : d # c => refused'[d] = refused[d]
  BY <1>1, <1>3
<1>6. ClientsInv'
  BY <1>1, <1>3, <1>4, <1>5 DEF ClientsInv
<1>7. RequestInv'
  <2>1. \A d \in Client : call[d] \in Nat /\ call'[d] \in Nat /\ call[d] <= call'[d]
    BY <1>3, <1>4
  <2> QED
    BY <1>1, <2>1 DEF DisplayInv, RequestInv
<1>8. ReplyInv'
  BY <1>1, <1>2, BoardStays DEF DisplayInv, ReplyInv
<1>9. AnsweredInv'
  <2> SUFFICES ASSUME NEW d \in Client, NEW n \in 1 .. NUM_PUTS
               PROVE  /\ n < call'[d] /\ n \notin refused'[d] => Stored(d, n) # {}
                      /\ n \in refused'[d] => Full
    BY <1>2, BoardStays DEF AnsweredInv
  <2>1. /\ n < call[d] /\ n \notin refused[d] => Stored(d, n) # {}
        /\ n \in refused[d] => Full
    BY DEF DisplayInv, AnsweredInv
  <2>2. CASE d # c \/ n # call[c]
    <3>1. d = c => (n < call'[c] <=> n < call[c])
      BY <1>3, <1>4, <2>2, DisplayAssumption
    <3> QED
      BY <1>4, <1>5, <2>1, <2>2, <3>1
  <2>3. CASE d = c /\ n = call[c]
    <3>1. /\ r.result = 0 => Stored(c, n) # {}
          /\ r.result # 0 => Full
      BY <1>1, <2>3 DEF DisplayInv, ReplyInv
    <3> QED
      BY <1>5, <2>1, <2>3, <3>1
  <2> QED
    BY <2>2, <2>3
<1> QED
  BY <1>2, <1>6, <1>7, <1>8, <1>9, BoardStays DEF DisplayInv

\* A client that gives up does nothing more.
LEMMA GiveUpStep ==
  ASSUME DisplayInv, UNCHANGED <<serverVars, host_id, call, requests, replies, refused>>
  PROVE  DisplayInv'
<1>1. UNCHANGED <<client_msgs, client_msg_ids, curr_index, host_id>>
  BY DEF serverVars
<1>2. ClientsInv' /\ RequestInv'
  BY DEF DisplayInv, ClientsInv, RequestInv
<1>3. ReplyInv' /\ AnsweredInv'
  BY <1>1, BoardStays DEF DisplayInv, ReplyInv, AnsweredInv
<1> QED
  BY <1>1, <1>2, <1>3, BoardStays DEF DisplayInv

-----------------------------------------------------------------------------
(* The server *)

\* A get, or a put that is refused, leaves the board alone.
LEMMA ServeOtherStep ==
  ASSUME DisplayInv, NEW q \in BagToSet(requests), NEW result,
         UNCHANGED <<client_msgs, client_msg_ids, curr_index>>,
         q.xid <= NUM_PUTS => result = -1 /\ Full,
         replies' = replies \cup {[to |-> q.from, xid |-> q.xid, result |-> result]},
         requests' = requests (-) SetToBag({q}),
         UNCHANGED clientVars
  PROVE  DisplayInv'
<1>1. UNCHANGED <<client_msgs, client_msg_ids, curr_index, host_id, call, refused>>
  BY DEF clientVars
<1>2. q.from \in Client /\ q.xid \in Nat
  BY DEF DisplayInv, RequestInv
<1>3. RequestInv'
  <2>1. BagToSet(requests') \subseteq BagToSet(requests)
    BY Datagrams
  <2> QED
    BY <1>1, <2>1 DEF DisplayInv, RequestInv
<1>4. ReplyInv'
  <2> SUFFICES ASSUME NEW r \in replies', r.xid \in 1 .. NUM_PUTS
               PROVE  /\ r.to \in Client
                      /\ r.result = 0 => Stored(r.to, r.xid) # {}
                      /\ r.result # 0 => Full
    BY <1>1, BoardStays DEF ReplyInv
  <2>1. CASE r \in replies
    BY <2>1 DEF DisplayInv, ReplyInv
  <2>2. CASE r = [to |-> q.from, xid |-> q.xid, result |-> result]
    <3>1. result = -1 /\ Full
      BY <2>2, DisplayAssumption
    <3> QED
      BY <1>2, <2>2, <3>1
  <2> QED
    BY <2>1, <2>2
<1>5. AnsweredInv' /\ ClientsInv'
  BY <1>1, BoardStays DEF DisplayInv, AnsweredInv, ClientsInv
<1> QED
  BY <1>1, <1>3, <1>4, <1>5, BoardStays DEF DisplayInv

\* A put that is stored comes after one of its predecessor, for the client had
\* an answer to that, and it was not that the board is full.
LEMMA ServePutStep ==
  ASSUME DisplayInv, NEW q \in BagToSet(requests),
         q.xid <= NUM_PUTS, PutStored(host_id[q.from], Text(q.from, q.xid)),
         replies' = replies \cup {[to |-> q.from, xid |-> q.xid, result |-> 0]},
         requests' = requests (-) SetToBag({q}),
         UNCHANGED clientVars
  PROVE  DisplayInv'
<1>1. UNCHANGED <<host_id, call, refused>>
  BY DEF clientVars
<1>2. PICK c \in Client, n \in 1 .. NUM_PUTS : c = q.from /\ n = q.xid /\ n <= call[c]
  <2>1. q.from \in Client /\ q.xid \in 1 .. call[q.from]
    BY DEF DisplayInv, RequestInv
  <2>2. call[q.from] \in Nat
    BY <2>1 DEF DisplayInv, ClientsInv
  <2>3. q.xid \in 1 .. NUM_PUTS
    BY <2>1, <2>2, DisplayAssumption
  <2> QED
    BY <2>1, <2>2, <2>3
<1>3. PICK id : id = host_id[c]
  OBVIOUS
<1>4. PutStored(id, Text(c, n))
  BY <1>2, <1>3
<1>5. /\ curr_index \in Index /\ ~ Full
      /\ Stored(c, n)' = Stored(c, n) \cup {curr_index}
      /\ \A d, m : Text(d, m) # Text(c, n) => Stored(d, m)' = Stored(d, m)
      /\ \A d, m : \A k \in Stored(d, m) : k < curr_index
      /\ client_msg_ids'[curr_index] = id
      /\ \A k \in Index : k < curr_index => client_msg_ids'[k] = client_msg_ids[k]
      /\ PlacesInUse'
  BY <1>4, StoredGrows DEF DisplayInv
<1>6. \A d, m : Stored(d, m)' = Stored(d, m) \cup (IF d = c /\ m = n THEN {curr_index} ELSE {})
  <2> TAKE d, m
  <2>1. CASE d = c /\ m = n
    BY <1>5, <2>1
  <2>2. CASE ~ (d = c /\ m = n)
    BY <1>5, <2>2, Texts
  <2> QED
    BY <2>1, <2>2
<1>7. \A d, m : Stored(d, m) \subseteq Index
  BY DEF Stored
<1>8. AuthorInv'
  <2> SUFFICES ASSUME NEW d \in Client, NEW m \in 1 .. NUM_PUTS, NEW k \in Stored(d, m)'
               PROVE  client_msg_ids'[k] = host_id[d]
    BY <1>1 DEF AuthorInv
  <2>1. CASE k \in Stored(d, m)
    BY <1>5, <1>7, <2>1 DEF DisplayInv, AuthorInv
  <2>2. CASE k = curr_index /\ d = c
    BY <1>3, <1>5, <2>2
  <2> QED
    BY <1>6, <2>1, <2>2
<1>9. RequestInv'
  <2>1. BagToSet(requests') \subseteq BagToSet(requests)
    BY Datagrams
  <2> QED
    BY <1>1, <2>1 DEF DisplayInv, RequestInv
<1>10. ReplyInv'
  <2> SUFFICES ASSUME NEW r \in replies', r.xid \in 1 .. NUM_PUTS
               PROVE  /\ r.to \in Client
                      /\ r.result = 0 => Stored(r.to, r.xid)' # {}
                      /\ r.result # 0 => Full'
    BY DEF ReplyInv
  <2>1. CASE r \in replies
    <3>1. r.result = 0 /\ r.to \in Client
      BY <1>5, <2>1 DEF DisplayInv, ReplyInv
    <3>2. Stored(r.to, r.xid) # {}
      BY <2>1, <3>1 DEF DisplayInv, ReplyInv
    <3>3. PICK k : k \in Stored(r.to, r.xid)
      BY <3>2
    <3>4. PICK d, m : d = r.to /\ m = r.xid
      OBVIOUS
    <3>5. Stored(r.to, r.xid)' # {}
      BY <1>6, <3>2
    <3> QED
      BY <3>1, <3>5
  <2>2. CASE r = [to |-> q.from, xid |-> q.xid, result |-> 0]
    BY <1>2, <1>6, <2>2
  <2> QED
    BY <2>1, <2>2
<1>11. AnsweredInv'
  <2> SUFFICES ASSUME NEW d \in Client, NEW m \in 1 .. NUM_PUTS
               PROVE  /\ m < call[d] /\ m \notin refused[d] => Stored(d, m)' # {}
                      /\ m \in refused[d] => Full'
    BY <1>1 DEF AnsweredInv
  <2>1. /\ m < call[d] /\ m \notin refused[d] => Stored(d, m) # {}
        /\ m \notin refused[d]
    BY <1>5 DEF DisplayInv, AnsweredInv
  <2> QED
    BY <1>6, <2>1
<1>12. OrderInv'
  <2> SUFFICES ASSUME NEW d \in Client, NEW m \in 2 .. NUM_PUTS, Stored(d, m)' # {}
               PROVE  \E j \in Stored(d, m - 1)' : \A k \in Stored(d, m)' : j < k
    BY DEF OrderInv
  <2>1. \A j \in Stored(d, m - 1) : j < curr_index /\ j \in Stored(d, m - 1)'
    BY <1>5, <1>6
  <2>2. CASE Stored(d, m) # {}
    <3>1. PICK j \in Stored(d, m - 1) : \A k \in Stored(d, m) : j < k
      BY <2>2 DEF DisplayInv, OrderInv
    <3> QED
      BY <1>6, <2>1, <3>1
  <2>3. CASE Stored(d, m) = {}
    <3>1. d = c /\ m = n
      BY <1>6, <2>3
    <3>2. m - 1 \in 1 .. NUM_PUTS /\ m - 1 < call[d]
      <4>1. call[d] \in Nat /\ NUM_PUTS \in Nat /\ m <= call[d]
        BY <1>2, <3>1, DisplayAssumption DEF DisplayInv, ClientsInv
      <4> QED
        BY <4>1
    <3>3. Stored(d, m - 1) # {}
      BY <1>5, <3>2 DEF DisplayInv, AnsweredInv
    <3> QED
      BY <1>6, <2>1, <2>3, <3>3
  <2> QED
    BY <2>2, <2>3
<1>13. ClientsInv'
  BY <1>1 DEF DisplayInv, ClientsInv
<1> QED
  BY <1>5, <1>8, <1>9, <1>10, <1>11, <1>12, <1>13 DEF DisplayInv

LEMMA ServeStep ==
  ASSUME DisplayInv, NEW q \in BagToSet(requests), Serve(q)
  PROVE  DisplayInv'
<1>1. PICK result \in Result :
        /\ IF q.xid <= NUM_PUTS
           THEN put_1_svc(host_id[q.from], Text(q.from, q.xid), result)
           ELSE get_1_svc(host_id[q.from], result)
        /\ replies' = replies \cup {[to |-> q.from, xid |-> q.xid, result |-> result]}
  BY DEF Serve
<1>2. requests' = requests (-) SetToBag({q}) /\ UNCHANGED clientVars
  BY DEF Serve
<1>3. CASE /\ q.xid <= NUM_PUTS /\ result = 0
           /\ PutStored(host_id[q.from], Text(q.from, q.xid))
  BY <1>1, <1>2, <1>3, ServePutStep
<1>4. CASE q.xid <= NUM_PUTS /\ result = -1 /\ PutRefused
  <2>1. Full /\ UNCHANGED <<client_msgs, client_msg_ids, curr_index>>
    BY <1>4, ServerAssumption DEF PutRefused, Full, DisplayInv, PlacesInUse, serverVars
  <2> QED
    BY <1>1, <1>2, <1>4, <2>1, ServeOtherStep
<1>5. CASE ~ (q.xid <= NUM_PUTS)
  <2>1. UNCHANGED <<client_msgs, client_msg_ids, curr_index>>
    BY <1>1, <1>5 DEF get_1_svc, GetFound, GetNothing, serverVars
  <2> QED
    BY <1>1, <1>2, <1>5, <2>1, ServeOtherStep
<1> QED
  BY <1>1, <1>3, <1>4, <1>5 DEF put_1_svc

-----------------------------------------------------------------------------

LEMMA InitDisplay == DisplayInit => DisplayInv
<1> SUFFICES ASSUME DisplayInit PROVE DisplayInv
  OBVIOUS
<1>1. curr_index = 0 /\ MSG_LIMIT \in Nat
  BY ServerAssumption DEF DisplayInit, ServerInit
<1>2. \A c, n : Stored(c, n) = {}
  BY <1>1 DEF Stored, Index
<1>3. PlacesInUse
  BY <1>1 DEF DisplayInit, ServerInit, PlacesInUse
<1>4. BagToSet(requests) = {}
  BY DEF DisplayInit, EmptyBag, BagToSet, SetToBag
<1>5. ClientsInv
  BY DisplayAssumption DEF DisplayInit, ClientsInv
<1>6. AnsweredInv
  BY DisplayAssumption DEF DisplayInit, AnsweredInv
<1> QED
  BY <1>2, <1>3, <1>4, <1>5, <1>6
     DEF DisplayInit, DisplayInv, AuthorInv, RequestInv, ReplyInv, OrderInv

LEMMA NextDisplay == DisplayInv /\ [DisplayNext]_vars => DisplayInv'
<1> SUFFICES ASSUME DisplayInv, [DisplayNext]_vars PROVE DisplayInv'
  OBVIOUS
<1>1. ASSUME NEW c \in Client, ClientStep(c) \/ Retransmit(c) \/ GenerateFails(c)
      PROVE  DisplayInv'
  <2>1. CASE Timeout(c) \/ GenerateFails(c)
    <3>1. UNCHANGED <<serverVars, host_id, call, requests, replies, refused>>
      BY <2>1 DEF Timeout, GenerateFails
    <3> QED
      BY <3>1, GiveUpStep
  <2> QED
    BY <1>1, <2>1, SendStep, ReceiveStep DEF ClientStep
<1>2. CASE UNCHANGED vars
  <2>1. UNCHANGED <<serverVars, host_id, call, requests, replies, refused>>
    BY <1>2 DEF vars, clientVars
  <2> QED
    BY <2>1, GiveUpStep
<1> QED
  BY <1>1, <1>2, ServeStep DEF DisplayNext

\* DisplayInv is inductive.
THEOREM DisplayInvHolds == DisplaySpec => []DisplayInv
BY InitDisplay, NextDisplay, PTL DEF DisplaySpec

\* A put whose reply said success is on the server under the id of its client,
\* whatever the network does to requests and replies (put_1, clnt_call).
THEOREM AcknowledgedStored == DisplaySpec => []AcknowledgedAreStored
<1>1. DisplayInv => AcknowledgedAreStored
  <2> SUFFICES ASSUME DisplayInv, NEW c \in Client, NEW n \in Acknowledged(c)
               PROVE  \E k \in Stored(c, n) : client_msg_ids[k] = host_id[c]
    BY DEF AcknowledgedAreStored
  <2>1. n \in 1 .. NUM_PUTS /\ n < call[c] /\ n \notin refused[c]
    BY DEF Acknowledged
  <2> QED
    BY <2>1 DEF DisplayInv, AnsweredInv, AuthorInv
<1> QED
  BY <1>1, DisplayInvHolds, PTL

\* The first copy of a message is stored after one of the message before it, and
\* copies that come late do not change that.
THEOREM StoredInOrder == DisplaySpec => []FirstCopiesInOrder
<1>1. DisplayInv => FirstCopiesInOrder
  <2> SUFFICES ASSUME DisplayInv, NEW c \in Client, NEW n \in 2 .. NUM_PUTS, NEW k \in Stored(c, n)
               PROVE  \E j \in Stored(c, n - 1) : j < Least(Stored(c, n)) /\ j < k
    BY DEF FirstCopiesInOrder
  <2>1. PICK j \in Stored(c, n - 1) : \A i \in Stored(c, n) : j < i
    BY DEF DisplayInv, OrderInv
  <2>2. Stored(c, n) \in SUBSET Nat /\ Stored(c, n) # {}
    BY ServerAssumption DEF Stored, Index
  <2>3. Least(Stored(c, n)) \in Stored(c, n)
    BY <2>2, LeastOf
  <2> QED
    BY <2>1, <2>3
<1> QED
  BY <1>1, DisplayInvHolds, PTL

-----------------------------------------------------------------------------
(* No call is lost: what EverybodyStops needs of every state *)

RequestOf(c) == [from |-> c, xid |-> call[c]]

\* The request of the current call is on its way to the server, or an answer to it
\* on its way back.
OnItsWay(c) ==
  RequestOf(c) \in BagToSet(requests) \/ \E r \in replies : r.to = c /\ r.xid = call[c]

CopiesCounted == \A q \in BagToSet(requests) : requests[q] \in Nat \ {0}

NoCallLost == \A c \in Client : status[c] = "calling" => OnItsWay(c)

StatusTyped == status \in [Client -> {"ready", "calling", "done", "crashed"}]

WaitInv == StatusTyped /\ CopiesCounted /\ NoCallLost

\* Datagrams, when there may be several copies of each.
LEMMA CountedDatagrams ==
  ASSUME NEW B, NEW x, \A e \in BagToSet(B) : B[e] \in Nat \ {0}
  PROVE  /\ \A e \in BagToSet(B (+) SetToBag({x})) : (B (+) SetToBag({x}))[e] \in Nat \ {0}
         /\ \A e \in BagToSet(B (-) SetToBag({x})) : (B (-) SetToBag({x}))[e] \in Nat \ {0}
         /\ BagToSet(B) \ {x} \subseteq BagToSet(B (-) SetToBag({x}))
<1>1. DOMAIN SetToBag({x}) = {x} /\ SetToBag({x})[x] = 1
  BY DEF SetToBag
<1>2. \A e \in DOMAIN B : B[e] \in Nat \ {0}
  BY DEF BagToSet
<1>3. \A e \in BagToSet(B (+) SetToBag({x})) : (B (+) SetToBag({x}))[e] \in Nat \ {0}
  BY <1>1, <1>2 DEF BagToSet, (+)
<1>4. \A e \in BagToSet(B (-) SetToBag({x})) : (B (-) SetToBag({x}))[e] \in Nat \ {0}
  BY <1>1, <1>2 DEF BagToSet, (-)
<1>5. BagToSet(B) \ {x} \subseteq BagToSet(B (-) SetToBag({x}))
  BY <1>1, <1>2 DEF BagToSet, (-)
<1> QED
  BY <1>3, <1>4, <1>5

\* A client that calls has its request on its way.
LEMMA WaitOnSend ==
  ASSUME WaitInv, NEW c \in Client, Call(c) \/ Retransmit(c)
  PROVE  WaitInv'
<1>1. /\ requests' = requests (+) SetToBag({RequestOf(c)})
      /\ UNCHANGED <<call, replies>>
      /\ status' = [status EXCEPT ![c] = "calling"] \/ status' = status
      /\ status[c] \in {"ready", "calling"}
  BY DEF Call, Retransmit, Send, RequestOf
<1>2. BagToSet(requests') = BagToSet(requests) \cup {RequestOf(c)}
  BY <1>1, Datagrams
<1>3. CopiesCounted'
  BY <1>1, CountedDatagrams DEF WaitInv, CopiesCounted
<1>4. StatusTyped'
  BY <1>1 DEF WaitInv, StatusTyped
<1>5. ASSUME NEW d \in Client, status'[d] = "calling" PROVE OnItsWay(d)'
  <2>1. CASE d = c
    BY <1>1, <1>2, <2>1 DEF OnItsWay, RequestOf
  <2>2. CASE d # c
    <3>1. status[d] = "calling"
      BY <1>1, <1>5, <2>2 DEF WaitInv, StatusTyped
    <3> QED
      BY <1>1, <1>2, <3>1 DEF WaitInv, NoCallLost, OnItsWay, RequestOf
  <2> QED
    BY <2>1, <2>2
<1> QED
  BY <1>3, <1>4, <1>5 DEF WaitInv, NoCallLost

\* A client that takes its reply, and throws older ones away, leaves the others theirs.
LEMMA WaitOnReceive ==
  ASSUME DisplayInv, WaitInv, NEW c \in Client, NEW r \in replies, Receive(c, r)
  PROVE  WaitInv'
<1>1. /\ r.to = c
      /\ replies' = {x \in replies : x.to = c => x.xid > r.xid}
      /\ call' = [call EXCEPT ![c] = @ + 1]
      /\ status' = [status EXCEPT ![c] = IF call[c] = NUM_PUTS + NUM_GETS THEN "done" ELSE "ready"]
      /\ requests' = requests
  BY DEF Receive
<1>2. StatusTyped' /\ CopiesCounted'
  BY <1>1 DEF WaitInv, StatusTyped, CopiesCounted
<1>3. ASSUME NEW d \in Client, status'[d] = "calling" PROVE OnItsWay(d)'
  <2>1. d # c /\ status[d] = "calling"
    BY <1>1, <1>3 DEF WaitInv, StatusTyped
  <2>2. call'[d] = call[d] /\ OnItsWay(d)
    BY <1>1, <2>1 DEF WaitInv, NoCallLost, DisplayInv, ClientsInv
  <2> QED
    BY <1>1, <2>1, <2>2 DEF OnItsWay, RequestOf
<1> QED
  BY <1>2, <1>3 DEF WaitInv, NoCallLost

\* The server answers each request that it takes.
LEMMA WaitOnServe ==
  ASSUME DisplayInv, WaitInv, NEW q \in BagToSet(requests), Serve(q)
  PROVE  WaitInv'
<1>1. /\ requests' = requests (-) SetToBag({q})
      /\ UNCHANGED <<call, status>>
      /\ \E result : replies' = replies \cup {[to |-> q.from, xid |-> q.xid, result |-> result]}
  BY DEF Serve, clientVars
<1>2. PICK a : replies' = replies \cup {a} /\ a.to = q.from /\ a.xid = q.xid
  <2>1. PICK result : replies' = replies \cup {[to |-> q.from, xid |-> q.xid, result |-> result]}
    BY <1>1
  <2> DEFINE b == [to |-> q.from, xid |-> q.xid, result |-> result]
  <2>2. b.to = q.from /\ b.xid = q.xid
    OBVIOUS
  <2>3. replies' = replies \cup {b}
    BY <2>1
  <2> HIDE DEF b
  <2> QED
    BY <2>2, <2>3
<1>3. StatusTyped' /\ CopiesCounted'
  BY <1>1, CountedDatagrams DEF WaitInv, StatusTyped, CopiesCounted
<1>4. BagToSet(requests) \ {q} \subseteq BagToSet(requests')
  BY <1>1, CountedDatagrams DEF WaitInv, CopiesCounted
<1>5. ASSUME NEW d \in Client, status'[d] = "calling" PROVE OnItsWay(d)'
  <2>1. OnItsWay(d)
    BY <1>1, <1>5 DEF WaitInv, NoCallLost
  <2>2. CASE RequestOf(d) = q
    <3>1. q.from = d /\ q.xid = call[d]
      BY <2>2 DEF RequestOf
    <3> QED
      BY <1>1, <1>2, <3>1 DEF OnItsWay
  <2>3. CASE RequestOf(d) # q
    BY <1>1, <1>2, <1>4, <2>1, <2>3 DEF OnItsWay, RequestOf
  <2> QED
    BY <2>2, <2>3
<1> QED
  BY <1>3, <1>5 DEF WaitInv, NoCallLost

LEMMA WaitOnCrash ==
  ASSUME WaitInv, NEW c \in Client, Timeout(c) \/ GenerateFails(c)
  PROVE  WaitInv'
<1>1. /\ status' = [status EXCEPT ![c] = "crashed"]
      /\ UNCHANGED <<call, requests, replies>>
  BY DEF Timeout, GenerateFails
<1> QED
  BY <1>1 DEF WaitInv, StatusTyped, CopiesCounted, NoCallLost, OnItsWay, RequestOf

\* While a client waits in clnt_call, its request is on its way to the server or an
\* answer to it on its way back, however often requests are repeated: only a
\* datagram that nobody takes can make it wait for ever.
THEOREM NoneLost == DisplaySpec => []NoCallLost
<1>1. DisplayInit => WaitInv
  <2> SUFFICES ASSUME DisplayInit PROVE WaitInv
    OBVIOUS
  <2>1. BagToSet(requests) = {}
    BY DEF DisplayInit, EmptyBag, BagToSet, SetToBag
  <2> QED
    BY <2>1 DEF DisplayInit, WaitInv, StatusTyped, CopiesCounted, NoCallLost
<1>2. DisplayInv /\ WaitInv /\ [DisplayNext]_vars => WaitInv'
  <2> SUFFICES ASSUME DisplayInv, WaitInv, [DisplayNext]_vars PROVE WaitInv'
    OBVIOUS
  <2>1. CASE UNCHANGED vars
    BY <2>1 DEF vars, clientVars, WaitInv, StatusTyped, CopiesCounted, NoCallLost, OnItsWay,
                RequestOf
  <2> QED
    BY <2>1, WaitOnSend, WaitOnReceive, WaitOnServe, WaitOnCrash DEF DisplayNext, ClientStep
<1>3. WaitInv => NoCallLost
  BY DEF WaitInv
<1> QED
  BY <1>1, <1>2, <1>3, DisplayInvHolds, PTL DEF DisplaySpec

-----------------------------------------------------------------------------

\* Whatever clients and network do, the server only runs put and get: what is
\* proved of it alone holds in the whole system.
THEOREM ServerInSystem == DisplaySpec => ServerSpec
<1>1. DisplayInit => ServerInit
  BY DEF DisplayInit
<1>2. ASSUME DisplayInv, [DisplayNext]_vars
      PROVE  [ServerNext]_serverVars
  <2>1. ASSUME NEW q \in BagToSet(requests), Serve(q)
        PROVE  ServerNext
    <3>1. q.from \in Client /\ q.xid \in 1 .. call[q.from] /\ host_id[q.from] \in Id
      BY <1>2 DEF DisplayInv, RequestInv, ClientsInv
    <3>2. PICK result \in Result :
            IF q.xid <= NUM_PUTS
            THEN put_1_svc(host_id[q.from], Text(q.from, q.xid), result)
            ELSE get_1_svc(host_id[q.from], result)
      BY <2>1 DEF Serve
    <3>3. q.xid <= NUM_PUTS => Text(q.from, q.xid) \in Message
      <4>1. q.xid <= NUM_PUTS => q.xid \in 1 .. NUM_PUTS
        BY <1>2, <3>1, DisplayAssumption DEF DisplayInv, ClientsInv
      <4> QED
        BY <3>1, <4>1, DisplayAssumption
    <3> QED
      BY <3>1, <3>2, <3>3 DEF ServerNext
  <2>2. ASSUME NEW c \in Client, ClientStep(c) \/ Retransmit(c) \/ GenerateFails(c)
        PROVE  UNCHANGED serverVars
    BY <2>2 DEF ClientStep, Call, Receive, Timeout, Retransmit, GenerateFails
  <2>3. CASE UNCHANGED vars
    BY <2>3 DEF vars
  <2> QED
    BY <1>2, <2>1, <2>2, <2>3 DEF DisplayNext
<1> QED
  BY <1>1, <1>2, DisplayInvHolds, PTL DEF DisplaySpec, ServerSpec

\* In the whole system, too, no client with an id other than 0 misses a message
\* before its cursor (get_1_svc), however requests are repeated or lost.
THEOREM NoneSkippedInSystem == NobodyIsZero /\ DisplaySpec => []NothingSkipped
BY ServerInSystem, NoneSkipped

-----------------------------------------------------------------------------
(* No room: a message is turned away only for copies *)

\* The board holds messages of clients.
MessagesInv == \A k \in Index : k < curr_index => client_msgs[k] \in Message

LEMMA FinitelyMany ==
  /\ IsFiniteSet(Message) /\ Message = Client \X (1 .. NUM_PUTS)
  /\ IsFiniteSet(Client) /\ IsFiniteSet(Index)
<1>1. Message = Client \X (1 .. NUM_PUTS)
  BY DisplayAssumption DEF Text
<1>2. IsFiniteSet(1 .. NUM_PUTS) /\ IsFiniteSet(Index)
  <2>1. NUM_PUTS \in Int /\ MSG_LIMIT - 1 \in Int
    BY DisplayAssumption, ServerAssumption
  <2> QED
    BY <2>1, FS_Interval DEF Index
<1> QED
  BY <1>1, <1>2, DisplayAssumption, FS_Product

\* The server's part of a step: a get, a put that is stored, one that is refused.
LEMMA ServeCases ==
  ASSUME NEW q \in BagToSet(requests), Serve(q)
  PROVE  /\ requests' = requests (-) SetToBag({q}) /\ UNCHANGED clientVars
         /\ CountAgain(q)
         /\ \E result \in Result :
              /\ replies' = replies \cup {[to |-> q.from, xid |-> q.xid, result |-> result]}
              /\ \/ /\ q.xid <= NUM_PUTS /\ result = 0
                    /\ PutStored(host_id[q.from], Text(q.from, q.xid))
                 \/ q.xid <= NUM_PUTS /\ result = -1 /\ PutRefused
                 \/ ~ (q.xid <= NUM_PUTS) /\ result = 0 /\ GetFound(host_id[q.from])
                 \/ ~ (q.xid <= NUM_PUTS) /\ result = -1 /\ GetNothing(host_id[q.from])
<1>1. requests' = requests (-) SetToBag({q}) /\ UNCHANGED clientVars /\ CountAgain(q)
  BY DEF Serve
<1>2. PICK result \in Result :
        /\ IF q.xid <= NUM_PUTS
           THEN put_1_svc(host_id[q.from], Text(q.from, q.xid), result)
           ELSE get_1_svc(host_id[q.from], result)
        /\ replies' = replies \cup {[to |-> q.from, xid |-> q.xid, result |-> result]}
  BY DEF Serve
<1>3. CASE q.xid <= NUM_PUTS
  BY <1>1, <1>2, <1>3 DEF put_1_svc
<1>4. CASE ~ (q.xid <= NUM_PUTS)
  BY <1>1, <1>2, <1>4 DEF get_1_svc
<1> QED
  BY <1>3, <1>4

LEMMA MessagesStep == DisplayInv /\ MessagesInv /\ [DisplayNext]_vars => MessagesInv'
<1> SUFFICES ASSUME DisplayInv, MessagesInv, [DisplayNext]_vars PROVE MessagesInv'
  OBVIOUS
<1>1. ASSUME NEW c \in Client, ClientStep(c) \/ Retransmit(c) \/ GenerateFails(c)
      PROVE  UNCHANGED serverVars
  BY <1>1 DEF ClientStep, Call, Receive, Timeout, Retransmit, GenerateFails
<1>2. CASE UNCHANGED serverVars
  BY <1>2 DEF serverVars, MessagesInv, Index
<1>3. ASSUME NEW q \in BagToSet(requests), Serve(q) PROVE MessagesInv'
  <2>1. \/ q.xid <= NUM_PUTS /\ PutStored(host_id[q.from], Text(q.from, q.xid))
        \/ PutRefused \/ GetFound(host_id[q.from]) \/ GetNothing(host_id[q.from])
    BY <1>3, ServeCases
  <2>2. CASE PutRefused \/ GetFound(host_id[q.from]) \/ GetNothing(host_id[q.from])
    BY <2>2 DEF PutRefused, GetFound, GetNothing, serverVars, MessagesInv, Index
  <2>3. CASE q.xid <= NUM_PUTS /\ PutStored(host_id[q.from], Text(q.from, q.xid))
    <3>1. q.from \in Client /\ q.xid \in 1 .. NUM_PUTS
      BY <2>3, DisplayAssumption DEF DisplayInv, RequestInv, ClientsInv
    <3>2. PICK m \in Message : m = Text(q.from, q.xid)
      BY <3>1, DisplayAssumption
    <3>3. /\ client_msgs' = [client_msgs EXCEPT ![curr_index] = m]
          /\ curr_index' = curr_index + 1
      BY <2>3, <3>2 DEF PutStored
    <3>4. \A k \in Index : k < curr_index' => k < curr_index \/ k = curr_index
      BY <3>3, ServerAssumption DEF DisplayInv, PlacesInUse, Index
    <3>5. \A k \in Index : client_msgs'[k] = IF k = curr_index THEN m ELSE client_msgs[k]
      BY <3>3 DEF DisplayInv, PlacesInUse
    <3> QED
      BY <3>4, <3>5 DEF MessagesInv, Index
  <2> QED
    BY <2>1, <2>2, <2>3
<1>4. CASE UNCHANGED vars
  BY <1>2, <1>4 DEF vars
<1> QED
  BY <1>1, <1>2, <1>3, <1>4 DEF DisplayNext

\* On a full board, the positions that are not copies hold messages that differ,
\* and none of those that were turned away.
LEMMA PlacesTaken ==
  ASSUME DisplayInv, MessagesInv, Full, Cardinality(Message) <= MSG_LIMIT
  PROVE  Cardinality(TurnedAway) <= Cardinality(Copies)
<1> DEFINE Firsts == Index \ Copies
           Kept == Message \ TurnedAway
           f == [k \in Firsts |-> client_msgs[k]]
<1>1. MSG_LIMIT \in Nat /\ curr_index = MSG_LIMIT /\ \A k \in Index : k \in Nat /\ k < curr_index
  BY ServerAssumption DEF Full, Index
<1>2. TurnedAway \subseteq Message /\ Copies \subseteq Index
  BY FinitelyMany DEF TurnedAway, Copies
<1>3. \A k \in Firsts : client_msgs[k] \in Kept
  <2> TAKE k \in Firsts
  <2>1. client_msgs[k] \in Message
    BY <1>1 DEF MessagesInv
  <2>2. ASSUME client_msgs[k] \in TurnedAway PROVE FALSE
    <3>1. PICK x \in Client \X (1 .. NUM_PUTS) : x = client_msgs[k] /\ Stored(x[1], x[2]) = {}
      BY <2>2 DEF TurnedAway
    <3>2. client_msgs[k] = Text(x[1], x[2])
      BY <3>1 DEF Text
    <3> QED
      BY <1>1, <3>1, <3>2 DEF Stored
  <2> QED
    BY <2>1, <2>2
<1>4. f \in Injection(Firsts, Kept)
  <2>1. f \in [Firsts -> Kept]
    BY <1>3
  <2>2. ASSUME NEW j \in Firsts, NEW k \in Firsts, f[j] = f[k] PROVE j = k
    <3>1. client_msgs[j] = client_msgs[k] /\ j \in Nat /\ k \in Nat
      BY <1>1, <2>2
    <3>2. ~ (j < k) /\ ~ (k < j)
      BY <1>1, <3>1 DEF Copies
    <3> QED
      BY <3>1, <3>2
  <2> HIDE DEF f
  <2> QED
    BY <2>1, <2>2 DEF Injection, IsInjective
<1>5. /\ IsFiniteSet(Kept) /\ IsFiniteSet(TurnedAway) /\ IsFiniteSet(Copies)
      /\ Cardinality(Kept) = Cardinality(Message) - Cardinality(TurnedAway)
      /\ Cardinality(Firsts) = Cardinality(Index) - Cardinality(Copies)
  <2>1. IsFiniteSet(Message) /\ IsFiniteSet(Index) /\ IsFiniteSet(TurnedAway) /\ IsFiniteSet(Copies)
    BY <1>2, FinitelyMany, FS_Subset
  <2>2. Message \cap TurnedAway = TurnedAway /\ Index \cap Copies = Copies
    BY <1>2
  <2>3. /\ IsFiniteSet(Kept)
        /\ Cardinality(Kept) = Cardinality(Message) - Cardinality(Message \cap TurnedAway)
    BY <2>1, FS_Difference
  <2>4. Cardinality(Firsts) = Cardinality(Index) - Cardinality(Index \cap Copies)
    BY <2>1, FS_Difference
  <2> HIDE DEF Firsts, Kept
  <2> QED
    BY <2>1, <2>2, <2>3, <2>4
<1> HIDE DEF f, Firsts, Kept
<1>6. Cardinality(Firsts) <= Cardinality(Kept)
  BY <1>4, <1>5, FS_Injection
<1>7. Cardinality(Index) = MSG_LIMIT
  <2>1. Cardinality(0 .. MSG_LIMIT - 1) = IF 0 > MSG_LIMIT - 1 THEN 0 ELSE (MSG_LIMIT - 1) - 0 + 1
    BY <1>1, FS_Interval
  <2> QED
    BY <1>1, <2>1 DEF Index
<1>8. /\ Cardinality(Message) \in Nat /\ Cardinality(TurnedAway) \in Nat
      /\ Cardinality(Copies) \in Nat
  BY <1>5, FinitelyMany, FS_CardinalityType
<1> QED
  BY <1>1, <1>5, <1>6, <1>7, <1>8

\* Where there is a place for every message (MSG_LIMIT against three times
\* NUM_PUTS), put_1_svc turns away no more of them than it has stored copies of
\* others, whatever is sent again and however late it comes.
THEOREM RoomUnlessCopies == DisplaySpec => []RoomTakenByCopies
<1>1. DisplayInit => MessagesInv
  BY ServerAssumption DEF DisplayInit, ServerInit, MessagesInv, Index
<1>2. DisplayInv /\ MessagesInv => RoomTakenByCopies
  <2> SUFFICES ASSUME DisplayInv, MessagesInv, Cardinality(Message) <= MSG_LIMIT
               PROVE  Cardinality(TurnedAway) <= Cardinality(Copies)
    BY DEF RoomTakenByCopies
  <2>1. CASE TurnedAway = {}
    <3>1. IsFiniteSet(Copies)
      BY FinitelyMany, FS_Subset DEF Copies
    <3>2. Cardinality(TurnedAway) = 0 /\ Cardinality(Copies) \in Nat
      BY <2>1, <3>1, FS_EmptySet, FS_CardinalityType
    <3> QED
      BY <3>2
  <2>2. CASE TurnedAway # {}
    <3>1. PICK c \in Client, n \in 1 .. NUM_PUTS : n \in refused[c]
      BY <2>2 DEF TurnedAway
    <3> QED
      BY <3>1, PlacesTaken DEF DisplayInv, AnsweredInv
  <2> QED
    BY <2>1, <2>2
<1> QED
  BY <1>1, <1>2, MessagesStep, DisplayInvHolds, PTL DEF DisplaySpec

-----------------------------------------------------------------------------
(* The gets *)

\* Nobody calls past its last get, is answered a call it has not come to, or
\* counts as refused one that is not over.
CallsInv ==
  /\ StatusTyped
  /\ early \in [Client -> SUBSET Nat] /\ again \in [Client -> Nat]
  /\ \A c \in Client :
       /\ call[c] <= NUM_PUTS + NUM_GETS + 1
       /\ status[c] \in {"ready", "calling"} => call[c] <= NUM_PUTS + NUM_GETS
       /\ refused[c] \subseteq 1 .. call[c] - 1
  /\ \A q \in BagToSet(requests) : q.xid <= NUM_PUTS + NUM_GETS
  /\ \A r \in replies :
       /\ r = [to |-> r.to, xid |-> r.xid, result |-> r.result]
       /\ r.to \in Client /\ r.xid \in 1 .. call[r.to] /\ r.xid <= NUM_PUTS + NUM_GETS

NobodyPuts == \A d \in Client : ~ Putting(d)

\* A get that is not early is called, and its request sent, when all puts are done.
PutsDoneInv ==
  /\ \A c \in Client :
       status[c] = "calling" /\ ~ Putting(c) /\ call[c] \notin early[c] => NobodyPuts
  /\ \A q \in BagToSet(requests) :
       q.xid > NUM_PUTS /\ q.xid \notin early[q.from] => NobodyPuts

\* What the replies on their way say of a client's current get.
SuccessComing(c) ==
  \E r \in replies : r.to = c /\ r.xid = call[c] /\ r.xid > NUM_PUTS /\ r.result = 0
FailureComing(c) ==
  \E r \in replies : r.to = c /\ r.xid = call[c] /\ r.xid > NUM_PUTS /\ r.result # 0

\* One step ahead of ToldOfEachMessage: of a get that was run again the client may
\* take either answer, and a success it does not take counts as passed over.
ToldInv ==
  DistinctIds =>
    \A c \in Client :
      LET given == Cardinality(reads[host_id[c]])
          told == Cardinality(Told(c))
      IN  /\ told + (IF SuccessComing(c) THEN 1 ELSE 0) <= given
          /\ given <= told + again[c]
                      + (IF SuccessComing(c) /\ ~ FailureComing(c) THEN 1 ELSE 0)

EnoughGets == NUM_GETS <= NUM_PUTS * (Cardinality(Client) - 1)
AllAccepted == \A c \in Client : refused[c] \cap (1 .. NUM_PUTS) = {}
AllGot(c) == NUM_GETS <= Cardinality(reads[host_id[c]])

\* A get that was not early and found nothing came after all messages of the others.
FailedInv ==
  DistinctIds /\ EnoughGets /\ AllAccepted =>
    /\ \A c \in Client : refused[c] \ early[c] # {} => AllGot(c)
    /\ \A r \in replies :
         r.xid > NUM_PUTS /\ r.result # 0 /\ r.xid \notin early[r.to] => AllGot(r.to)

-----------------------------------------------------------------------------

LEMMA CallsOnSend ==
  ASSUME DisplayInv, CallsInv, PutsDoneInv, NEW c \in Client, Call(c) \/ Retransmit(c)
  PROVE  CallsInv' /\ PutsDoneInv'
<1>1. /\ requests' = requests (+) SetToBag({RequestOf(c)})
      /\ UNCHANGED <<call, replies, refused, again>>
      /\ status[c] \in {"ready", "calling"} /\ status' = [status EXCEPT ![c] = "calling"]
  BY DEF Call, Retransmit, Send, RequestOf, CallsInv, StatusTyped
<1>2. BagToSet(requests') = BagToSet(requests) \cup {RequestOf(c)}
  BY <1>1, Datagrams
<1>3. call[c] \in Nat \ {0} /\ call[c] <= NUM_PUTS + NUM_GETS /\ NUM_PUTS \in Nat
  BY <1>1, DisplayAssumption DEF CallsInv, DisplayInv, ClientsInv
<1>4. /\ early' \in [Client -> SUBSET Nat]
      /\ \A d \in Client : early[d] \subseteq early'[d]
      /\ ~ Putting(c) /\ call[c] \notin early'[c] => NobodyPuts
  <2>1. CASE Call(c)
    BY <1>3, <2>1 DEF Call, CallsInv, NobodyPuts
  <2>2. CASE Retransmit(c)
    BY <2>2 DEF Retransmit, CallsInv, PutsDoneInv
  <2> QED
    BY <2>1, <2>2
<1>5. NobodyPuts' = NobodyPuts /\ \A d \in Client : Putting(d)' = Putting(d)
  BY <1>1 DEF NobodyPuts, Putting
<1>6. RequestOf(c).from = c /\ RequestOf(c).xid = call[c]
  BY DEF RequestOf
<1>7. CallsInv'
  <2>1. StatusTyped'
    BY <1>1 DEF CallsInv, StatusTyped
  <2>2. \A d \in Client : status'[d] \in {"ready", "calling"} => call'[d] <= NUM_PUTS + NUM_GETS
    BY <1>1, <1>3 DEF CallsInv, StatusTyped
  <2> QED
    BY <1>1, <1>2, <1>3, <1>4, <1>6, <2>1, <2>2 DEF CallsInv
<1>8. ASSUME NEW d \in Client, status'[d] = "calling", ~ Putting(d)', call'[d] \notin early'[d]
      PROVE  NobodyPuts'
  <2>1. CASE d = c
    BY <1>1, <1>4, <1>5, <1>8, <2>1
  <2>2. CASE d # c
    <3>1. status[d] = "calling" /\ call[d] \notin early[d]
      BY <1>1, <1>4, <1>8, <2>2 DEF CallsInv, StatusTyped
    <3> QED
      BY <1>5, <1>8, <3>1 DEF PutsDoneInv
  <2> QED
    BY <2>1, <2>2
<1>9. ASSUME NEW q \in BagToSet(requests'), q.xid > NUM_PUTS, q.xid \notin early'[q.from]
      PROVE  NobodyPuts'
  <2>1. CASE q = RequestOf(c)
    BY <1>3, <1>4, <1>5, <1>6, <1>9, <2>1 DEF Putting
  <2>2. CASE q \in BagToSet(requests)
    <3>1. q.from \in Client
      BY <2>2 DEF DisplayInv, RequestInv
    <3> QED
      BY <1>4, <1>5, <1>9, <2>2, <3>1 DEF PutsDoneInv
  <2> QED
    BY <1>2, <2>1, <2>2
<1> QED
  BY <1>7, <1>8, <1>9 DEF PutsDoneInv

LEMMA CallsOnReceive ==
  ASSUME DisplayInv, CallsInv, PutsDoneInv, NEW c \in Client, NEW r \in replies, Receive(c, r)
  PROVE  CallsInv' /\ PutsDoneInv'
<1>1. /\ r.to = c /\ r.xid = call[c] /\ replies' \subseteq replies
      /\ refused' = IF r.result = 0 THEN refused ELSE [refused EXCEPT ![c] = @ \cup {r.xid}]
      /\ call' = [call EXCEPT ![c] = @ + 1]
      /\ status[c] = "calling"
      /\ status' = [status EXCEPT ![c] = IF call[c] = NUM_PUTS + NUM_GETS THEN "done" ELSE "ready"]
      /\ UNCHANGED <<requests, early, again>>
  BY DEF Receive
<1>2. /\ call \in [Client -> Nat \ {0}] /\ refused \in [Client -> SUBSET Nat]
      /\ call[c] <= NUM_PUTS + NUM_GETS /\ NUM_PUTS \in Nat /\ NUM_GETS \in Nat
  BY <1>1, DisplayAssumption DEF DisplayInv, ClientsInv, CallsInv
<1>3. /\ call'[c] = call[c] + 1 /\ refused'[c] \subseteq refused[c] \cup {call[c]}
      /\ \A d \in Client : d # c => /\ call'[d] = call[d] /\ refused'[d] = refused[d]
                                    /\ status'[d] = status[d]
      /\ \/ status'[c] = "ready" /\ call[c] # NUM_PUTS + NUM_GETS
         \/ status'[c] = "done"
  BY <1>1, <1>2 DEF CallsInv, StatusTyped
<1>4. \A d \in Client : call[d] \in Nat /\ call'[d] \in Nat /\ call[d] <= call'[d]
  BY <1>2, <1>3
<1>5. NobodyPuts => NobodyPuts'
  BY <1>2, <1>4 DEF NobodyPuts, Putting
<1>6. ASSUME NEW d \in Client
      PROVE  /\ call'[d] <= NUM_PUTS + NUM_GETS + 1
             /\ status'[d] \in {"ready", "calling"} => call'[d] <= NUM_PUTS + NUM_GETS
             /\ refused'[d] \subseteq 1 .. call'[d] - 1
  <2>1. CASE d # c
    BY <1>3, <2>1 DEF CallsInv
  <2>2. CASE d = c
    <3>1. refused[c] \subseteq 1 .. call[c] - 1
      BY DEF CallsInv
    <3>2. refused'[c] \subseteq 1 .. call'[c] - 1
      BY <1>2, <1>3, <3>1
    <3> QED
      BY <1>2, <1>3, <2>2, <3>2
  <2> QED
    BY <2>1, <2>2
<1>7. \A x \in replies' : x.to \in Client /\ x.xid \in 1 .. call'[x.to]
  <2> SUFFICES ASSUME NEW x \in replies' PROVE x.to \in Client /\ x.xid \in 1 .. call'[x.to]
    OBVIOUS
  <2>1. x.to \in Client /\ x.xid \in 1 .. call[x.to]
    BY <1>1 DEF CallsInv
  <2> QED
    BY <1>4, <2>1
<1>8. CallsInv'
  BY <1>1, <1>6, <1>7 DEF CallsInv, StatusTyped
<1>9. \A d \in Client : status'[d] = "calling" => d # c /\ status[d] = "calling"
  BY <1>3
<1>10. PutsDoneInv'
  BY <1>1, <1>3, <1>5, <1>9 DEF PutsDoneInv, Putting
<1> QED
  BY <1>8, <1>10

LEMMA CallsOnCrash ==
  ASSUME DisplayInv, CallsInv, PutsDoneInv, NEW c \in Client, Timeout(c) \/ GenerateFails(c)
  PROVE  CallsInv' /\ PutsDoneInv'
<1>1. /\ status' = [status EXCEPT ![c] = "crashed"]
      /\ UNCHANGED <<call, requests, replies, refused, early, again>>
  BY DEF Timeout, GenerateFails
<1>2. CallsInv'
  BY <1>1 DEF CallsInv, StatusTyped
<1>3. \A d \in Client : status'[d] = "calling" => status[d] = "calling"
  BY <1>1 DEF CallsInv, StatusTyped
<1> QED
  BY <1>1, <1>2, <1>3 DEF PutsDoneInv, NobodyPuts, Putting

LEMMA CallsOnServe ==
  ASSUME DisplayInv, CallsInv, PutsDoneInv, NEW q \in BagToSet(requests), Serve(q)
  PROVE  CallsInv' /\ PutsDoneInv'
<1>1. /\ UNCHANGED <<status, call, refused, early>>
      /\ BagToSet(requests') \subseteq BagToSet(requests)
  BY ServeCases, Datagrams DEF clientVars
<1>2. PICK result \in Result :
        replies' = replies \cup {[to |-> q.from, xid |-> q.xid, result |-> result]}
  BY ServeCases
<1>3. q.from \in Client /\ q.xid \in 1 .. call[q.from] /\ q.xid <= NUM_PUTS + NUM_GETS
  BY DEF DisplayInv, RequestInv, CallsInv
<1>4. again' \in [Client -> Nat]
  <2>1. CountAgain(q)
    BY ServeCases
  <2>2. again \in [Client -> Nat]
    BY DEF CallsInv
  <2> QED
    BY <1>3, <2>1, <2>2 DEF CountAgain
<1>5. ASSUME NEW r \in replies'
      PROVE  /\ r = [to |-> r.to, xid |-> r.xid, result |-> r.result]
             /\ r.to \in Client /\ r.xid \in 1 .. call[r.to] /\ r.xid <= NUM_PUTS + NUM_GETS
  <2>1. CASE r \in replies
    BY <2>1 DEF CallsInv
  <2>2. CASE r = [to |-> q.from, xid |-> q.xid, result |-> result]
    BY <1>3, <2>2
  <2> QED
    BY <1>2, <2>1, <2>2
<1>6. CallsInv'
  BY <1>1, <1>4, <1>5 DEF CallsInv, StatusTyped
<1> QED
  BY <1>1, <1>6 DEF PutsDoneInv, NobodyPuts, Putting

LEMMA CallsStep ==
  DisplayInv /\ CallsInv /\ PutsDoneInv /\ [DisplayNext]_vars => CallsInv' /\ PutsDoneInv'
<1> SUFFICES ASSUME DisplayInv, CallsInv, PutsDoneInv, [DisplayNext]_vars
             PROVE  CallsInv' /\ PutsDoneInv'
  OBVIOUS
<1>1. CASE UNCHANGED vars
  BY <1>1 DEF vars, clientVars, CallsInv, StatusTyped, PutsDoneInv, NobodyPuts, Putting
<1> QED
  BY <1>1, CallsOnSend, CallsOnReceive, CallsOnCrash, CallsOnServe DEF DisplayNext, ClientStep

LEMMA InitCalls == DisplayInit => CallsInv /\ PutsDoneInv
<1> SUFFICES ASSUME DisplayInit PROVE CallsInv /\ PutsDoneInv
  OBVIOUS
<1>1. BagToSet(requests) = {}
  BY DEF DisplayInit, EmptyBag, BagToSet, SetToBag
<1> QED
  BY <1>1, DisplayAssumption DEF DisplayInit, CallsInv, StatusTyped, PutsDoneInv

-----------------------------------------------------------------------------

\* The gets that are over, and the failed ones of them.
LEMMA ToldFinite ==
  ASSUME DisplayInv, NEW c \in Client
  PROVE  /\ call[c] \in Nat \ {0} /\ NUM_PUTS \in Nat
         /\ IsFiniteSet(NUM_PUTS + 1 .. call[c] - 1)
         /\ Cardinality(NUM_PUTS + 1 .. call[c] - 1) =
              IF call[c] > NUM_PUTS + 1 THEN call[c] - 1 - NUM_PUTS ELSE 0
         /\ IsFiniteSet(Told(c)) /\ Cardinality(Told(c)) \in Nat
<1>1. call[c] \in Nat \ {0} /\ NUM_PUTS \in Nat
  BY DisplayAssumption DEF DisplayInv, ClientsInv
<1>2. NUM_PUTS + 1 \in Int /\ call[c] - 1 \in Int
  BY <1>1
<1>3. /\ IsFiniteSet(NUM_PUTS + 1 .. call[c] - 1)
      /\ Cardinality(NUM_PUTS + 1 .. call[c] - 1) =
           IF NUM_PUTS + 1 > call[c] - 1 THEN 0 ELSE (call[c] - 1) - (NUM_PUTS + 1) + 1
  BY <1>2, FS_Interval
<1>4. IsFiniteSet(Told(c))
  BY <1>3, FS_Difference DEF Told
<1> QED
  BY <1>1, <1>3, <1>4, FS_CardinalityType

LEMMA ReadsFinite ==
  ASSUME ServerInv, NEW id \in Id
  PROVE  IsFiniteSet(reads[id]) /\ Cardinality(reads[id]) \in Nat
<1>1. reads[id] \subseteq Index
  BY DEF ServerInv, ServerTypeOK
<1> QED
  BY <1>1, FinitelyMany, FS_Subset, FS_CardinalityType

LEMMA ToldStays ==
  ASSUME ToldInv, UNCHANGED <<reads, host_id, call, refused, again>>,
         \A c \in Client : /\ SuccessComing(c)' <=> SuccessComing(c)
                           /\ FailureComing(c)' <=> FailureComing(c)
  PROVE  ToldInv'
<1>1. \A c \in Client : Told(c)' = Told(c)
  BY DEF Told
<1> QED
  BY <1>1 DEF ToldInv, DistinctIds

\* A success that comes in is told; one that waits when a failure comes in first is not.
LEMMA ToldOnReceive ==
  ASSUME DisplayInv, CallsInv, ServerInv, ToldInv, NEW c \in Client, NEW r \in replies, Receive(c, r)
  PROVE  ToldInv'
<1>1. /\ r.to = c /\ r.xid = call[c]
      /\ replies' = {x \in replies : x.to = c => x.xid > r.xid}
      /\ refused' = IF r.result = 0 THEN refused ELSE [refused EXCEPT ![c] = @ \cup {r.xid}]
      /\ call' = [call EXCEPT ![c] = @ + 1]
      /\ UNCHANGED <<reads, host_id, again>>
  BY DEF Receive, serverVars
<1>2. /\ call \in [Client -> Nat \ {0}] /\ refused \in [Client -> SUBSET Nat]
      /\ refused[c] \subseteq 1 .. call[c] - 1 /\ NUM_PUTS \in Nat
  BY DisplayAssumption DEF DisplayInv, ClientsInv, CallsInv
<1>3. /\ call'[c] = call[c] + 1 /\ call[c] \notin refused[c]
      /\ refused'[c] = refused[c] \cup (IF r.result = 0 THEN {} ELSE {call[c]})
  BY <1>1, <1>2
<1>4. Told(c)' = Told(c) \cup (IF call[c] > NUM_PUTS /\ r.result = 0 THEN {call[c]} ELSE {})
  <2>1. \A n : n \in NUM_PUTS + 1 .. call'[c] - 1 <=>
                 n \in NUM_PUTS + 1 .. call[c] - 1 \/ (n = call[c] /\ call[c] > NUM_PUTS)
    <3>1. \A v, p \in Nat : \A n : n \in p + 1 .. v + 1 - 1 <=>
                                     n \in p + 1 .. v - 1 \/ (n = v /\ v > p)
      OBVIOUS
    <3>2. call[c] \in Nat
      BY <1>2
    <3> QED
      BY <1>2, <1>3, <3>1, <3>2
  <2>2. \A n : n \in Told(c)' <=> n \in NUM_PUTS + 1 .. call'[c] - 1 /\ n \notin refused'[c]
    BY DEF Told
  <2>3. \A n : n \in Told(c) <=> n \in NUM_PUTS + 1 .. call[c] - 1 /\ n \notin refused[c]
    BY DEF Told
  <2>4. \A n : n \in NUM_PUTS + 1 .. call[c] - 1 => n # call[c]
    BY <1>2
  <2>5. \A n : n \in Told(c)' <=> n \in Told(c) \/ (n = call[c] /\ call[c] > NUM_PUTS /\ r.result = 0)
    BY <1>3, <2>1, <2>2, <2>3, <2>4
  <2> QED
    BY <2>5
<1>5. /\ ~ SuccessComing(c)' /\ ~ FailureComing(c)'
      /\ call[c] > NUM_PUTS => IF r.result = 0 THEN SuccessComing(c) ELSE FailureComing(c)
      /\ ~ (call[c] > NUM_PUTS) => ~ SuccessComing(c) /\ ~ FailureComing(c)
  <2>1. \A x \in replies' : x.to = c => x.xid # call'[c]
    <3>1. \A x \in replies : x.to = c => x.xid \in 1 .. call[c]
      BY DEF CallsInv
    <3> QED
      BY <1>1, <1>2, <1>3, <3>1
  <2> QED
    BY <1>1, <2>1 DEF SuccessComing, FailureComing
<1>6. ASSUME NEW d \in Client, d # c
      PROVE  /\ Told(d)' = Told(d) /\ (SuccessComing(d)' <=> SuccessComing(d))
             /\ FailureComing(d)' <=> FailureComing(d)
  <2>1. call'[d] = call[d] /\ refused'[d] = refused[d]
    BY <1>1, <1>2, <1>6
  <2>2. \A x : x \in replies' /\ x.to = d <=> x \in replies /\ x.to = d
    BY <1>1, <1>6
  <2>3. SuccessComing(d)' <=> SuccessComing(d)
    BY <2>1, <2>2 DEF SuccessComing
  <2>4. FailureComing(d)' <=> FailureComing(d)
    BY <2>1, <2>2 DEF FailureComing
  <2> QED
    BY <2>1, <2>3, <2>4 DEF Told
<1>7. Cardinality(Told(c)') = Cardinality(Told(c)) + (IF call[c] > NUM_PUTS /\ r.result = 0 THEN 1 ELSE 0)
  <2>1. IsFiniteSet(Told(c)) /\ Cardinality(Told(c)) \in Nat
    BY ToldFinite
  <2>2. call[c] \notin Told(c)
    BY <1>2 DEF Told
  <2>3. CASE call[c] > NUM_PUTS /\ r.result = 0
    BY <1>4, <2>1, <2>2, <2>3, FS_AddElement
  <2>4. CASE ~ (call[c] > NUM_PUTS /\ r.result = 0)
    <3>1. Told(c)' = Told(c)
      BY <1>4, <2>4
    <3> QED
      BY <2>1, <2>4, <3>1
  <2> QED
    BY <2>3, <2>4
<1>8. ASSUME DistinctIds', NEW d \in Client
      PROVE  LET given == Cardinality(reads'[host_id'[d]])
                 told == Cardinality(Told(d)')
             IN  /\ told + (IF SuccessComing(d)' THEN 1 ELSE 0) <= given
                 /\ given <= told + again'[d]
                             + (IF SuccessComing(d)' /\ ~ FailureComing(d)' THEN 1 ELSE 0)
  <2>1. /\ Cardinality(Told(d)) + (IF SuccessComing(d) THEN 1 ELSE 0) <= Cardinality(reads[host_id[d]])
        /\ Cardinality(reads[host_id[d]]) <= Cardinality(Told(d)) + again[d]
              + (IF SuccessComing(d) /\ ~ FailureComing(d) THEN 1 ELSE 0)
    BY <1>1, <1>8 DEF ToldInv, DistinctIds
  <2>2. Cardinality(Told(d)) \in Nat /\ again[d] \in Nat /\ Cardinality(reads[host_id[d]]) \in Nat
    BY ToldFinite, ReadsFinite DEF CallsInv, DisplayInv, ClientsInv
  <2>3. CASE d # c
    BY <1>1, <1>6, <2>1, <2>3
  <2>4. CASE d = c
    <3>1. CASE call[c] > NUM_PUTS /\ r.result = 0
      BY <1>1, <1>5, <1>7, <2>1, <2>2, <2>4, <3>1
    <3>2. CASE ~ (call[c] > NUM_PUTS /\ r.result = 0)
      BY <1>1, <1>5, <1>7, <2>1, <2>2, <2>4, <3>2
    <3> QED
      BY <3>1, <3>2
  <2> QED
    BY <2>3, <2>4
<1> QED
  BY <1>8 DEF ToldInv

\* The server's answer to a get: a message that is new to the client, or none.
LEMMA ReadsOnGet ==
  ASSUME NobodyIsZero, ServerInv, NEW id \in Id, NEW result \in Result,
         \/ result = 0 /\ GetFound(id)
         \/ result = -1 /\ GetNothing(id)
  PROVE  /\ Cardinality(reads'[id]) = Cardinality(reads[id]) + (IF result = 0 THEN 1 ELSE 0)
         /\ \A x \in Id : x # id => reads'[x] = reads[x]
<1>1. reads \in [Id -> SUBSET Index]
  BY DEF ServerInv, ServerTypeOK
<1>2. IsFiniteSet(reads[id]) /\ Cardinality(reads[id]) \in Nat
  BY ReadsFinite
<1>3. CASE result = 0 /\ GetFound(id)
  <2>1. Unread(id) # {}
    BY <1>3 DEF GetFound
  <2>2. PICK k, s : k = Least(Unread(id)) /\ s = SlotOf(id)
    OBVIOUS
  <2>3. /\ id \in Listed /\ k \in Index /\ k > curr_client_indices[s]
        /\ reads' = [reads EXCEPT ![id] = @ \cup {k}]
    BY <1>3, <2>1, <2>2, NextUnread DEF GetFound
  <2>4. s \in Slot /\ s < curr_client /\ client_list[s] = id
    BY <2>2, <2>3, SlotFound
  <2>5. k \notin reads[id]
    <3>1. \A j \in reads[id] : j <= curr_client_indices[s]
      BY <2>4 DEF ServerInv, NothingSkipped
    <3>2. curr_client_indices[s] \in Int
      BY <2>4, ServerAssumption DEF ServerInv, ServerTypeOK, Index
    <3>3. k \in Int /\ ~ (k <= curr_client_indices[s])
      BY <2>3, <3>2, ServerAssumption DEF Index
    <3> QED
      BY <3>1, <3>3
  <2>6. Cardinality(reads[id] \cup {k}) = Cardinality(reads[id]) + 1
    BY <1>2, <2>5, FS_AddElement
  <2>7. reads'[id] = reads[id] \cup {k} /\ \A x \in Id : x # id => reads'[x] = reads[x]
    BY <1>1, <2>3
  <2> QED
    BY <1>3, <2>6, <2>7
<1>4. CASE result = -1 /\ GetNothing(id)
  <2>1. reads' = reads
    BY <1>4 DEF GetNothing, serverVars
  <2> QED
    BY <1>2, <1>4, <2>1
<1> QED
  BY <1>3, <1>4

\* A message that is given out is told for the first run of a get, and counted for
\* each one after.
LEMMA ToldOnGet ==
  ASSUME NobodyIsZero, DisplayInv, CallsInv, ServerInv, ToldInv,
         NEW q \in BagToSet(requests), ~ (q.xid <= NUM_PUTS), NEW result \in Result,
         \/ result = 0 /\ GetFound(host_id[q.from])
         \/ result = -1 /\ GetNothing(host_id[q.from]),
         replies' = replies \cup {[to |-> q.from, xid |-> q.xid, result |-> result]},
         CountAgain(q), UNCHANGED clientVars
  PROVE  ToldInv'
<1>1. q.from \in Client /\ q.xid \in 1 .. call[q.from] /\ call[q.from] \in Nat
  BY DEF DisplayInv, RequestInv, ClientsInv
<1>2. q.xid > NUM_PUTS /\ q.xid <= call[q.from]
  BY <1>1, DisplayAssumption
<1>3. PICK c \in Client, id \in Id : c = q.from /\ id = host_id[c]
  BY <1>1 DEF DisplayInv, ClientsInv
<1>4. UNCHANGED <<host_id, call, refused>>
  BY DEF clientVars
<1>5. PICK y : /\ replies' = replies \cup {y}
               /\ y.to = c /\ y.xid = q.xid /\ y.result = result
  <2> DEFINE b == [to |-> q.from, xid |-> q.xid, result |-> result]
  <2>1. b.to = c /\ b.xid = q.xid /\ b.result = result /\ replies' = replies \cup {b}
    BY <1>3
  <2> HIDE DEF b
  <2> QED
    BY <2>1
<1>6. /\ Cardinality(reads'[id]) = Cardinality(reads[id]) + (IF result = 0 THEN 1 ELSE 0)
      /\ \A x \in Id : x # id => reads'[x] = reads[x]
  BY <1>3, ReadsOnGet
<1>7. \A d \in Client : Told(d)' = Told(d)
  BY <1>4 DEF Told
<1>8. \A d \in Client : d # c => /\ SuccessComing(d)' <=> SuccessComing(d)
                                 /\ FailureComing(d)' <=> FailureComing(d)
                                 /\ again'[d] = again[d]
  <2>1. \A d \in Client : d # c => /\ SuccessComing(d)' <=> SuccessComing(d)
                                   /\ FailureComing(d)' <=> FailureComing(d)
    BY <1>4, <1>5 DEF SuccessComing, FailureComing
  <2>2. \A d \in Client : d # c => again'[d] = again[d]
    BY <1>3 DEF CountAgain, CallsInv
  <2> QED
    BY <2>1, <2>2
<1>9. /\ SuccessComing(c)' <=> SuccessComing(c) \/ (q.xid = call[c] /\ result = 0)
      /\ FailureComing(c)' <=> FailureComing(c) \/ (q.xid = call[c] /\ result # 0)
  BY <1>2, <1>4, <1>5 DEF SuccessComing, FailureComing
<1>10. again'[c] = again[c] + (IF Answered(q) THEN 1 ELSE 0)
  BY <1>2, <1>3 DEF CountAgain, CallsInv
<1>11. q.xid = call[c] => (Answered(q) <=> SuccessComing(c) \/ FailureComing(c))
  BY <1>1, <1>2, <1>3 DEF Answered, SuccessComing, FailureComing
<1>12. q.xid # call[c] => Answered(q)
  BY <1>1, <1>2, <1>3 DEF Answered
<1>13. ASSUME DistinctIds', NEW d \in Client
      PROVE  LET given == Cardinality(reads'[host_id'[d]])
                 told == Cardinality(Told(d)')
             IN  /\ told + (IF SuccessComing(d)' THEN 1 ELSE 0) <= given
                 /\ given <= told + again'[d]
                             + (IF SuccessComing(d)' /\ ~ FailureComing(d)' THEN 1 ELSE 0)
  <2>1. DistinctIds
    BY <1>4, <1>13 DEF DistinctIds
  <2>2. /\ Cardinality(Told(d)) + (IF SuccessComing(d) THEN 1 ELSE 0) <= Cardinality(reads[host_id[d]])
        /\ Cardinality(reads[host_id[d]]) <= Cardinality(Told(d)) + again[d]
              + (IF SuccessComing(d) /\ ~ FailureComing(d) THEN 1 ELSE 0)
    BY <2>1 DEF ToldInv
  <2>3. Cardinality(Told(d)) \in Nat /\ again[d] \in Nat /\ Cardinality(reads[host_id[d]]) \in Nat
    BY ToldFinite, ReadsFinite DEF CallsInv, DisplayInv, ClientsInv
  <2>4. CASE d # c
    <3>1. host_id[d] # id /\ host_id[d] \in Id
      BY <1>3, <2>1, <2>4 DEF DistinctIds, DisplayInv, ClientsInv
    <3> QED
      BY <1>4, <1>6, <1>7, <1>8, <2>2, <2>4, <3>1
  <2>5. CASE d = c
    <3>1. /\ Cardinality(Told(c)') = Cardinality(Told(c))
          /\ host_id'[c] = id /\ host_id[c] = id
      BY <1>3, <1>4, <1>7
    <3>2. CASE q.xid = call[c] /\ ~ SuccessComing(c) /\ ~ FailureComing(c)
      BY <1>6, <1>9, <1>10, <1>11, <2>2, <2>3, <2>5, <3>1, <3>2
    <3>3. CASE ~ (q.xid = call[c] /\ ~ SuccessComing(c) /\ ~ FailureComing(c))
      <4>1. again'[c] = again[c] + 1
        BY <1>10, <1>11, <1>12, <3>3
      <4> QED
        BY <1>6, <1>9, <2>2, <2>3, <2>5, <3>1, <3>3, <4>1
    <3> QED
      BY <3>2, <3>3
  <2> QED
    BY <2>4, <2>5
<1> QED
  BY <1>13 DEF ToldInv

LEMMA ToldStep ==
  ASSUME NobodyIsZero, DisplayInv, CallsInv, ServerInv, ToldInv, [DisplayNext]_vars
  PROVE  ToldInv'
<1>1. ASSUME NEW c \in Client, Call(c) \/ Timeout(c) \/ Retransmit(c) \/ GenerateFails(c)
      PROVE  ToldInv'
  <2>1. UNCHANGED <<reads, host_id, call, refused, replies, again>>
    BY <1>1 DEF Call, Timeout, Retransmit, GenerateFails, serverVars
  <2> QED
    BY <2>1, ToldStays DEF SuccessComing, FailureComing
<1>2. ASSUME NEW q \in BagToSet(requests), Serve(q) PROVE ToldInv'
  <2>1. CountAgain(q) /\ UNCHANGED clientVars /\ UNCHANGED <<host_id, call, refused>>
    BY <1>2, ServeCases DEF clientVars
  <2>2. PICK result \in Result :
          /\ replies' = replies \cup {[to |-> q.from, xid |-> q.xid, result |-> result]}
          /\ \/ /\ q.xid <= NUM_PUTS
                /\ PutStored(host_id[q.from], Text(q.from, q.xid)) \/ PutRefused
             \/ /\ ~ (q.xid <= NUM_PUTS)
                /\ \/ result = 0 /\ GetFound(host_id[q.from])
                   \/ result = -1 /\ GetNothing(host_id[q.from])
    BY <1>2, ServeCases
  <2>3. CASE ~ (q.xid <= NUM_PUTS)
    BY <2>1, <2>2, <2>3, ToldOnGet
  <2>4. CASE q.xid <= NUM_PUTS
    <3>1. reads' = reads
      BY <2>2, <2>4 DEF PutStored, PutRefused, serverVars
    <3>2. ~ (q.xid > NUM_PUTS)
      BY <2>4, DisplayAssumption DEF DisplayInv, RequestInv, ClientsInv
    <3>3. again' = again
      BY <2>1, <3>2 DEF CountAgain
    <3>4. \A x : x \in replies' /\ x.xid > NUM_PUTS <=> x \in replies /\ x.xid > NUM_PUTS
      BY <2>2, <3>2
    <3>5. \A c \in Client : /\ SuccessComing(c)' <=> SuccessComing(c)
                            /\ FailureComing(c)' <=> FailureComing(c)
      BY <2>1, <3>4 DEF SuccessComing, FailureComing
    <3> QED
      BY <2>1, <3>1, <3>3, <3>5, ToldStays
  <2> QED
    BY <2>3, <2>4
<1>3. CASE UNCHANGED vars
  <2>1. UNCHANGED <<reads, host_id, call, refused, replies, again>>
    BY <1>3 DEF vars, serverVars, clientVars
  <2> QED
    BY <2>1, ToldStays DEF SuccessComing, FailureComing
<1> QED
  BY <1>1, <1>2, <1>3, ToldOnReceive DEF DisplayNext, ClientStep

LEMMA InitTold == DisplayInit => ToldInv
<1> SUFFICES ASSUME DisplayInit, NEW c \in Client
             PROVE  /\ Cardinality(Told(c)) = 0 /\ Cardinality(reads[host_id[c]]) = 0
                    /\ again[c] = 0 /\ ~ SuccessComing(c)
  BY DEF ToldInv
<1>1. reads[host_id[c]] = {} /\ again[c] = 0 /\ ~ SuccessComing(c)
  BY DisplayAssumption DEF DisplayInit, ServerInit, SuccessComing
<1>2. Told(c) = {}
  BY DisplayAssumption DEF DisplayInit, Told
<1> QED
  BY <1>1, <1>2, FS_EmptySet

-----------------------------------------------------------------------------

\* When all puts are done and are stored, a client that finds nothing more has
\* got all that the others have put.
LEMMA AllRead ==
  ASSUME NobodyIsZero, DisplayInv, DistinctIds, ServerInv, NEW c \in Client,
         \A d \in Client, n \in 1 .. NUM_PUTS : Stored(d, n) # {},
         Unread(host_id[c]) = {}
  PROVE  Cardinality(reads[host_id[c]]) >= NUM_PUTS * (Cardinality(Client) - 1)
<1>1. PICK id \in Id : id = host_id[c]
  BY DEF DisplayInv, ClientsInv
<1>2. \A d \in Client, n \in 1 .. NUM_PUTS : \A k \in Stored(d, n) :
        /\ k \in Index /\ k < curr_index /\ client_msgs[k] = Text(d, n)
        /\ client_msg_ids[k] = host_id[d]
  BY DEF Stored, DisplayInv, AuthorInv
<1>3. id \in Listed
  <2>1. PICK k : k \in Stored(c, 1)
    BY DisplayAssumption
  <2>2. k \in Index /\ k < curr_index /\ client_msg_ids[k] = id
    BY <1>1, <1>2, <2>1, DisplayAssumption
  <2> QED
    BY <2>2 DEF ServerInv, OneSlotEach
<1>4. PICK s : s = SlotOf(id)
  OBVIOUS
<1>5. s \in Slot /\ s < curr_client /\ client_list[s] = id /\ Slots(id) # {}
  BY <1>3, <1>4, SlotFound
<1>6. curr_client_indices[s] \in Int
  BY <1>5, ServerAssumption DEF ServerInv, ServerTypeOK, Index
<1>7. ASSUME NEW d \in Client \ {c}, NEW n \in 1 .. NUM_PUTS, NEW k \in Stored(d, n)
      PROVE  k \in reads[id]
  <2>1. k \in Index /\ client_msg_ids[k] = host_id[d]
    BY <1>2
  <2>2. client_msg_ids[k] # id /\ client_msg_ids[k] \in Nat
    BY <1>1, <2>1, ServerAssumption DEF DistinctIds, DisplayInv, ClientsInv
  <2>3. ~ (k > curr_client_indices[s])
    BY <1>1, <1>4, <1>5, <2>1, <2>2 DEF Unread
  <2>4. k <= curr_client_indices[s]
    BY <1>6, <2>1, <2>3, ServerAssumption DEF Index
  <2> QED
    BY <1>5, <2>1, <2>2, <2>4 DEF ServerInv, NothingSkipped
<1> DEFINE Others == (Client \ {c}) \X (1 .. NUM_PUTS)
           g == [m \in Others |-> CHOOSE k \in Stored(m[1], m[2]) : TRUE]
<1>8. \A m \in Others : /\ m[1] \in Client \ {c} /\ m[2] \in 1 .. NUM_PUTS
                        /\ g[m] \in Stored(m[1], m[2]) /\ m = Text(m[1], m[2])
  BY DEF Text
<1>9. g \in Injection(Others, reads[id])
  <2>1. g \in [Others -> reads[id]]
    BY <1>7, <1>8
  <2>2. \A m \in Others : client_msgs[g[m]] = m
    BY <1>2, <1>8
  <2> HIDE DEF g, Others
  <2>3. \A m, x \in Others : g[m] = g[x] => m = x
    BY <2>2
  <2> QED
    BY <2>1, <2>3 DEF Injection, IsInjective
<1>10. IsFiniteSet(reads[id])
  <2>1. MSG_LIMIT - 1 \in Int
    BY ServerAssumption
  <2>2. IsFiniteSet(Index) /\ reads[id] \subseteq Index
    BY <2>1, FS_Interval DEF Index, ServerInv, ServerTypeOK
  <2> QED
    BY <2>2, FS_Subset
<1>11. Cardinality(Others) <= Cardinality(reads[id])
  <2> HIDE DEF g, Others
  <2> QED
    BY <1>9, <1>10, FS_Injection
<1>12. Cardinality(Others) = NUM_PUTS * (Cardinality(Client) - 1)
  <2>1. /\ IsFiniteSet(Client \ {c}) /\ Cardinality(Client \ {c}) = Cardinality(Client) - 1
        /\ Cardinality(Client) \in Nat
    BY FinitelyMany, FS_RemoveElement, FS_CardinalityType
  <2>2. NUM_PUTS \in Int /\ NUM_PUTS >= 1
    BY DisplayAssumption
  <2>3. IsFiniteSet(1 .. NUM_PUTS) /\ Cardinality(1 .. NUM_PUTS) = NUM_PUTS
    <3>1. /\ IsFiniteSet(1 .. NUM_PUTS)
          /\ Cardinality(1 .. NUM_PUTS) = IF 1 > NUM_PUTS THEN 0 ELSE NUM_PUTS - 1 + 1
      BY <2>2, FS_Interval
    <3> QED
      BY <2>2, <3>1
  <2>4. Cardinality(Others) = (Cardinality(Client) - 1) * NUM_PUTS
    BY <2>1, <2>3, FS_Product
  <2>5. \A a, b \in Int : a * b = b * a
    OBVIOUS
  <2> QED
    BY <2>1, <2>2, <2>4, <2>5
<1>13. Cardinality(reads[id]) \in Nat /\ Cardinality(Others) \in Int
  <2>1. IsFiniteSet(Client) /\ Cardinality(Client) \in Nat /\ NUM_PUTS \in Nat
    BY FinitelyMany, FS_CardinalityType, DisplayAssumption
  <2> QED
    BY <1>10, <1>12, <2>1, FS_CardinalityType
<1> QED
  BY <1>1, <1>11, <1>12, <1>13

LEMMA AllGotStays ==
  ASSUME DisplayInv, ServerInv, ServerInv', UNCHANGED host_id, NEW c \in Client, AllGot(c),
         reads[host_id[c]] \subseteq reads'[host_id[c]]
  PROVE  AllGot(c)'
<1>1. host_id[c] \in Id
  BY DEF DisplayInv, ClientsInv
<1>2. IsFiniteSet(reads'[host_id[c]]) /\ Cardinality(reads'[host_id[c]]) \in Nat
  <2>1. reads'[host_id[c]] \subseteq Index
    BY <1>1 DEF ServerInv, ServerTypeOK, Index
  <2> QED
    BY <2>1, FinitelyMany, FS_Subset, FS_CardinalityType
<1>3. Cardinality(reads[host_id[c]]) <= Cardinality(reads'[host_id[c]])
  BY <1>2, FS_Subset
<1>4. Cardinality(reads[host_id[c]]) \in Nat /\ NUM_GETS \in Nat
  BY <1>1, ReadsFinite, DisplayAssumption
<1> QED
  BY <1>2, <1>3, <1>4 DEF AllGot

\* A get that finds nothing, begun when all puts were done and none refused, has
\* had all the messages of the others before it.
LEMMA FailsAfterAll ==
  ASSUME NobodyIsZero, DisplayInv, CallsInv, ServerInv, PutsDoneInv,
         DistinctIds, EnoughGets, AllAccepted,
         NEW q \in BagToSet(requests), q.xid > NUM_PUTS, q.xid \notin early[q.from],
         GetNothing(host_id[q.from])
  PROVE  AllGot(q.from)
<1>1. PICK c \in Client : c = q.from
  BY DEF DisplayInv, RequestInv
<1>2. call \in [Client -> Nat \ {0}] /\ NUM_PUTS \in Nat /\ NUM_GETS \in Nat
  BY DisplayAssumption DEF DisplayInv, ClientsInv
<1>3. NobodyPuts
  BY DEF PutsDoneInv
<1>4. \A d \in Client, n \in 1 .. NUM_PUTS : Stored(d, n) # {}
  <2> TAKE d \in Client, n \in 1 .. NUM_PUTS
  <2>1. n < call[d]
    BY <1>2, <1>3 DEF NobodyPuts, Putting
  <2>2. n \notin refused[d]
    BY DEF AllAccepted
  <2> QED
    BY <2>1, <2>2 DEF DisplayInv, AnsweredInv
<1>5. Cardinality(reads[host_id[c]]) >= NUM_PUTS * (Cardinality(Client) - 1)
  BY <1>1, <1>4, AllRead DEF GetNothing
<1>6. Cardinality(Client) \in Nat /\ Cardinality(reads[host_id[c]]) \in Nat
  BY FinitelyMany, FS_CardinalityType, ReadsFinite DEF DisplayInv, ClientsInv
<1>7. PICK v \in Int : v = NUM_PUTS * (Cardinality(Client) - 1)
  BY <1>2, <1>6
<1> QED
  BY <1>1, <1>2, <1>5, <1>6, <1>7 DEF EnoughGets, AllGot

\* A step that leaves the reads and the failures alone.
LEMMA FailedStays ==
  ASSUME FailedInv, UNCHANGED <<reads, host_id, replies, refused>>, DisplayInv, CallsInv,
         \A c \in Client : early[c] \subseteq early'[c]
  PROVE  FailedInv'
<1> SUFFICES ASSUME DistinctIds', EnoughGets, AllAccepted'
             PROVE  /\ \A c \in Client : refused[c] \ early'[c] # {} => AllGot(c)
                    /\ \A r \in replies :
                         r.xid > NUM_PUTS /\ r.result # 0 /\ r.xid \notin early'[r.to] => AllGot(r.to)
  BY DEF FailedInv, EnoughGets, AllGot
<1>1. DistinctIds /\ AllAccepted
  BY DEF DistinctIds, AllAccepted
<1>2. \A r \in replies : r.to \in Client
  BY DEF CallsInv
<1> QED
  BY <1>1, <1>2 DEF FailedInv

LEMMA FailedOnReceive ==
  ASSUME DisplayInv, CallsInv, FailedInv, NEW c \in Client, NEW r \in replies, Receive(c, r)
  PROVE  FailedInv'
<1>1. /\ r.to = c /\ r.xid = call[c] /\ replies' \subseteq replies
      /\ refused' = IF r.result = 0 THEN refused ELSE [refused EXCEPT ![c] = @ \cup {r.xid}]
      /\ UNCHANGED <<reads, host_id, early>>
  BY DEF Receive, serverVars
<1> SUFFICES ASSUME DistinctIds', EnoughGets, AllAccepted'
             PROVE  /\ \A d \in Client : refused'[d] \ early[d] # {} => AllGot(d)
                    /\ \A x \in replies' :
                         x.xid > NUM_PUTS /\ x.result # 0 /\ x.xid \notin early[x.to] => AllGot(x.to)
  BY <1>1 DEF FailedInv, EnoughGets, AllGot
<1>2. /\ refused \in [Client -> SUBSET Nat] /\ call[c] \in Nat \ {0} /\ NUM_PUTS \in Nat
  BY DisplayAssumption DEF DisplayInv, ClientsInv
<1>3. /\ \A d \in Client : refused[d] \subseteq refused'[d] /\ (d # c => refused'[d] = refused[d])
      /\ refused'[c] = refused[c] \cup (IF r.result = 0 THEN {} ELSE {call[c]})
  BY <1>1, <1>2
<1>4. DistinctIds /\ AllAccepted
  BY <1>1, <1>3 DEF DistinctIds, AllAccepted
<1>5. ASSUME NEW d \in Client, refused'[d] \ early[d] # {} PROVE AllGot(d)
  <2>1. CASE refused[d] \ early[d] # {}
    BY <1>4, <2>1 DEF FailedInv
  <2>2. CASE refused[d] \ early[d] = {}
    <3>1. d = c /\ r.result # 0 /\ call[c] \in refused'[c] /\ call[c] \notin early[c]
      BY <1>3, <1>5, <2>2
    <3>2. call[c] > NUM_PUTS
      BY <1>2, <3>1 DEF AllAccepted
    <3> QED
      BY <1>1, <1>4, <3>1, <3>2 DEF FailedInv
  <2> QED
    BY <2>1, <2>2
<1> QED
  BY <1>1, <1>4, <1>5 DEF FailedInv

LEMMA FailedOnServe ==
  ASSUME NobodyIsZero, DisplayInv, CallsInv, PutsDoneInv, ServerInv, ServerInv', FailedInv,
         NEW q \in BagToSet(requests), Serve(q)
  PROVE  FailedInv'
<1>1. UNCHANGED <<host_id, refused, early>>
  BY ServeCases DEF clientVars
<1>2. PICK result \in Result :
        /\ replies' = replies \cup {[to |-> q.from, xid |-> q.xid, result |-> result]}
        /\ result # 0 => q.xid <= NUM_PUTS \/ GetNothing(host_id[q.from])
  BY ServeCases
<1>3. q.from \in Client /\ q.xid \in Nat /\ NUM_PUTS \in Nat
  BY DisplayAssumption DEF DisplayInv, RequestInv, ClientsInv
<1>4. \A c \in Client : AllGot(c) => AllGot(c)'
  <2>1. \A id \in Id : reads[id] \subseteq reads'[id]
    <3>1. reads \in [Id -> SUBSET Index] /\ host_id[q.from] \in Id
      BY <1>3 DEF ServerInv, ServerTypeOK, DisplayInv, ClientsInv
    <3>2. PICK id : id = host_id[q.from]
      OBVIOUS
    <3>3. reads' = reads \/ \E k : reads' = [reads EXCEPT ![id] = @ \cup {k}]
      <4>1. \/ PutStored(id, Text(q.from, q.xid))
            \/ PutRefused \/ GetFound(id) \/ GetNothing(id)
        BY <3>2, ServeCases
      <4> QED
        BY <4>1 DEF PutStored, PutRefused, GetFound, GetNothing, serverVars
    <3> QED
      BY <3>1, <3>2, <3>3
  <2> QED
    BY <1>1, <2>1, AllGotStays DEF DisplayInv, ClientsInv
<1> SUFFICES ASSUME DistinctIds, EnoughGets, AllAccepted
             PROVE  /\ \A c \in Client : refused[c] \ early[c] # {} => AllGot(c)
                    /\ \A r \in replies' :
                         r.xid > NUM_PUTS /\ r.result # 0 /\ r.xid \notin early[r.to] => AllGot(r.to)
  <2>1. \A r \in replies' : r.to \in Client
    BY <1>2, <1>3 DEF CallsInv
  <2>2. (DistinctIds' <=> DistinctIds) /\ (AllAccepted' <=> AllAccepted) /\ (EnoughGets' <=> EnoughGets)
    BY <1>1 DEF DistinctIds, AllAccepted, EnoughGets
  <2> QED
    BY <1>1, <1>4, <2>1, <2>2 DEF FailedInv
<1>5. ASSUME NEW r \in replies', r.xid > NUM_PUTS, r.result # 0, r.xid \notin early[r.to]
      PROVE  AllGot(r.to)
  <2>1. CASE r \in replies
    BY <1>5, <2>1 DEF FailedInv
  <2>2. CASE r = [to |-> q.from, xid |-> q.xid, result |-> result]
    <3>1. r.to = q.from /\ q.xid > NUM_PUTS /\ q.xid \notin early[q.from] /\ result # 0
      BY <1>5, <2>2
    <3>2. GetNothing(host_id[q.from])
      BY <1>2, <1>3, <3>1
    <3> QED
      BY <3>1, <3>2, FailsAfterAll
  <2> QED
    BY <1>2, <2>1, <2>2
<1> QED
  BY <1>5 DEF FailedInv

LEMMA FailedStep ==
  ASSUME NobodyIsZero, DisplayInv, CallsInv, PutsDoneInv, ServerInv, ServerInv', FailedInv,
         [DisplayNext]_vars
  PROVE  FailedInv'
<1>1. ASSUME NEW c \in Client, Call(c) \/ Timeout(c) \/ Retransmit(c) \/ GenerateFails(c)
      PROVE  FailedInv'
  <2>1. /\ UNCHANGED <<reads, host_id, replies, refused>>
        /\ \A d \in Client : early[d] \subseteq early'[d]
    BY <1>1 DEF Call, Timeout, Retransmit, GenerateFails, serverVars, CallsInv
  <2> QED
    BY <2>1, FailedStays
<1>2. CASE UNCHANGED vars
  <2>1. UNCHANGED <<reads, host_id, replies, refused, early>>
    BY <1>2 DEF vars, serverVars, clientVars
  <2> QED
    BY <2>1, FailedStays
<1> QED
  BY <1>1, <1>2, FailedOnReceive, FailedOnServe DEF DisplayNext, ClientStep

LEMMA InitFailed == DisplayInit => FailedInv
BY DEF DisplayInit, FailedInv

-----------------------------------------------------------------------------

LEMMA CallsHold == DisplaySpec => [](CallsInv /\ PutsDoneInv)
<1>1. DisplayInv /\ (CallsInv /\ PutsDoneInv) /\ [DisplayNext]_vars => (CallsInv /\ PutsDoneInv)'
  BY CallsStep
<1> QED
  BY <1>1, DisplayInvHolds, InitCalls, PTL DEF DisplaySpec

LEMMA ToldHolds == NobodyIsZero /\ DisplaySpec => []ToldInv
<1> SUFFICES ASSUME NobodyIsZero PROVE DisplaySpec => []ToldInv
  OBVIOUS
<1>1. DisplayInv /\ (CallsInv /\ PutsDoneInv) /\ ServerInv /\ ToldInv /\ [DisplayNext]_vars => ToldInv'
  BY ToldStep
<1>2. DisplaySpec => []ServerInv
  BY ServerInSystem, ServerInvHolds
<1> QED
  BY <1>1, <1>2, CallsHold, DisplayInvHolds, InitTold, PTL DEF DisplaySpec

\* What get_1_svc gave out to a client, and moved its cursor past, the client was
\* told or will be, but for one message at most each time that the server ran a get
\* of it again; and it was told of no message that it was not given.
THEOREM ToldEach == NobodyIsZero /\ DisplaySpec => []ToldOfEachMessage
<1> SUFFICES ASSUME NobodyIsZero PROVE DisplaySpec => []ToldOfEachMessage
  OBVIOUS
<1>1. DisplayInv /\ (CallsInv /\ PutsDoneInv) /\ ServerInv /\ ToldInv => ToldOfEachMessage
  <2> SUFFICES ASSUME DisplayInv, CallsInv, ServerInv, ToldInv, DistinctIds, NEW c \in Client
               PROVE  LET given == Cardinality(reads[host_id[c]])
                          told == Cardinality(Told(c)) + Cardinality(SuccessInFlight(c))
                      IN  told <= given /\ given <= told + again[c]
    BY DEF ToldOfEachMessage
  <2>1. Cardinality(SuccessInFlight(c)) = IF SuccessComing(c) THEN 1 ELSE 0
    <3>1. \A r \in SuccessInFlight(c) : r = [to |-> c, xid |-> call[c], result |-> 0]
      BY DEF SuccessInFlight, CallsInv
    <3>2. CASE SuccessComing(c)
      <4>1. SuccessInFlight(c) = {[to |-> c, xid |-> call[c], result |-> 0]}
        BY <3>1, <3>2 DEF SuccessComing, SuccessInFlight
      <4> QED
        BY <3>2, <4>1, FS_Singleton
    <3>3. CASE ~ SuccessComing(c)
      <4>1. SuccessInFlight(c) = {}
        BY <3>3 DEF SuccessComing, SuccessInFlight
      <4> QED
        BY <3>3, <4>1, FS_EmptySet
    <3> QED
      BY <3>2, <3>3
  <2>2. /\ Cardinality(Told(c)) + (IF SuccessComing(c) THEN 1 ELSE 0) <= Cardinality(reads[host_id[c]])
        /\ Cardinality(reads[host_id[c]]) <= Cardinality(Told(c)) + again[c]
              + (IF SuccessComing(c) /\ ~ FailureComing(c) THEN 1 ELSE 0)
    BY DEF ToldInv
  <2>3. Cardinality(Told(c)) \in Nat /\ again[c] \in Nat /\ Cardinality(reads[host_id[c]]) \in Nat
    BY ToldFinite, ReadsFinite DEF CallsInv, DisplayInv, ClientsInv
  <2> QED
    BY <2>1, <2>2, <2>3
<1>2. DisplaySpec => []ServerInv
  BY ServerInSystem, ServerInvHolds
<1> QED
  BY <1>1, <1>2, ToldHolds, CallsHold, DisplayInvHolds, PTL

\* Where no put was refused, a get that began when all puts were done (main_client:
\* 2 * NUM_PUTS gets, three clients) finds nothing only if the server ran gets of
\* the client again, and then no more gets of it fail than were run again.
THEOREM GetsSucceed == NobodyIsZero /\ DisplaySpec => []EveryGetSucceeds
<1> SUFFICES ASSUME NobodyIsZero PROVE DisplaySpec => []EveryGetSucceeds
  OBVIOUS
<1>1. DisplaySpec => []ServerInv
  BY ServerInSystem, ServerInvHolds
<1>2. DisplayInv /\ (CallsInv /\ PutsDoneInv) /\ ServerInv /\ ServerInv' /\ FailedInv /\ [DisplayNext]_vars
        => FailedInv'
  BY FailedStep
<1>3. DisplaySpec => []FailedInv
  BY <1>1, <1>2, CallsHold, DisplayInvHolds, InitFailed, PTL DEF DisplaySpec
<1>4. DisplayInv /\ (CallsInv /\ PutsDoneInv) /\ ServerInv /\ ToldInv /\ FailedInv => EveryGetSucceeds
  <2> SUFFICES ASSUME DisplayInv, CallsInv, ServerInv, ToldInv, FailedInv,
                      DistinctIds, EnoughGets, AllAccepted,
                      NEW c \in Client, refused[c] \ early[c] # {}
               PROVE  Cardinality(refused[c]) <= again[c]
    BY DEF EveryGetSucceeds, EnoughGets, AllAccepted
  <2> DEFINE Over == NUM_PUTS + 1 .. call[c] - 1
             given == Cardinality(reads[host_id[c]])
  <2>1. NUM_GETS <= given
    BY DEF FailedInv, AllGot
  <2>2. given <= Cardinality(Told(c)) + again[c] + (IF SuccessComing(c) THEN 1 ELSE 0)
    <3>1. given <= Cardinality(Told(c)) + again[c]
                     + (IF SuccessComing(c) /\ ~ FailureComing(c) THEN 1 ELSE 0)
      BY DEF ToldInv
    <3>2. Cardinality(Told(c)) \in Nat /\ again[c] \in Nat /\ given \in Nat
      BY ToldFinite, ReadsFinite DEF CallsInv, DisplayInv, ClientsInv
    <3> QED
      BY <3>1, <3>2
  <2>3. /\ call[c] \in Nat \ {0} /\ NUM_PUTS \in Nat /\ IsFiniteSet(Over)
        /\ Cardinality(Over) = IF call[c] > NUM_PUTS + 1 THEN call[c] - 1 - NUM_PUTS ELSE 0
        /\ Cardinality(Told(c)) \in Nat
    BY ToldFinite
  <2>4. refused[c] \subseteq Over
    <3>1. refused[c] \subseteq 1 .. call[c] - 1 /\ refused[c] \cap (1 .. NUM_PUTS) = {}
      BY DEF CallsInv, AllAccepted
    <3> QED
      BY <2>3, <3>1
  <2>5. /\ IsFiniteSet(refused[c]) /\ Cardinality(refused[c]) \in Nat
        /\ Cardinality(Told(c)) = Cardinality(Over) - Cardinality(refused[c])
    <3>1. Over \cap refused[c] = refused[c]
      BY <2>4
    <3>2. Cardinality(Over \ refused[c]) = Cardinality(Over) - Cardinality(Over \cap refused[c])
      BY <2>3, FS_Difference
    <3>3. Told(c) = Over \ refused[c]
      BY DEF Told
    <3> HIDE DEF Over
    <3>4. IsFiniteSet(refused[c]) /\ Cardinality(refused[c]) \in Nat
      BY <2>3, <2>4, FS_Subset, FS_CardinalityType
    <3> QED
      BY <3>1, <3>2, <3>3, <3>4
  <2>6. Cardinality(Over) + (IF SuccessComing(c) THEN 1 ELSE 0) <= NUM_GETS
    <3>1. call[c] <= NUM_PUTS + NUM_GETS + 1 /\ NUM_GETS \in Nat \ {0}
      BY DisplayAssumption DEF CallsInv
    <3>2. SuccessComing(c) => call[c] > NUM_PUTS /\ call[c] <= NUM_PUTS + NUM_GETS
      BY DEF SuccessComing, CallsInv
    <3> HIDE DEF Over
    <3> QED
      BY <2>3, <3>1, <3>2
  <2>7. again[c] \in Nat /\ given \in Nat /\ NUM_GETS \in Nat /\ Cardinality(Over) \in Nat
    BY <2>3, ReadsFinite, FS_CardinalityType, DisplayAssumption DEF CallsInv, DisplayInv, ClientsInv
  <2> HIDE DEF Over, given
  <2> QED
    BY <2>1, <2>2, <2>3, <2>5, <2>6, <2>7
<1> QED
  BY <1>1, <1>3, <1>4, ToldHolds, CallsHold, DisplayInvHolds, PTL

=============================================================================
