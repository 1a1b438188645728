--------------------------- MODULE DisplayServer ---------------------------
(***************************************************************************)
(* as7, main_server.c: the two remote procedures put and get and the       *)
(* global arrays they share.  svc_run serves one request at a time, so a   *)
(* procedure is one step.                                                  *)
(*                                                                         *)
(* A client is known to the server by the id in its requests.  An unused   *)
(* slot of client_list holds the 0 of C's static storage, which is also a  *)
(* possible id.                                                            *)
(***************************************************************************)
EXTENDS Integers, FiniteSets

CONSTANTS
  Id,           \* ids of the clients that use the server
  Message,      \* the texts they put
  MSG_LIMIT,    \* messages the server stores: 15 in the code
  MAX_CLIENTS   \* size of client_list: 3 in the code

\* With more clients put writes past the end of client_list.
ASSUME ServerAssumption ==
  /\ Id \subseteq Nat /\ IsFiniteSet(Id)
  /\ MSG_LIMIT \in Nat
  /\ MAX_CLIENTS \in Nat
  /\ Cardinality(Id) <= MAX_CLIENTS

VARIABLES
  client_msgs,          \* the texts, by position
  client_msg_ids,       \* their authors, by position; -1 if there is none
  curr_index,           \* messages stored
  curr_client,          \* clients in the list
  client_list,          \* their ids, by slot
  curr_client_indices,  \* by slot, the position of the last message got
  reads                 \* history: by id, the positions given to it

serverVars == <<client_msgs, client_msg_ids, curr_index, curr_client,
                client_list, curr_client_indices, reads>>

Index == 0 .. MSG_LIMIT - 1
Slot == 0 .. MAX_CLIENTS - 1

NoMessage == <<>>   \* the empty text of static storage

ServerInit ==
  /\ client_msgs = [k \in Index |-> NoMessage]
  /\ client_msg_ids = [k \in Index |-> -1]
  /\ curr_index = 0
  /\ curr_client = 0
  /\ client_list = [s \in Slot |-> 0]
  /\ curr_client_indices = [s \in Slot |-> -1]
  /\ reads = [id \in Id |-> {}]

Least(S) == CHOOSE x \in S : \A y \in S : x <= y

\* The slots the search loop can stop at, and the one it stops at.
Slots(id) == {s \in Slot : client_list[s] = id}
SlotOf(id) == Least(Slots(id))

\* Mutants: a client gets its own messages too; the search starts one too late.
UnreadOwnToo(id) ==
  {k \in Index : /\ Slots(id) # {} /\ k > curr_client_indices[SlotOf(id)]
                 /\ client_msg_ids[k] >= 0}

UnreadPastNext(id) ==
  {k \in Index : /\ Slots(id) # {} /\ k > curr_client_indices[SlotOf(id)] + 1
                 /\ client_msg_ids[k] # id
                 /\ client_msg_ids[k] >= 0}

\* The positions the second loop of get may stop at.
Unread(id) ==
  {k \in Index : /\ Slots(id) # {} /\ k > curr_client_indices[SlotOf(id)]
                 /\ client_msg_ids[k] # id
                 /\ client_msg_ids[k] >= 0}

-----------------------------------------------------------------------------

\* Mutant: no break at the first hit, the last one is taken.
GetLast(id) ==
  /\ Unread(id) # {}
  /\ LET k == CHOOSE x \in Unread(id) : \A y \in Unread(id) : y <= x
     IN  /\ curr_client_indices' = [curr_client_indices EXCEPT ![SlotOf(id)] = k]
         /\ reads' = [reads EXCEPT ![id] = @ \cup {k}]
  /\ UNCHANGED <<client_msgs, client_msg_ids, curr_index, curr_client, client_list>>

\* get finds a message of somebody else.
GetFound(id) ==
  /\ Unread(id) # {}
  /\ LET k == Least(Unread(id))
     IN  /\ curr_client_indices' = [curr_client_indices EXCEPT ![SlotOf(id)] = k]
         /\ reads' = [reads EXCEPT ![id] = @ \cup {k}]
  /\ UNCHANGED <<client_msgs, client_msg_ids, curr_index, curr_client, client_list>>

GetNothing(id) ==
  /\ Unread(id) = {}
  /\ UNCHANGED serverVars

\* Mutant: the status is not set on success.
get_unreported(id, result) == result = -1 /\ (GetFound(id) \/ GetNothing(id))

get_1_svc(id, result) ==
  \/ result = 0 /\ GetFound(id)
  \/ result = -1 /\ GetNothing(id)

\* Mutant: the list is not searched for the client first.
AddAlways(id) ==
  /\ client_list' = [client_list EXCEPT ![curr_client] = id]
  /\ curr_client' = curr_client + 1

\* An id the list does not have goes to its next slot.
AddClient(id) ==
  IF Slots(id) # {}
  THEN UNCHANGED <<curr_client, client_list>>
  ELSE /\ client_list' = [client_list EXCEPT ![curr_client] = id]
       /\ curr_client' = curr_client + 1

\* Mutant: off by one in the bound.
PutStoredPastEnd(id, m) ==
  /\ curr_index <= MSG_LIMIT
  /\ client_msgs' = [client_msgs EXCEPT ![curr_index] = m]
  /\ client_msg_ids' = [client_msg_ids EXCEPT ![curr_index] = id]
  /\ AddClient(id)
  /\ curr_index' = curr_index + 1
  /\ UNCHANGED <<curr_client_indices, reads>>

PutStored(id, m) ==
  /\ curr_index < MSG_LIMIT
  /\ client_msgs' = [client_msgs EXCEPT ![curr_index] = m]
  /\ client_msg_ids' = [client_msg_ids EXCEPT ![curr_index] = id]
  /\ AddClient(id)
  /\ curr_index' = curr_index + 1
  /\ UNCHANGED <<curr_client_indices, reads>>

\* Mutant: off by one, the last place is never used.
PutRefusedOneEarly == curr_index >= MSG_LIMIT - 1 /\ UNCHANGED serverVars

PutRefused == curr_index >= MSG_LIMIT /\ UNCHANGED serverVars

put_1_svc(id, m, result) ==
  \/ result = 0 /\ PutStored(id, m)
  \/ result = -1 /\ PutRefused

Result == {0, -1}

ServerNext ==
  \E id \in Id, result \in Result :
    \/ get_1_svc(id, result)
    \/ \E m \in Message : put_1_svc(id, m, result)

ServerSpec == ServerInit /\ [][ServerNext]_serverVars

-----------------------------------------------------------------------------
(* Properties *)

ServerTypeOK ==
  /\ client_msgs \in [Index -> Message \cup {NoMessage}]
  /\ client_msg_ids \in [Index -> Id \cup {-1}]
  /\ curr_index \in 0 .. MSG_LIMIT
  /\ curr_client \in 0 .. MAX_CLIENTS
  /\ client_list \in [Slot -> Id \cup {0}]
  /\ curr_client_indices \in [Slot -> Index \cup {-1}]
  /\ reads \in [Id -> SUBSET Index]

\* The ids that have a slot of their own.
Listed == {client_list[s] : s \in {t \in Slot : t < curr_client}}

\* A client has at most one slot, however often it calls, so that the search
\* finds the cursor it used the last time; and it has one as soon as a message
\* of it is stored (put_1_svc, main_server.c:150-177).
OneSlotEach ==
  /\ Cardinality(Listed) = curr_client
  /\ Listed = {client_msg_ids[k] : k \in {j \in Index : j < curr_index}}

\* "track msg indices for each client" (main_server.c:31): the cursor in a
\* client's slot is the position of the last message this client got.
OwnCursor ==
  \A s \in Slot :
    s < curr_client =>
      curr_client_indices[s] =
        IF reads[client_list[s]] = {} THEN -1
        ELSE CHOOSE k \in reads[client_list[s]] :
               \A j \in reads[client_list[s]] : j <= k

\* A client has got every message of the others up to its cursor, and none of
\* its own.
NothingSkipped ==
  \A s \in Slot :
    s < curr_client =>
      reads[client_list[s]] =
        {k \in Index : /\ k <= curr_client_indices[s]
                       /\ client_msg_ids[k] # client_list[s]}

-----------------------------------------------------------------------------
(* Refinement: the server is a message board, as long as nobody has the id  *)
(* 0 of the unused slots.                                                   *)

Board == INSTANCE MessageBoard WITH
  Limit <- MSG_LIMIT,
  board <- [k \in 1 .. curr_index |->
              [id |-> client_msg_ids[k - 1], message |-> client_msgs[k - 1]]],
  place <- [id \in Id |-> IF id \in Listed THEN curr_client_indices[SlotOf(id)] + 1 ELSE 0]

ImplementsBoard == Board!Spec

=============================================================================
