------------------------------ MODULE Display ------------------------------
(***************************************************************************)
(* as7 as a whole: the clients of main_client.c call the server through    *)
(* Sun RPC over UDP (main_clnt.c, main_svc.c).  A client makes NUM_PUTS    *)
(* puts and NUM_GETS gets, one at a time; the calls are numbered, and the  *)
(* number stands for the transaction id by which the library finds the     *)
(* reply.  The library sends a request again while no reply comes, and     *)
(* gives up after the 25 seconds of TIMEOUT; the network may lose, delay   *)
(* and reorder datagrams (a lost one is one that nobody ever takes).  The  *)
(* pauses between the calls are left out: no property may rely on them.    *)
(***************************************************************************)
EXTENDS DisplayServer, Bags

CONSTANTS
  Client,         \* the processes that run main_client
  HostIds,        \* the draws of rand() % 101, as functions from Client to Id
  NUM_PUTS,       \* puts of a client: 5 in the code
  NUM_GETS,       \* its gets: 2 * NUM_PUTS in the code
  MaxResends,     \* bound: times the library sends a request of a client again
  MayLose,        \* whether the network may be one that loses datagrams
  FortuneMayFail  \* whether fortune may fail to give a text

\* The n-th text of client c.
Text(c, n) == <<c, n>>

ASSUME DisplayAssumption ==
  /\ IsFiniteSet(Client) /\ HostIds \subseteq [Client -> Id]
  /\ NUM_PUTS \in Nat \ {0} /\ NUM_GETS \in Nat \ {0} /\ MaxResends \in Nat
  /\ MayLose \in BOOLEAN /\ FortuneMayFail \in BOOLEAN
  /\ Message = {Text(c, n) : c \in Client, n \in 1 .. NUM_PUTS}

VARIABLES
  host_id,    \* each client's id
  status,     \* what each client is doing
  call,       \* the number of its current or next call
  resends,    \* times a request of each client was sent again
  requests,   \* the bag of datagrams on their way to the server
  replies,    \* and on their way back
  lossy,      \* whether datagrams get lost and calls time out
  refused,    \* the calls of a client that were answered with a failure
  early,      \* history: its gets that began before all puts were done
  again       \* history: how many of its gets the server ran once more

clientVars == <<host_id, status, call, resends, refused, early>>
vars == <<serverVars, clientVars, requests, replies, lossy, again>>

Putting(c) == call[c] <= NUM_PUTS

DisplayInit ==
  /\ ServerInit
  /\ host_id \in HostIds
  /\ status = [c \in Client |-> "ready"]
  /\ call = [c \in Client |-> 1]
  /\ resends = [c \in Client |-> 0]
  /\ requests = EmptyBag
  /\ replies = {}
  /\ lossy \in {FALSE, MayLose}
  /\ refused = [c \in Client |-> {}]
  /\ early = [c \in Client |-> {}]
  /\ again = [c \in Client |-> 0]

-----------------------------------------------------------------------------
(* A client *)

Send(c) == requests' = requests (+) SetToBag({[from |-> c, xid |-> call[c]]})

\* put_1 or get_1 is called.
Call(c) ==
  /\ status[c] = "ready"
  /\ status' = [status EXCEPT ![c] = "calling"]
  /\ Send(c)
  /\ early' = IF ~ Putting(c) /\ \E d \in Client : Putting(d)
              THEN [early EXCEPT ![c] = @ \cup {call[c]}] ELSE early
  /\ UNCHANGED <<serverVars, host_id, call, resends, replies, lossy, refused, again>>

\* get_random_string returns NULL, which strcpy does not survive.
GenerateFails(c) ==
  /\ FortuneMayFail
  /\ status[c] = "ready" /\ Putting(c)
  /\ status' = [status EXCEPT ![c] = "crashed"]
  /\ UNCHANGED <<serverVars, host_id, call, resends, requests, replies, lossy, refused, early, again>>

Retransmit(c) ==
  /\ status[c] = "calling"
  /\ resends[c] < MaxResends
  /\ Send(c)
  /\ resends' = [resends EXCEPT ![c] = @ + 1]
  /\ UNCHANGED <<serverVars, host_id, status, call, replies, lossy, refused, early, again>>

\* Mutant: any reply is taken for that of the current call.
ReceiveAny(c, r) ==
  /\ status[c] = "calling"
  /\ r.to = c
  /\ replies' = {x \in replies : x.to = c => x.xid > r.xid}
  /\ refused' = IF r.result = 0 THEN refused ELSE [refused EXCEPT ![c] = @ \cup {call[c]}]
  /\ call' = [call EXCEPT ![c] = @ + 1]
  /\ status' = [status EXCEPT ![c] = IF call[c] = NUM_PUTS + NUM_GETS THEN "done" ELSE "ready"]
  /\ UNCHANGED <<serverVars, host_id, resends, requests, lossy, early, again>>

\* The reply to the current call comes in, and the library has thrown away those
\* to earlier ones; the client prints the result and goes on to its next call.
Receive(c, r) ==
  /\ status[c] = "calling"
  /\ r.to = c /\ r.xid = call[c]
  /\ replies' = {x \in replies : x.to = c => x.xid > r.xid}
  /\ refused' = IF r.result = 0 THEN refused ELSE [refused EXCEPT ![c] = @ \cup {r.xid}]
  /\ call' = [call EXCEPT ![c] = @ + 1]
  /\ status' = [status EXCEPT ![c] = IF call[c] = NUM_PUTS + NUM_GETS THEN "done" ELSE "ready"]
  /\ UNCHANGED <<serverVars, host_id, resends, requests, lossy, early, again>>

\* Mutant: the client goes on to its next call.
TimeoutNext(c) ==
  /\ lossy
  /\ status[c] = "calling" /\ call[c] < NUM_PUTS + NUM_GETS
  /\ status' = [status EXCEPT ![c] = "ready"]
  /\ call' = [call EXCEPT ![c] = @ + 1]
  /\ UNCHANGED <<serverVars, host_id, resends, requests, replies, lossy, refused, early, again>>

\* clnt_call gives up: the client reports it and then prints *result all the
\* same, through a null pointer.
Timeout(c) ==
  /\ lossy
  /\ status[c] = "calling"
  /\ status' = [status EXCEPT ![c] = "crashed"]
  /\ UNCHANGED <<serverVars, host_id, call, resends, requests, replies, lossy, refused, early, again>>

-----------------------------------------------------------------------------
(* The server and the network *)

\* This call was served before: the reply is on its way, or was taken.
Answered(q) ==
  q.xid < call[q.from] \/ \E r \in replies : r.to = q.from /\ r.xid = q.xid

CountAgain(q) ==
  again' = IF q.xid > NUM_PUTS /\ Answered(q)
           THEN [again EXCEPT ![q.from] = @ + 1] ELSE again

\* Mutant: the result is not sent.
ServeSilently(q) ==
  /\ \E result \in Result :
       IF q.xid <= NUM_PUTS
       THEN put_1_svc(host_id[q.from], Text(q.from, q.xid), result)
       ELSE get_1_svc(host_id[q.from], result)
  /\ requests' = requests (-) SetToBag({q})
  /\ CountAgain(q)
  /\ UNCHANGED <<clientVars, replies, lossy>>

\* display_prg_1 takes a request, runs the procedure and sends the result.
\* It keeps no record of the calls it has already served.
Serve(q) ==
  /\ \E result \in Result :
       /\ IF q.xid <= NUM_PUTS
          THEN put_1_svc(host_id[q.from], Text(q.from, q.xid), result)
          ELSE get_1_svc(host_id[q.from], result)
       /\ replies' = replies \cup {[to |-> q.from, xid |-> q.xid, result |-> result]}
  /\ requests' = requests (-) SetToBag({q})
  /\ CountAgain(q)
  /\ UNCHANGED <<clientVars, lossy>>

ClientStep(c) == Call(c) \/ (\E r \in replies : Receive(c, r)) \/ Timeout(c)

DisplayNext ==
  \/ \E c \in Client : ClientStep(c) \/ Retransmit(c) \/ GenerateFails(c)
  \/ \E q \in BagToSet(requests) : Serve(q)

DisplaySpec == DisplayInit /\ [][DisplayNext]_vars

\* The clients run, TIMEOUT is a clock, and svc_run serves what arrives: if
\* datagrams get lost, nothing need arrive.
DisplayFairSpec ==
  /\ DisplaySpec
  /\ \A c \in Client : WF_vars(ClientStep(c))
  /\ WF_vars(~ lossy /\ \E q \in BagToSet(requests) : Serve(q))

-----------------------------------------------------------------------------
(* Properties *)

Stored(c, n) == {k \in Index : k < curr_index /\ client_msgs[k] = Text(c, n)}

\* The puts that a client was told are on the server.
Acknowledged(c) == {n \in 1 .. NUM_PUTS : n < call[c]} \ refused[c]

\* A put that was acknowledged is stored, under the id of its client: no reply
\* is taken for that of another call, whatever the network does.
AcknowledgedAreStored ==
  \A c \in Client : \A n \in Acknowledged(c) :
    \E k \in Stored(c, n) : client_msg_ids[k] = host_id[c]

\* The messages of a client are first stored in the order it put them, and none
\* before its predecessor; copies of a request that come late can only repeat.
FirstCopiesInOrder ==
  \A c \in Client : \A n \in 2 .. NUM_PUTS :
    \A k \in Stored(c, n) : \E j \in Stored(c, n - 1) :
      j < Least(Stored(c, n)) /\ j < k

DistinctIds == \A c, d \in Client : host_id[c] = host_id[d] => c = d

\* The copies on the server: texts that are stored at an earlier position too.
Copies == {k \in Index : /\ k < curr_index
                         /\ \E j \in Index : j < k /\ client_msgs[j] = client_msgs[k]}

\* The puts that were refused without the server having the message.
TurnedAway ==
  {x \in Client \X (1 .. NUM_PUTS) : x[2] \in refused[x[1]] /\ Stored(x[1], x[2]) = {}}

\* The server has no room for a message only if a request that came again has
\* taken its place: where all messages fit, each that is turned away is paid
\* for by a copy of another.
RoomTakenByCopies ==
  Cardinality(Message) <= MSG_LIMIT => Cardinality(TurnedAway) <= Cardinality(Copies)

\* The gets that a client was told gave a message, and the results on their way
\* to it that say so of its current get.
Told(c) == (NUM_PUTS + 1 .. call[c] - 1) \ refused[c]
SuccessInFlight(c) ==
  {r \in replies : r.to = c /\ r.xid = call[c] /\ r.xid > NUM_PUTS /\ r.result = 0}

\* Each success that a client is told of is a message given to its id, and a
\* message is given out without the client being told of it only when the server
\* runs again a get it has run: at most one is passed over each time.
ToldOfEachMessage ==
  DistinctIds =>
    \A c \in Client :
      LET given == Cardinality(reads[host_id[c]])
          told == Cardinality(Told(c)) + Cardinality(SuccessInFlight(c))
      IN  told <= given /\ given <= told + again[c]

\* 2 * NUM_PUTS gets are just what the other two of three clients put.  Where no
\* put was refused, a client is told that there is nothing at a get it began when
\* all puts were done only if the server ran gets of it again, and then it is told
\* so at no more gets than were run again, early ones included.
EveryGetSucceeds ==
  /\ DistinctIds /\ NUM_GETS <= NUM_PUTS * (Cardinality(Client) - 1)
  /\ \A c \in Client : refused[c] \cap (1 .. NUM_PUTS) = {}
  => \A c \in Client :
       refused[c] \ early[c] # {} => Cardinality(refused[c]) <= again[c]

\* Every client comes to an end: it makes all its calls, or fortune gives it no
\* text, or the network loses datagrams and it gives up.
EverybodyStops ==
  <>[](\A c \in Client :
         \/ status[c] = "done"
         \/ status[c] = "crashed" /\ (lossy \/ Putting(c)))

=============================================================================
