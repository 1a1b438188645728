--------------------------- MODULE MessageBoard ---------------------------
(***************************************************************************)
(* What the display server of as7 promises: one board of messages in the   *)
(* order they were put up, and for each client a place on it.  A get moves *)
(* the client to the next message of somebody else; nothing is skipped,    *)
(* nothing is given twice.                                                 *)
(***************************************************************************)
EXTENDS Naturals, Sequences

CONSTANTS
  Id,        \* the ids of the clients
  Message,   \* what they may put up
  Limit      \* messages the board holds

VARIABLES
  board,     \* the messages, each with the id of its author
  place      \* how far each client has read, 0 before the first message

vars == <<board, place>>

Init ==
  /\ board = <<>>
  /\ place = [c \in Id |-> 0]

Put(c, m) ==
  /\ Len(board) < Limit
  /\ board' = Append(board, [id |-> c, message |-> m])
  /\ UNCHANGED place

\* Only a client that has put something up may read.
Get(c) ==
  /\ \E k \in DOMAIN board : board[k].id = c
  /\ \E k \in DOMAIN board :
       /\ k > place[c] /\ board[k].id # c
       /\ \A j \in DOMAIN board : place[c] < j /\ j < k => board[j].id = c
       /\ place' = [place EXCEPT ![c] = k]
  /\ UNCHANGED board

Next == \E c \in Id : Get(c) \/ \E m \in Message : Put(c, m)

Spec == Init /\ [][Next]_vars

=============================================================================
