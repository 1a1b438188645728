----------------------------- MODULE MCDisplay -----------------------------
(* Instances of Display for TLC. *)
EXTENDS Display

MCMessage == {Text(c, n) : c \in Client, n \in 1 .. NUM_PUTS}

\* Draws of ids: all, one that two clients share and one they do not, and those
\* without a collision.
AnyIds == [Client -> Id]
SharedOrNot ==
  {[c \in Client |-> 1], CHOOSE f \in AnyIds : \A c, d \in Client : f[c] = f[d] => c = d}
NoCollision == {f \in AnyIds : \A c, d \in Client : f[c] = f[d] => c = d}
=============================================================================
