--------------------------- MODULE MCBarberSeats ---------------------------
(* Instances of BarberSeats for TLC. *)
EXTENDS BarberSeats

MCCustomer == 1 .. 3

\* Customers come at any time, so who is which number does not matter.
Rank(t) == CASE t = "tina" -> 1 [] t = "judy" -> 2 [] t = "dc" -> 3
MCKinds ==
  {f \in [MCCustomer -> Line] : \A c \in 1 .. 2 : Rank(f[c]) <= Rank(f[c + 1])}
=============================================================================
