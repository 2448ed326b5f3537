------------------------ MODULE MCConnectionLimits -------------------------
(***************************************************************************)
(* Three users, two of them with two tabs; places for four connections,    *)
(* one of them kept as buffer, and for two users.                          *)
(***************************************************************************)
EXTENDS ConnectionLimits, TLC

CONSTANTS c1, c2, c3, c4, c5, u1, u2, u3

MCUserOf == c1 :> u1 @@ c2 :> u1 @@ c3 :> u2 @@ c4 :> u2 @@ c5 :> u3

SocketSymmetry == Permutations(Sockets)
=============================================================================
