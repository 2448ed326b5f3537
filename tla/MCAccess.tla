----------------------------- MODULE MCAccess ------------------------------
(***************************************************************************)
(* One user, two rooms and one connection, which is used again.            *)
(***************************************************************************)
EXTENDS Access, TLC

\* No action tells the rooms apart.
RoomSymmetry == Permutations(Rooms)
=============================================================================
