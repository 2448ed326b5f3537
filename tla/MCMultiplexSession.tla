------------------------ MODULE MCMultiplexSession -------------------------
(***************************************************************************)
(* One server session against a peer that may send any message.  No        *)
(* symmetry on the rooms: the run checks a temporal property.              *)
(***************************************************************************)
EXTENDS MultiplexSession
=============================================================================
