---------------------------- MODULE MCMultiplex ----------------------------
(***************************************************************************)
(* Client adapter and server session together.                             *)
(***************************************************************************)
EXTENDS Multiplex
=============================================================================
