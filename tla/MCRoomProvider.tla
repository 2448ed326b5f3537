-------------------------- MODULE MCRoomProvider ---------------------------
(***************************************************************************)
(* One provider, with one reconnect by hand, and the modal over it.        *)
(***************************************************************************)
EXTENDS LimitModal
=============================================================================
