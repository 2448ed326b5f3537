--------------------------- MODULE MCRoomPresence ---------------------------
(***************************************************************************)
(* Ann with one tab, Bob with two, and one process that asks who is there. *)
(***************************************************************************)
EXTENDS RoomPresence, TLC

MCTabs == {"ann", "bob1", "bob2"}
MCQueries == {"query"}
MCUserOf == "ann" :> "Ann" @@ "bob1" :> "Bob" @@ "bob2" :> "Bob"
MCBeats == "ann" :> 2 @@ "bob1" :> 2 @@ "bob2" :> 1 @@ "query" :> 1

\* Bob alone, whose first tab reports twice.
BobsTabs == {"bob1", "bob2"}
BobsBeats == "bob1" :> 2 @@ "bob2" :> 1
=============================================================================
