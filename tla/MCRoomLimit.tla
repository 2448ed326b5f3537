---------------------------- MODULE MCRoomLimit ----------------------------
(***************************************************************************)
(* Three tabs, two of them of one browser, and a limit that one of them is *)
(* past.  Their clocks tie, differ or are missing: the lone tab or one of  *)
(* the two comes last, and with missing times the lone tab first.          *)
(***************************************************************************)
EXTENDS RoomLimit

Tabs == 1 .. 3
Alone == 3
Clocks == {0, Infinity}
BrowserOf == [c \in Tabs |-> IF c = Alone THEN "laptop" ELSE "desktop"]

AloneComesFirst == joinedAt = <<Infinity, Infinity, 0>>

MCInit ==
  LimitInit /\ (joinedAt \in {<<0, 0, Infinity>>, <<0, Infinity, 0>>} \/ AloneComesFirst)

\* Bound: any one of two tabs fails, is refused or closes; of three tabs only
\* the lone one fails, where it comes first and once all three know of each other
\* and none of them has yielded.
FailureBound ==
  /\ drops' > drops =>
       \/ \E c \in Tabs : conn[c] = "away"
       \/ /\ AloneComesFirst /\ conn'[Alone] = "closed"
          /\ \A c \in Tabs : conn[c] = "connected" /\ Known(c) = Tabs
  /\ drops > 0 => \A c \in Tabs : conn[c] = "away" => conn'[c] = "away"

MCSpec == MCInit /\ [][LimitNext]_limitVars /\ WF_limitVars(Settle)
=============================================================================
