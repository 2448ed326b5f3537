----------------------------- MODULE LimitModal -----------------------------
(***************************************************************************)
(* The modal of the connection limits, over the statuses of a room's       *)
(* provider, and the upgrade request it offers at the collaborator limit.  *)
(*                                                                         *)
(* React is external: the effect on connectionStatus has run before the    *)
(* next event of the socket, the user or a request.                        *)
(***************************************************************************)
EXTENDS RoomProvider

CONSTANT MaxRequests   \* bound on the upgrade requests in flight

ASSUME MaxRequestsAssumption == MaxRequests \in Nat

VARIABLES
  showModal,
  upgradeState,     \* "idle", "submitting" or "success"
  requests,         \* upgrade requests in flight
  telemetryFired    \* telemetryFired.current

modalVars == <<showModal, upgradeState, requests, telemetryFired>>

\* CUSTOM_MODAL_ERROR_CODES
CustomModalErrors == {"connectionLimit", "collaboratorLimit", "roomLimit"}

\* isUpgradeLimit
UpgradeLimit == shown = "collaboratorLimit"

\* isSuccess: the dialog says that the request has been sent.
SaysRequestSent == showModal /\ UpgradeLimit /\ upgradeState = "success"

ModalInit ==
  /\ Init
  /\ showModal = FALSE /\ upgradeState = "idle"
  /\ requests = 0 /\ telemetryFired = FALSE

\* The effects on connectionStatus and on showModal.
StatusShown ==
  /\ showModal' = \/ shown' \in CustomModalErrors
                  \/ shown' \notin Errors \cup {"connected"} /\ showModal
  /\ upgradeState' = IF shown' = "connected" THEN "idle" ELSE upgradeState
  /\ telemetryFired' = (telemetryFired \/ (showModal' /\ UpgradeLimit'))
  /\ UNCHANGED requests

ProviderStep ==
  /\ Next
  /\ IF shown' # shown THEN StatusShown ELSE UNCHANGED modalVars

\* handleUpgradeClick: the button is there, and not disabled.
UpgradeClick ==
  /\ showModal /\ UpgradeLimit /\ upgradeState = "idle"
  /\ requests < MaxRequests
  /\ requests' = requests + 1
  /\ upgradeState' = "submitting"
  /\ UNCHANGED <<vars, showModal, telemetryFired>>

\* submitUpgradeTicket answers: 'submitted', or 'mailto' when there is no
\* handler, it refuses or it cannot be reached.
UpgradeAnswered ==
  /\ requests > 0 /\ requests' = requests - 1
  /\ upgradeState' \in {"success", "idle"}
  /\ UNCHANGED <<vars, showModal, telemetryFired>>

ModalNext == ProviderStep \/ UpgradeClick \/ UpgradeAnswered

ModalSpec == ModalInit /\ [][ModalNext]_<<vars, modalVars>> /\ Fairness

-----------------------------------------------------------------------------
\* While the modal is up the last status is the error it is about: a socket
\* that is accepted only to be refused again neither closes it nor leaves it
\* without an error, which it would show as the wrong limit; and no other
\* error, for which Gutenberg has its own modal, is hidden behind it.
ModalNamesItsLimit == showModal => shown \in CustomModalErrors

\* "Reset so a later limit in the same session starts from a clean dialog
\* rather than reopening on the stale "Request sent" view"
\* (collaboration-limit-modal.tsx:125).
LaterLimitStartsClean ==
  [][~showModal => ~SaysRequestSent']_<<vars, modalVars>>
=============================================================================
