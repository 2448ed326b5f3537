------------------------ MODULE InspectorConnection ------------------------
(***************************************************************************)
(* How the Yjs inspector connects the document it shows to a server        *)
(* (yjs-inspector/src/components/connect-button.tsx, connect-dialog.tsx).  *)
(*                                                                         *)
(* Documents and providers are numbered in the order they are created;     *)
(* document 0 is the default one.  A callback keeps the connect state of   *)
(* the render that made it: a Blocksuite connection, awaited before        *)
(* onConnect is called, carries the state it was clicked in as "held".     *)
(* Renders follow state changes at once; the effect that disconnects when  *)
(* the document changes is an action, since other callbacks may come first.*)
(***************************************************************************)
EXTENDS Naturals, FiniteSets

CONSTANTS Kinds,        \* the provider choices offered by the dialog
          Injected,     \* does the page URL carry connection details?
          MaxDocs,      \* bound: documents created
          MaxConnects,  \* bound: connections attempted
          MaxLoads,     \* bound: documents being loaded at once
          None          \* no provider

Providers == [id : Nat, kind : Kinds, doc : Nat]

ASSUME NoneAssumption == None \notin Providers
ASSUME KindsAssumption == Kinds \subseteq {"websocket", "hocuspocus", "blocksuite"}

VARIABLES yDoc,          \* the document shown
          docs,          \* documents created so far
          connects,      \* connections attempted so far
          connectState,  \* "disconnected", "connecting" or "connected"
          provider,      \* the provider shown, or None
          open,          \* is the connect dialog open?
          opening,       \* Blocksuite sockets awaited
          running,       \* providers that exchange updates
          syncing,       \* providers whose first sync is awaited
          loads,         \* documents being read from a file or a URL
          autoConnectTried

connectVars == <<yDoc, docs, connects, connectState, provider, open, opening,
                 running, syncing, loads, autoConnectTried>>

ConnectInit ==
  /\ yDoc = 0 /\ docs = 0 /\ connects = 0 /\ loads = 0
  /\ connectState = "disconnected" /\ provider = None /\ open = FALSE
  /\ opening = {} /\ running = {} /\ syncing = {}
  /\ autoConnectTried = FALSE

(***************************************************************************)
(* setYDoc: a new document replaces the shown one, which is destroyed.     *)
(***************************************************************************)
ShowNewDoc == docs < MaxDocs /\ docs' = docs + 1 /\ yDoc' = docs + 1

(* The y-websocket provider connects in its constructor, the others when asked. *)
RunsOnceBuilt(p) == p.kind = "websocket"

(* The Blocksuite provider is built on a socket that is open already. *)
AwaitsItsSocket(kind) == kind = "blocksuite"

(***************************************************************************)
(* onConnect.  A guard on the held state throws; a provider that connects  *)
(* in its constructor runs even then.                                      *)
(***************************************************************************)
Adopt(p) ==
  /\ running' = running \union {p} /\ syncing' = syncing \union {p}
  /\ connectState' = "connecting" /\ provider' = p /\ open' = FALSE

OnConnect(p, held) ==
  \/ held = "disconnected" /\ Adopt(p)
  \/ /\ held # "disconnected"
     /\ running' = IF RunsOnceBuilt(p) THEN running \union {p} ELSE running
     /\ UNCHANGED <<syncing, connectState, provider, open>>

(* A disconnect that forgets to stop the provider. *)
DisconnectUnstopped ==
  /\ provider' = None /\ connectState' = "disconnected"
  /\ UNCHANGED <<running, syncing>>

Disconnect ==
  /\ running' = running \ {provider} /\ syncing' = syncing \ {provider}
  /\ provider' = None /\ connectState' = "disconnected"

-----------------------------------------------------------------------------
ClickConnectButton ==
  /\ ~open
  /\ \/ /\ connectState = "disconnected"
        /\ open' = TRUE
        /\ UNCHANGED <<connectState, provider, running, syncing>>
     \/ /\ connectState # "disconnected"
        /\ Disconnect
        /\ UNCHANGED open
  /\ UNCHANGED <<yDoc, docs, connects, opening, loads, autoConnectTried>>

CloseDialog ==
  /\ open /\ open' = FALSE
  /\ UNCHANGED <<yDoc, docs, connects, connectState, provider, opening,
                 running, syncing, loads, autoConnectTried>>

(* The dialog's Connect button, for a new document or for the shown one. *)
DialogConnect(kind, needCreateNewDoc) ==
  /\ open /\ connects < MaxConnects /\ connects' = connects + 1
  /\ IF needCreateNewDoc THEN ShowNewDoc ELSE UNCHANGED <<yDoc, docs>>
  /\ LET p == [id |-> connects', kind |-> kind, doc |-> yDoc'] IN
       \/ /\ AwaitsItsSocket(kind)
          /\ opening' = opening \union {[provider |-> p, held |-> connectState]}
          /\ UNCHANGED <<connectState, provider, open, running, syncing>>
       \/ /\ ~AwaitsItsSocket(kind)
          /\ OnConnect(p, connectState)
          /\ UNCHANGED opening
  /\ UNCHANGED <<loads, autoConnectTried>>

BlocksuiteOpens(a) ==
  /\ OnConnect(a.provider, a.held)
  /\ opening' = opening \ {a}
  /\ UNCHANGED <<yDoc, docs, connects, loads, autoConnectTried>>

BlocksuiteFails(a) ==
  /\ opening' = opening \ {a}
  /\ UNCHANGED <<yDoc, docs, connects, connectState, provider, open, running,
                 syncing, loads, autoConnectTried>>

(* waitForSynced resolves: the state is set whichever provider is shown. *)
Synced(p) ==
  /\ syncing' = syncing \ {p} /\ connectState' = "connected"
  /\ UNCHANGED <<yDoc, docs, connects, provider, open, opening, running, loads,
                 autoConnectTried>>

DisconnectWhenDocChanges ==
  /\ connectState # "disconnected" /\ provider # None /\ provider.doc # yDoc
  /\ Disconnect
  /\ UNCHANGED <<yDoc, docs, connects, open, opening, loads, autoConnectTried>>

(* The timer of the auto-connect effect; its cleanup clears it whenever the *)
(* connect state changes, so it fires in the state it was set in.           *)
AutoConnect ==
  /\ Injected /\ ~autoConnectTried /\ connectState = "disconnected"
  /\ autoConnectTried' = TRUE
  /\ connects < MaxConnects /\ connects' = connects + 1
  /\ ShowNewDoc
  /\ Adopt([id |-> connects', kind |-> "websocket", doc |-> yDoc'])
  /\ UNCHANGED <<opening, loads>>

(* A file or a URL is read, or dropped on the page, while anything happens. *)
LoadStarts ==
  /\ loads < MaxLoads /\ loads' = loads + 1
  /\ UNCHANGED <<yDoc, docs, connects, connectState, provider, open, opening,
                 running, syncing, autoConnectTried>>

LoadEnds ==
  /\ loads > 0 /\ loads' = loads - 1
  /\ ShowNewDoc \/ UNCHANGED <<yDoc, docs>>
  /\ UNCHANGED <<connects, connectState, provider, open, opening, running,
                 syncing, autoConnectTried>>

CreateNewDoc ==
  /\ ~open /\ ShowNewDoc
  /\ UNCHANGED <<connects, connectState, provider, open, opening, running,
                 syncing, loads, autoConnectTried>>

ConnectClicks ==
  \/ ClickConnectButton \/ CreateNewDoc
  \/ \E kind \in Kinds, new \in BOOLEAN : DialogConnect(kind, new)

ConnectCallbacks ==
  \/ CloseDialog \/ AutoConnect \/ LoadStarts \/ LoadEnds
  \/ DisconnectWhenDocChanges
  \/ \E a \in opening : BlocksuiteOpens(a) \/ BlocksuiteFails(a)
  \/ \E p \in syncing : Synced(p)

-----------------------------------------------------------------------------
(***************************************************************************)
(* The provider shown stops being shown while it still runs only when a    *)
(* Blocksuite socket that was awaited meanwhile takes its place: the       *)
(* synchronous providers, the auto-connect timer and a document loaded     *)
(* under a connection never leave one behind (connect-button.tsx 21-61).   *)
(***************************************************************************)
OnlyALateOpenStraysAProvider ==
  [][provider # None /\ provider' # provider /\ provider \in running'
       => provider' # None /\ provider'.kind = "blocksuite"]_connectVars
=============================================================================
