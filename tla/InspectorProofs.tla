-------------------------- MODULE InspectorProofs --------------------------
(***************************************************************************)
(* The inspector page, for every choice of providers, every document and   *)
(* all bounds.                                                             *)
(*                                                                         *)
(* A provider is adopted only while the page says "disconnected", and it   *)
(* says so only when it shows none.  A Blocksuite connection alone is      *)
(* adopted on the strength of a state that is no longer the present one.   *)
(***************************************************************************)
EXTENDS Inspector, SequenceTheorems, WellFoundedInduction, TLAPS

\* The page never says "disconnected" of a provider it shows.
DisconnectedShowsNone == connectState = "disconnected" => provider = None

\* What is awaited is a Blocksuite socket.
AwaitsBlocksuite ==
  \A a \in opening : a.provider \in Providers /\ a.provider.kind = "blocksuite"

Counters == connects \in Nat /\ docs \in Nat /\ yDoc \in Nat

IInv == DisconnectedShowsNone /\ AwaitsBlocksuite /\ Counters

USE NoneAssumption

\* What a step may do to the provider that is shown.
Supplant ==
  provider # None /\ provider' # provider /\ provider \in running'
    => provider' # None /\ provider'.kind = "blocksuite"

LEMMA ConnectionStep ==
  ASSUME IInv, ConnectClicks \/ ConnectCallbacks
  PROVE  IInv' /\ Supplant
<1> USE DEF IInv, DisconnectedShowsNone, AwaitsBlocksuite, Supplant
<1>0. Counters'
  <2> USE DEF Counters, ShowNewDoc
  <2>1. CASE ClickConnectButton \/ CloseDialog \/ DisconnectWhenDocChanges \/ LoadStarts
    BY <2>1 DEF ClickConnectButton, CloseDialog, DisconnectWhenDocChanges, LoadStarts
  <2>2. CASE CreateNewDoc \/ LoadEnds
    BY <2>2 DEF CreateNewDoc, LoadEnds
  <2>3. ASSUME NEW kind \in Kinds, NEW new \in BOOLEAN, DialogConnect(kind, new)
        PROVE  Counters'
    <3>1. connects' = connects + 1
      BY <2>3 DEF DialogConnect
    <3>2. ShowNewDoc \/ UNCHANGED <<yDoc, docs>>
      BY <2>3 DEF DialogConnect
    <3> QED
      BY <3>1, <3>2
  <2>4. CASE AutoConnect
    BY <2>4 DEF AutoConnect
  <2>5. ASSUME NEW a \in opening, BlocksuiteOpens(a) \/ BlocksuiteFails(a)
        PROVE  Counters'
    BY <2>5 DEF BlocksuiteOpens, BlocksuiteFails
  <2>6. ASSUME NEW p \in syncing, Synced(p)
        PROVE  Counters'
    BY <2>6 DEF Synced
  <2> QED
    BY <2>1, <2>2, <2>3, <2>4, <2>5, <2>6 DEF ConnectClicks, ConnectCallbacks
<1>1. CASE ClickConnectButton
  BY <1>0, <1>1 DEF ClickConnectButton, Disconnect
<1>2. CASE CreateNewDoc \/ CloseDialog \/ LoadStarts \/ LoadEnds
  BY <1>0, <1>2 DEF CreateNewDoc, CloseDialog, LoadStarts, LoadEnds
<1>3. ASSUME NEW kind \in Kinds, NEW new \in BOOLEAN, DialogConnect(kind, new)
      PROVE  IInv' /\ Supplant
  <2> DEFINE p == [id |-> connects', kind |-> kind, doc |-> yDoc']
  <2>1. CASE /\ kind = "blocksuite"
             /\ opening' = opening \union {[provider |-> p, held |-> connectState]}
             /\ UNCHANGED <<connectState, provider, open, running, syncing>>
    <3>1. p \in Providers
      BY <1>0 DEF Counters, Providers
    <3>2. p.kind = "blocksuite"
      BY <2>1
    <3> HIDE DEF p
    <3> QED
      BY <1>0, <2>1, <3>1, <3>2
  <2>2. CASE OnConnect(p, connectState) /\ UNCHANGED opening
    BY <1>0, <2>2 DEF OnConnect, Adopt
  <2> QED
    BY <1>3, <2>1, <2>2 DEF DialogConnect, AwaitsItsSocket
<1>4. CASE AutoConnect
  BY <1>0, <1>4 DEF AutoConnect, Adopt
<1>5. CASE DisconnectWhenDocChanges
  BY <1>0, <1>5 DEF DisconnectWhenDocChanges, Disconnect
<1>6. ASSUME NEW a \in opening, BlocksuiteOpens(a)
      PROVE  IInv' /\ Supplant
  <2>1. CASE Adopt(a.provider) /\ opening' = opening \ {a}
    BY <1>0, <2>1 DEF Adopt
  <2>2. CASE UNCHANGED <<connectState, provider>> /\ opening' = opening \ {a}
    BY <1>0, <2>2
  <2> QED
    BY <1>6, <2>1, <2>2 DEF BlocksuiteOpens, OnConnect
<1>7. ASSUME NEW a \in opening, BlocksuiteFails(a)
      PROVE  IInv' /\ Supplant
  BY <1>0, <1>7 DEF BlocksuiteFails
<1>8. ASSUME NEW p \in syncing, Synced(p)
      PROVE  IInv' /\ Supplant
  BY <1>0, <1>8 DEF Synced
<1> QED
  BY <1>1, <1>2, <1>3, <1>4, <1>5, <1>6, <1>7, <1>8 DEF ConnectClicks, ConnectCallbacks

LEMMA PageStep ==
  ASSUME IInv, [Next]_pageVars
  PROVE  IInv' /\ Supplant
<1>1. CASE Connection
  BY <1>1, ConnectionStep DEF Connection
<1>2. CASE UNCHANGED connectVars
  BY <1>2 DEF connectVars, IInv, Counters, DisconnectedShowsNone, AwaitsBlocksuite, Supplant
<1> QED
  BY <1>1, <1>2 DEF Next, Document, pageVars

\* A provider that is replaced while it runs is replaced by a Blocksuite one,
\* whose socket was awaited under an older state of the page.
THEOREM StraysOnlyByLateOpen == Spec => OnlyALateOpenStraysAProvider
<1>1. Init => IInv
  BY DEF Init, ConnectInit, IInv, Counters, DisconnectedShowsNone, AwaitsBlocksuite
<1>2. IInv /\ [Next]_pageVars => IInv'
  BY PageStep
<1>3. IInv /\ [Next]_pageVars =>
        [provider # None /\ provider' # provider /\ provider \in running'
           => provider' # None /\ provider'.kind = "blocksuite"]_connectVars
  BY PageStep DEF Supplant
<1> QED
  BY <1>1, <1>2, <1>3, PTL DEF Spec, OnlyALateOpenStraysAProvider

-----------------------------------------------------------------------------
(***************************************************************************)
(* The document.  A row shows what is under its path, and only a row whose *)
(* first key is one key can be deleted.  What the filter leaves out though *)
(* it is selected comes after the first of its equals, and that one the    *)
(* filter asked its rule about.                                            *)
(***************************************************************************)

\* The filter was computed from the document as it is, unless that changed.
FilterIsCurrent == rule # NoRule /\ ~unread => filtered = FilterYDoc(content, rule)

\* A single key leads to a root, whatever document was filtered.
SingleKeysAreRoots ==
  \A e \in filtered : /\ e.path \in Paths
                      /\ Len(e.path) = 1 => e \in {Entry(<<"map">>, "YMap"), Entry(<<"list">>, "YArray")}

DocInv == FilterIsCurrent /\ SingleKeysAreRoots /\ DialogNamesWhatItDeletes

\* A sequence is its head and the rest.
LEMMA HeadFirst ==
  ASSUME NEW S, NEW s \in Seq(S), s # <<>>
  PROVE  <<s[1]>> \o Tail(s) = s
<1>1. s[1] \in S /\ Len(s) \in Nat \ {0}
  BY EmptySeq, ElementOfSeq
<1>2. <<s[1]>> \in Seq(S) /\ Len(<<s[1]>>) = 1
  BY <1>1
<1>3. Tail(s) \in Seq(S) /\ Len(Tail(s)) = Len(s) - 1
      /\ \A i \in 1 .. Len(s) - 1 : Tail(s)[i] = s[i + 1]
  BY HeadTailProperties
<1> DEFINE t == <<s[1]>> \o Tail(s)
<1>4. t \in Seq(S) /\ Len(t) = Len(s)
      /\ \A i \in 1 .. Len(s) : t[i] = IF i <= 1 THEN <<s[1]>>[i] ELSE Tail(s)[i - 1]
  BY <1>1, <1>2, <1>3, ConcatProperties
<1>5. \A i \in 1 .. Len(s) : t[i] = s[i]
  <2> SUFFICES ASSUME NEW i \in 1 .. Len(s) PROVE t[i] = s[i]
    OBVIOUS
  <2> HIDE DEF t
  <2>1. CASE i = 1
    BY <1>1, <1>4, <2>1
  <2>2. CASE i # 1
    <3>1. i - 1 \in 1 .. Len(s) - 1 /\ ~(i <= 1) /\ (i - 1) + 1 = i
      BY <1>1, <2>2
    <3> QED
      BY <1>3, <1>4, <3>1
  <2> QED
    BY <2>1, <2>2
<1> HIDE DEF t
<1>6. t = s
  BY <1>4, <1>5, SeqEqual
<1> QED
  BY <1>6 DEF t

LEMMA PathParts ==
  ASSUME NEW p \in Paths
  PROVE  /\ p[1] \in {"map", "list"} /\ <<p[1]>> \o Tail(p) = p /\ p # <<>>
         /\ Len(p) = 1 => p \in Roots
         /\ \A v : p # <<"=", v>>
<1>1. CASE p \in Roots
  BY <1>1 DEF Roots
<1>2. CASE p \in HeldPaths
  <2>1. PICK r, k : r \in {"map", "list"} /\ p = <<r, k>>
    BY <1>2 DEF HeldPaths
  <2>2. p[1] = r /\ r \in {"map", "list"} /\ Len(p) = 2 /\ p # <<>>
    BY <2>1
  <2>3. <<p[1]>> \o Tail(p) = p
    <3>1. p \in Seq({r, k})
      BY <2>1
    <3> QED
      BY <2>2, <3>1, HeadFirst
  <2>4. \A v : p # <<"=", v>>
    BY <2>2
  <2> QED
    BY <2>2, <2>3, <2>4
<1>3. ASSUME NEW h \in HeldPaths, p = <<h[1], h[2], "0">>
      PROVE  /\ p[1] \in {"map", "list"} /\ <<p[1]>> \o Tail(p) = p /\ p # <<>>
             /\ Len(p) = 1 => p \in Roots
             /\ \A v : p # <<"=", v>>
  <2>1. PICK r, k : r \in {"map", "list"} /\ h = <<r, k>>
    BY DEF HeldPaths
  <2>2. p = <<r, k, "0">>
    BY <1>3, <2>1
  <2>3. p[1] = r /\ r \in {"map", "list"} /\ Len(p) = 3 /\ p # <<>>
    BY <2>1, <2>2
  <2>4. <<p[1]>> \o Tail(p) = p
    <3>1. p \in Seq({r, k, "0"})
      BY <2>2
    <3> QED
      BY <2>3, <3>1, HeadFirst
  <2>5. \A v : p # <<"=", v>>
    BY <2>3
  <2> QED
    BY <2>3, <2>4, <2>5
<1> QED
  BY <1>1, <1>2, <1>3 DEF Paths

LEMMA EntriesHoldValues ==
  ASSUME NEW d, NEW e \in Entries(d)
  PROVE  /\ e.path \in Paths /\ e.value = ValueAt(d, e.path) /\ e = Entry(e.path, e.value)
         /\ Len(e.path) = 1 => e \in {Entry(<<"map">>, "YMap"), Entry(<<"list">>, "YArray")}
<1>1. e.path \in Paths /\ e.value = ValueAt(d, e.path) /\ e = Entry(e.path, e.value)
  BY DEF Entries, Entry
<1>2. Len(e.path) = 1 => e.path = <<"map">> \/ e.path = <<"list">>
  BY <1>1, PathParts DEF Roots
<1>3. ValueAt(d, <<"map">>) = "YMap" /\ ValueAt(d, <<"list">>) = "YArray"
  BY DEF ValueAt
<1> QED
  BY <1>1, <1>2, <1>3

\* What a filter lists is in the document.
LEMMA FilteredAreEntries ==
  ASSUME NEW d, NEW selected
  PROVE  FilteredYDoc(d, selected) \subseteq Entries(d)
BY DEF FilteredYDoc, FilterYDoc

\* A row that can be deleted is looked up as what it shows.
LEMMA RowsResolve ==
  ASSUME SingleKeysAreRoots, NEW row \in Rows, Len(row.root) = 1, row.rest # <<>>
  PROVE  Resolve(content, row.root, row.rest) = row.value
<1>1. CASE rule = NoRule
  <2>1. PICK e \in Entries(content) : row = Row(<<e.path[1]>>, Tail(e.path), e.value)
    BY <1>1 DEF Rows
  <2>2. row.root \o row.rest = e.path /\ row.value = e.value
    BY <2>1, EntriesHoldValues, PathParts DEF Row
  <2> QED
    BY <2>2, EntriesHoldValues DEF Resolve
<1>2. CASE rule # NoRule
  <2>1. PICK e \in filtered : row \in {Row(e.path, <<>>, e.value)} \union Inside(e)
    BY <1>2 DEF Rows
  <2>2. row \in Inside(e)
    BY <2>1 DEF Row
  <2>3. row.root = e.path
    BY <2>2 DEF Inside, Row
  <2>4. e \in {Entry(<<"map">>, "YMap"), Entry(<<"list">>, "YArray")}
    BY <2>3 DEF SingleKeysAreRoots
  <2>5. e.value \in {"YMap", "YArray"} /\ e.path = <<e.path[1]>>
    BY <2>4 DEF Entry
  <2>6. PICK x \in Entries(content) : /\ x.path[1] = e.path[1]
                                      /\ row = Row(e.path, Tail(x.path), x.value)
    BY <2>2, <2>5 DEF Inside
  <2>7. row.root \o row.rest = x.path /\ row.value = x.value
    BY <2>5, <2>6, EntriesHoldValues, PathParts DEF Row
  <2> QED
    BY <2>7, EntriesHoldValues DEF Resolve
<1> QED
  BY <1>1, <1>2

\* Of some numbers one is the least.
LEMMA LeastNatural ==
  ASSUME NEW S, S \subseteq Nat, S # {}
  PROVE  \E n \in S : \A m \in S : n <= m
<1>1. PICK n \in S : \A m \in S : <<m, n>> \notin OpToRel(<, Nat)
  BY WFMin, NatLessThanWellFounded, Zenon
<1>2. \A m \in S : ~(m < n)
  BY <1>1, Zenon DEF OpToRel
<1>3. \A m \in S : n <= m
  BY <1>2
<1> QED
  BY <1>3

\* The first entry of an identity is met before anything that equals it.
LEMMA FirstIsMet ==
  ASSUME NEW d, NEW e \in Entries(d)
  PROVE  \E x \in Entries(d) : Identity(x) = Identity(e) /\ Identity(x) \notin Accessed(Entries(d), x)
<1> DEFINE same == {x \in Entries(d) : Identity(x) = Identity(e)}
           places == {Place[x.path] : x \in same}
<1>1. \A x \in Entries(d) : Place[x.path] \in Nat
  BY PlaceAssumption, EntriesHoldValues
<1>2. places \subseteq Nat /\ places # {}
  BY <1>1
<1>3. PICK n \in places : \A m \in places : n <= m
  <2> HIDE DEF places
  <2> QED
    BY <1>2, LeastNatural
<1>4. PICK x \in same : Place[x.path] = n
  BY <1>3
<1>5. ASSUME NEW y \in Entries(d), Place[y.path] < Place[x.path], Identity(y) = Identity(x)
      PROVE  FALSE
  <2>1. Place[y.path] \in places /\ Place[y.path] \in Nat /\ n \in Nat
    BY <1>1, <1>2, <1>4, <1>5
  <2> QED
    BY <1>3, <1>4, <1>5, <2>1
<1>6. Identity(x) \notin Accessed(Entries(d), x)
  BY <1>5 DEF Accessed
<1> QED
  BY <1>4, <1>6

\* Shapes are met once: nothing else is what a path leads to.
LEMMA EqualsArePrimitives ==
  ASSUME NEW d, NEW e \in Entries(d), NEW x \in Entries(d), Identity(x) = Identity(e), x # e
  PROVE  e.value \in Prims /\ x.value = e.value
<1>1. /\ e.path \in Paths /\ x.path \in Paths /\ e = Entry(e.path, ValueAt(d, e.path))
      /\ x = Entry(x.path, ValueAt(d, x.path))
  BY EntriesHoldValues
<1>2. x.path # e.path
  BY <1>1
<1>3. \A v : e.path # <<"=", v>> /\ x.path # <<"=", v>>
  BY <1>1, PathParts
<1>4. ~IsShape(e.value) /\ ~IsShape(x.value)
  BY <1>2, <1>3 DEF Identity
<1>5. <<"=", x.value>> = <<"=", e.value>>
  BY <1>4 DEF Identity
<1> QED
  BY <1>4, <1>5 DEF IsShape

\* What is selected and not listed comes after the first of its equals, which
\* is listed if it is selected.
LEMMA FilterIsFair ==
  ASSUME NEW d, NEW selected
  PROVE  LET all == {e \in Entries(d) : e \in selected} IN
         /\ FilterYDoc(d, selected) \subseteq all
         /\ \A e \in all \ FilterYDoc(d, selected) :
              /\ e.value \in Prims
              /\ \E first \in {x \in Entries(d) : x.value = e.value} :
                   /\ \A x \in Entries(d) : x.value = e.value => Place[first.path] <= Place[x.path]
                   /\ Place[first.path] < Place[e.path]
                   /\ first \in FilterYDoc(d, selected) <=> first \in selected
<1> DEFINE all == {e \in Entries(d) : e \in selected}
<1>1. FilterYDoc(d, selected) \subseteq all
  BY DEF FilterYDoc
<1>2. ASSUME NEW e \in all, e \notin FilterYDoc(d, selected)
      PROVE  /\ e.value \in Prims
             /\ \E first \in {x \in Entries(d) : x.value = e.value} :
                  /\ \A x \in Entries(d) : x.value = e.value => Place[first.path] <= Place[x.path]
                  /\ Place[first.path] < Place[e.path]
                  /\ first \in FilterYDoc(d, selected) <=> first \in selected
  <2>1. PICK first \in Entries(d) : /\ Identity(first) = Identity(e)
                                    /\ Identity(first) \notin Accessed(Entries(d), first)
    BY FirstIsMet
  <2>2. first # e
    BY <1>2, <2>1 DEF FilterYDoc
  <2>3. e.value \in Prims /\ first.value = e.value
    BY <2>1, <2>2, EqualsArePrimitives
  <2>4. \A x \in Entries(d) : Place[x.path] \in Nat
    BY EntriesHoldValues, PlaceAssumption
  <2>5. ASSUME NEW x \in Entries(d), x.value = e.value PROVE Place[first.path] <= Place[x.path]
    <3>1. Identity(x) = Identity(first)
      BY <2>3, <2>5 DEF Identity, IsShape
    <3>2. ~(Place[x.path] < Place[first.path])
      BY <2>1, <3>1 DEF Accessed
    <3> QED
      BY <2>4, <3>2
  <2>6. Place[first.path] < Place[e.path]
    <3>1. first.path \in Paths /\ e.path \in Paths /\ first.path # e.path
      BY <2>2, EntriesHoldValues
    <3>2. Place[first.path] # Place[e.path] /\ Place[first.path] <= Place[e.path]
      BY <2>5, <3>1, PlaceAssumption
    <3> QED
      BY <2>4, <3>2
  <2>7. first \in FilterYDoc(d, selected) <=> first \in selected
    BY <2>1 DEF FilterYDoc
  <2> QED
    BY <2>3, <2>5, <2>6, <2>7
<1> QED
  BY <1>1, <1>2

-----------------------------------------------------------------------------
LEMMA FilteredRoots ==
  ASSUME NEW d, NEW selected
  PROVE  \A e \in FilteredYDoc(d, selected) :
           /\ e.path \in Paths
           /\ Len(e.path) = 1 => e \in {Entry(<<"map">>, "YMap"), Entry(<<"list">>, "YArray")}
BY FilteredAreEntries, EntriesHoldValues

\* The document changes beneath the filter and the dialog.
LEMMA ChangeKeeps ==
  ASSUME DocInv, UNCHANGED <<rule, filtered>>, unread' = (rule # NoRule),
         (moved' = (dialog # Closed) /\ UNCHANGED dialog) \/ dialog' = Closed
  PROVE  DocInv'
BY DEF DocInv, FilterIsCurrent, SingleKeysAreRoots, DialogNamesWhatItDeletes

\* The page opens or closes a dialog.
LEMMA DialogKeeps ==
  ASSUME DocInv, UNCHANGED <<content, rule, filtered, unread>>,
         \/ dialog' = Closed
         \/ dialog'.act # "delete"
         \/ Resolve(content, dialog'.root, dialog'.rest) = dialog'.value
  PROVE  DocInv'
BY DEF DocInv, FilterIsCurrent, SingleKeysAreRoots, DialogNamesWhatItDeletes

LEMMA SwitchKeeps ==
  ASSUME DocInv, NEW d, SwitchTo(d)
  PROVE  DocInv'
<1>1. FilterIsCurrent'
  BY DEF SwitchTo, FilterIsCurrent, FilteredYDoc
<1>2. SingleKeysAreRoots'
  BY FilteredRoots DEF SwitchTo, SingleKeysAreRoots
<1>3. DialogNamesWhatItDeletes'
  BY DEF SwitchTo, DialogNamesWhatItDeletes
<1> QED
  BY <1>1, <1>2, <1>3 DEF DocInv

LEMMA ClickKeeps ==
  ASSUME DocInv, NEW row \in Rows, OpenDelete(row) \/ OpenAdd(row)
  PROVE  DocInv'
<1>1. CASE OpenDelete(row)
  <2>1. Len(row.root) = 1
    BY <1>1, AbsentAssumption DEF OpenDelete, Container, Resolve, Values
  <2>2. Resolve(content, row.root, row.rest) = row.value
    BY <1>1, <2>1, RowsResolve DEF OpenDelete, DocInv
  <2>3. dialog'.root = row.root /\ dialog'.rest = row.rest /\ dialog'.value = row.value
    BY <1>1 DEF OpenDelete
  <2> QED
    BY <1>1, <2>2, <2>3, DialogKeeps DEF OpenDelete
<1>2. CASE OpenAdd(row)
  <2>1. dialog'.act = "add"
    BY <1>2 DEF OpenAdd
  <2> QED
    BY <1>2, <2>1, DialogKeeps DEF OpenAdd
<1> QED
  BY <1>1, <1>2

LEMMA DocumentStepKeeps ==
  ASSUME DocInv, DocumentSteps
  PROVE  DocInv'
<1>1. ASSUME NEW k, NEW v, RemoteSet(k, v) PROVE DocInv'
  BY <1>1, ChangeKeeps DEF RemoteSet, Changed
<1>2. ASSUME NEW i, NEW v, RemoteInsert(i, v) PROVE DocInv'
  BY <1>2, ChangeKeeps DEF RemoteInsert, Changed
<1>3. ASSUME NEW i, RemoteRemove(i) PROVE DocInv'
  BY <1>3, ChangeKeeps DEF RemoteRemove, Changed
<1>4. ASSUME NEW selected, UpdateFilter(selected) PROVE DocInv'
  <2>1. FilterIsCurrent'
    BY <1>4 DEF UpdateFilter, FilterIsCurrent, FilteredYDoc
  <2>2. SingleKeysAreRoots'
    BY <1>4, FilteredRoots DEF UpdateFilter, SingleKeysAreRoots
  <2>3. DialogNamesWhatItDeletes'
    BY <1>4 DEF UpdateFilter, DialogNamesWhatItDeletes, DocInv
  <2> QED
    BY <2>1, <2>2, <2>3 DEF DocInv
<1>5. CASE CancelDialog
  BY <1>5, DialogKeeps DEF CancelDialog, CloseTheDialog
<1>6. CASE ConfirmDelete
  BY <1>6, DialogKeeps, ChangeKeeps DEF ConfirmDelete, CloseTheDialog
<1>7. ASSUME NEW k, ConfirmAdd(k) PROVE DocInv'
  BY <1>7, DialogKeeps, ChangeKeeps DEF ConfirmAdd, CloseTheDialog
<1> QED
  BY <1>1, <1>2, <1>3, <1>4, <1>5, <1>6, <1>7 DEF DocumentSteps

LEMMA DocInduction == Spec => []DocInv
<1>1. Init => DocInv
  BY DEF Init, DocInit, DocInv, FilterIsCurrent, SingleKeysAreRoots, DialogNamesWhatItDeletes
<1>2. DocInv /\ [Next]_pageVars => DocInv'
  <2> SUFFICES ASSUME DocInv, [Next]_pageVars PROVE DocInv'
    OBVIOUS
  <2>1. CASE Connection
    <3>1. CASE UNCHANGED docVars
      BY <3>1 DEF docVars, DocInv, FilterIsCurrent, SingleKeysAreRoots,
                  DialogNamesWhatItDeletes
    <3> QED
      BY <2>1, <3>1, SwitchKeeps DEF Connection
  <2>2. CASE Document
    BY <2>2, ClickKeeps, DocumentStepKeeps DEF Document, DocumentClicks
  <2>3. CASE UNCHANGED pageVars
    BY <2>3 DEF pageVars, docVars, DocInv, FilterIsCurrent, SingleKeysAreRoots,
                DialogNamesWhatItDeletes
  <2> QED
    BY <2>1, <2>2, <2>3 DEF Next
<1> QED
  BY <1>1, <1>2, PTL DEF Spec

\* Whatever the rule selects by, type, key, path or value, and in whatever order
\* the traversal meets the values: all that the filter leaves out is a primitive
\* that is not the first of its equals, and the first is listed if selected.
THEOREM FilterIsComplete == Spec => []FilterMissesOnlyRepeats
<1>1. DocInv => FilterMissesOnlyRepeats
  <2> SUFFICES ASSUME DocInv, rule # NoRule, ~unread PROVE FilterMissesOnlyRepeats
    BY DEF FilterMissesOnlyRepeats
  <2>1. filtered = FilterYDoc(content, rule)
    BY DEF DocInv, FilterIsCurrent
  <2> QED
    BY <2>1, FilterIsFair DEF FilterMissesOnlyRepeats
<1> QED
  BY <1>1, DocInduction, PTL

\* Until the document changes, the delete dialog removes what it names.
THEOREM DeletionIsAsNamed == Spec => []DialogNamesWhatItDeletes
<1>1. DocInv => DialogNamesWhatItDeletes
  BY DEF DocInv
<1> QED
  BY <1>1, DocInduction, PTL
=============================================================================
