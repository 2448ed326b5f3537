------------------------- MODULE InspectorDocument -------------------------
(***************************************************************************)
(* The document the inspector shows: the filter over it, and the dialogs   *)
(* that delete from it or add to it (yjs-inspector/src/filter-map.tsx,      *)
(* y-shape.ts, state/filter.ts, components/json-viewer-panel.tsx,          *)
(* delete-dialog.tsx, add-data-dialog.tsx).                                *)
(*                                                                         *)
(* A document has two root types, a Y.Map "map" and a Y.Array "list", both *)
(* declared in every document and empty at first.                          *)
(* Their values are primitives or nested Y.Arrays, empty or holding one    *)
(* primitive.  Array indexes are keys here, and a path joined with dots is *)
(* the path itself: no key holds a dot.                                    *)
(***************************************************************************)
EXTENDS Naturals, Sequences, SequencesExt

CONSTANTS Keys,       \* keys of the map; one may be the name of a root type
          Prims,      \* primitive values
          Held,       \* the primitive a nested array holds
          Place,      \* Place[path]: when a traversal meets what is there
          Loadable,   \* the documents that files, URLs and servers provide
          Rules,      \* what the filter is asked for: the sets of entries its rules select
          NoRule,     \* no valid rule
          MaxLength,  \* bound: length of the list
          MaxEdits,   \* bound: changes to documents
          Full, Empty,    \* a nested array with its value, and without it
          Absent, Closed  \* no value; no dialog

Index == <<"0", "1", "2">>
Nested == {Full, Empty}
Values == Prims \union Nested
Documents == [map : [Keys -> Values \union {Absent}],
              list : UNION {[1 .. n -> Values] : n \in 0 .. MaxLength}]
NewDocument == [map |-> [k \in Keys |-> Absent], list |-> <<>>]

(* Where a document may have values: its roots, what they hold and what    *)
(* nested arrays hold.                                                     *)
Roots == {<<"map">>, <<"list">>}
HeldPaths == {<<"map", k>> : k \in Keys} \union {<<"list", Index[i]>> : i \in 1 .. MaxLength}
Paths == Roots \union HeldPaths \union {<<p[1], p[2], "0">> : p \in HeldPaths}

ASSUME DocumentsAssumption ==
  /\ Held \in Prims /\ Loadable \subseteq Documents
  /\ MaxLength \in 0 .. Len(Index) /\ MaxEdits \in Nat
ASSUME PlaceAssumption ==
  Place \in [Paths -> Nat] /\ \A p, q \in Paths : Place[p] = Place[q] => p = q
ASSUME AbsentAssumption ==
  /\ Absent \notin Values \union {"YMap", "YArray"}
  /\ Full \notin {"YMap", "YArray"}

VARIABLES content,   \* what the shown document holds
          rule,      \* the entries the filter selects, or NoRule
          filtered,  \* filteredYDocAtom: its cached value
          dialog,    \* the delete or add dialog, or Closed
          edits,
          unread,    \* history: did the document change since filtered was computed?
          moved      \* history: did it change since the dialog was opened?

docVars == <<content, rule, filtered, dialog, edits, unread, moved>>

-----------------------------------------------------------------------------
(***************************************************************************)
(* What a document holds: getYTypeFromPath follows a path one key after    *)
(* the other, and a key that is not there leads nowhere.                   *)
(***************************************************************************)
Position(key) == CHOOSE i \in DOMAIN Index : Index[i] = key

Child(d, root, key) ==
  CASE root = "map" /\ key \in Keys -> d.map[key]
    [] root = "list" /\ (\E i \in DOMAIN d.list : Index[i] = key) -> d.list[Position(key)]
    [] OTHER -> Absent

ValueAt(d, path) ==
  CASE path = <<"map">> -> "YMap"
    [] path = <<"list">> -> "YArray"
    [] Len(path) = 2 -> Child(d, path[1], path[2])
    [] Len(path) = 3 /\ path[3] = "0" /\ Child(d, path[1], path[2]) = Full -> Held
    [] OTHER -> Absent

Entry(path, value) == [path |-> path, value |-> value]

Entries(d) == {Entry(p, ValueAt(d, p)) : p \in {q \in Paths : ValueAt(d, q) # Absent}}

IsShape(value) == value \notin Prims

TypeName(value) ==
  CASE value \in Prims -> "Number"
    [] value = "YMap" -> "YMap"
    [] value \in {"YArray"} \union Nested -> "YArray"

-----------------------------------------------------------------------------
(***************************************************************************)
(* filterYDoc.  The predicate is asked of an entry: its type, key, path or *)
(* value.  "accessed" remembers what was met, selected or not: a shape is  *)
(* one object, a primitive equals every other one of its value.            *)
(***************************************************************************)

(* Mutant: takes the values of one type for one another. *)
IdentityByType(e) == <<"=", TypeName(e.value)>>

Identity(e) == IF IsShape(e.value) THEN e.path ELSE <<"=", e.value>>

(* What the traversal has met before it comes to an entry. *)
Accessed(entries, e) == {Identity(x) : x \in {y \in entries : Place[y.path] < Place[e.path]}}

(* Mutant: lists a value under its key instead of its path. *)
FilterYDocByKey(d, selected) ==
  LET entries == Entries(d)
  IN  {Entry(<<Last(e.path)>>, e.value) :
         e \in {x \in entries : Identity(x) \notin Accessed(entries, x) /\ x \in selected}}

FilterYDoc(d, selected) ==
  LET entries == Entries(d)
  IN  {e \in entries : Identity(e) \notin Accessed(entries, e) /\ e \in selected}

FilteredYDoc(d, selected) == IF selected = NoRule THEN {} ELSE FilterYDoc(d, selected)

-----------------------------------------------------------------------------
(***************************************************************************)
(* What the viewer shows: every value under its path or, with a filter,    *)
(* the selected ones under one joined key each, and what is inside them.   *)
(* A row is [root, rest]: its first key, which may be joined, and the keys *)
(* below it.                                                               *)
(***************************************************************************)
Row(root, rest, value) == [root |-> root, rest |-> rest, value |-> value]

(* A type is read as it is now.  A nested one is listed with what it held  *)
(* when the filter was computed: nothing can be done to it there.          *)
Inside(e) ==
  IF e.value \in {"YMap", "YArray"}
  THEN {Row(e.path, Tail(x.path), x.value) :
          x \in {y \in Entries(content) \ {e} : y.path[1] = e.path[1]}}
  ELSE IF e.value = Full THEN {Row(e.path, <<"0">>, Held)} ELSE {}

Rows ==
  IF rule = NoRule
  THEN {Row(<<e.path[1]>>, Tail(e.path), e.value) : e \in Entries(content)}
  ELSE UNION {{Row(e.path, <<>>, e.value)} \union Inside(e) : e \in filtered}

(* A joined key is looked up among the roots of the document. *)
Resolve(d, root, rest) ==
  IF Len(root) = 1 THEN ValueAt(d, root \o rest) ELSE Absent

Container(value) == value \in {"YMap", "YArray"} \union Nested

-----------------------------------------------------------------------------
DocInit ==
  /\ content = NewDocument
  /\ rule = NoRule /\ filtered = {} /\ dialog = Closed /\ edits = 0
  /\ unread = FALSE /\ moved = FALSE

Changed == /\ edits < MaxEdits /\ edits' = edits + 1
           /\ unread' = (rule # NoRule) /\ moved' = (dialog # Closed)

RemoveIndex(s, i) == SubSeq(s, 1, i - 1) \o SubSeq(s, i + 1, Len(s))

(* Peers change the document; the cached filter is not computed again. *)
RemoteSet(k, v) ==
  /\ Changed /\ content' = [content EXCEPT !.map[k] = v]
  /\ UNCHANGED <<rule, filtered, dialog>>

RemoteInsert(i, v) ==
  /\ Changed /\ Len(content.list) < MaxLength
  /\ content' = [content EXCEPT !.list = InsertAt(@, i, v)]
  /\ UNCHANGED <<rule, filtered, dialog>>

RemoteRemove(i) ==
  /\ Changed /\ content' = [content EXCEPT !.list = RemoveIndex(@, i)]
  /\ UNCHANGED <<rule, filtered, dialog>>

(* The filter dialog, not modal, closes: a new predicate, or no valid rule. *)
UpdateFilter(selected) ==
  /\ rule' = selected /\ filtered' = FilteredYDoc(content, selected) /\ unread' = FALSE
  /\ UNCHANGED <<content, dialog, edits, moved>>

(* Another document is shown: the filter is computed for it, and a dialog *)
(* keeps the path and the target it was opened with.                      *)
SwitchTo(d) ==
  /\ content' = d /\ filtered' = FilteredYDoc(d, rule) /\ unread' = FALSE
  /\ moved' = (dialog # Closed)
  /\ dialog' = IF dialog # Closed /\ dialog.act = "add"
               THEN [dialog EXCEPT !.live = FALSE] ELSE dialog
  /\ UNCHANGED <<rule, edits>>

OpenDelete(row) ==
  /\ dialog = Closed /\ row.rest # <<>>
  /\ Container(Resolve(content, row.root, Front(row.rest)))
  /\ dialog' = [act |-> "delete", root |-> row.root, rest |-> row.rest,
                value |-> row.value, live |-> TRUE]
  /\ UNCHANGED <<content, rule, filtered, edits, unread, moved>>

(* enableAdd: of these types only the Y.Map at the root can be added to. *)
OpenAdd(row) ==
  /\ dialog = Closed /\ row.value = "YMap"
  /\ Resolve(content, row.root, row.rest) # Absent
  /\ dialog' = [act |-> "add", root |-> row.root, rest |-> row.rest,
                value |-> row.value, live |-> TRUE]
  /\ UNCHANGED <<content, rule, filtered, edits, unread, moved>>

CloseTheDialog == dialog' = Closed /\ moved' = FALSE

CancelDialog ==
  /\ dialog # Closed /\ CloseTheDialog
  /\ UNCHANGED <<content, rule, filtered, edits, unread>>

(* What is left when the value at a path below a root type is deleted. *)
Without(d, root, rest) ==
  LET new == IF Len(rest) = 2 THEN Empty ELSE Absent IN
  CASE root = "map" -> [d EXCEPT !.map[rest[1]] = new]
    [] root = "list" /\ Len(rest) = 2 -> [d EXCEPT !.list[Position(rest[1])] = new]
    [] root = "list" /\ Len(rest) = 1 ->
         [d EXCEPT !.list = RemoveIndex(@, Position(rest[1]))]

(* The path is followed again, in the document that is shown now.  A key   *)
(* that a map lacks deletes nothing; an index beyond the end, or a parent  *)
(* that is no container any more, throws and changes nothing.              *)
ConfirmDelete ==
  /\ dialog # Closed /\ dialog.act = "delete"
  /\ LET here == Resolve(content, dialog.root, dialog.rest)
         parent == Resolve(content, dialog.root, Front(dialog.rest))
     IN \/ /\ here # Absent
           /\ edits < MaxEdits /\ edits' = edits + 1
           /\ content' = Without(content, dialog.root[1], dialog.rest)
           /\ unread' = (rule # NoRule)
        \/ /\ here = Absent /\ parent = "YMap"
           /\ UNCHANGED <<content, edits, unread>>
  /\ CloseTheDialog
  /\ UNCHANGED <<rule, filtered>>

(* The target is the type the dialog was opened on, of a document that is *)
(* shown or destroyed; whatever the key holds is overwritten.             *)
ConfirmAdd(k) ==
  /\ dialog # Closed /\ dialog.act = "add"
  /\ edits < MaxEdits /\ edits' = edits + 1
  /\ content' = IF dialog.live THEN [content EXCEPT !.map[k] = Empty] ELSE content
  /\ unread' = IF dialog.live THEN rule # NoRule ELSE unread
  /\ CloseTheDialog
  /\ UNCHANGED <<rule, filtered>>

DocumentClicks == \E row \in Rows : OpenDelete(row) \/ OpenAdd(row)

DocumentSteps ==
  \/ \E k \in Keys, v \in Values \union {Absent} : RemoteSet(k, v)
  \/ \E i \in 1 .. Len(content.list) + 1, v \in Values : RemoteInsert(i, v)
  \/ \E i \in DOMAIN content.list : RemoteRemove(i)
  \/ \E selected \in Rules \union {NoRule} : UpdateFilter(selected)
  \/ CancelDialog \/ ConfirmDelete
  \/ \E k \in Keys : ConfirmAdd(k)
-----------------------------------------------------------------------------
(***************************************************************************)
(* The filter lists what its rule selects, under its own path, and all it  *)
(* leaves out is a primitive that it met before: a Y type is never left    *)
(* out, and of equal primitives the first met stands for the rest, listed  *)
(* if it is selected itself (filter-map.tsx 58-82).                        *)
(***************************************************************************)
FilterMissesOnlyRepeats ==
  rule # NoRule /\ ~unread =>
    LET all == {e \in Entries(content) : e \in rule} IN
    /\ filtered \subseteq all
    /\ \A e \in all \ filtered :
         /\ e.value \in Prims
         /\ \E first \in {x \in Entries(content) : x.value = e.value} :
              /\ \A x \in Entries(content) : x.value = e.value => Place[first.path] <= Place[x.path]
              /\ Place[first.path] < Place[e.path]
              /\ first \in filtered <=> first \in rule

(***************************************************************************)
(* Until the document changes, the delete dialog removes the very value it *)
(* names, filter or not: the rows whose joined key would be looked up as   *)
(* something else cannot be deleted (json-viewer-panel.tsx 53-64).         *)
(***************************************************************************)
DialogNamesWhatItDeletes ==
  dialog # Closed /\ dialog.act = "delete" /\ ~moved =>
    Resolve(content, dialog.root, dialog.rest) = dialog.value
=============================================================================
