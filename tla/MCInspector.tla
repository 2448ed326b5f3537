---------------------------- MODULE MCInspector ----------------------------
(***************************************************************************)
(* The inspector with every choice of provider, an injected connection and *)
(* a document whose map has the key "list", the name of a root type.       *)
(***************************************************************************)
EXTENDS Inspector

MCKinds == {"websocket", "hocuspocus", "blocksuite"}
MCKeys == {"list"}
MCPrims == {"1", "2"}
MCHeld == "1"
MCPlace == [p \in Paths |->
  CHOOSE i \in 1 .. 8 : p = <<<<"map">>, <<"map", "list">>, <<"map", "list", "0">>,
                               <<"list">>, <<"list", "0">>, <<"list", "0", "0">>,
                               <<"list", "1">>, <<"list", "1", "0">>>>[i]]

(* By type, by the value of a type, and by the key of what an array holds. *)
Selectable == [path : Paths, value : Values \union {"YMap", "YArray"}]
MCRules == {{e \in Selectable : TypeName(e.value) \in {"YArray", "YMap"}},
            {e \in Selectable : e.value = "2"},
            {e \in Selectable : Last(e.path) = "0"}}
MCLoadable == {[map |-> [k \in MCKeys |-> Full], list |-> <<"1", "2">>],
               [map |-> [k \in MCKeys |-> "2"], list |-> <<"2", Full>>]}
=============================================================================
