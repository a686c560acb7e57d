----------------------------- MODULE JavaScript -----------------------------
(***************************************************************************)
(* The custom functions javascript and javascript_with_context             *)
(* (customfuncs/javascript.go), called for the records that a reader puts  *)
(* under a node that stays, one after another; and the JSON of a node      *)
(* (idr/marshal2.go), here without attributes and types of values.         *)
(*                                                                         *)
(* A script assigns to some global variables, yields the value of one, and *)
(* may not compile; args are pairs of a name and a value.                  *)
(***************************************************************************)
EXTENDS Naturals, SequencesExt, FiniteSetsExt, TLC

CONSTANTS
    Scripts,    \* [sets, reads, compiles]
    Args,       \* the args to explore, sequences of names and values in turn
    Names,      \* the names of records
    Texts,      \* the texts in them
    MaxID       \* no node gets a larger ID

ArgNameNode == "_node"
Undefined == <<"undefined">>
Nil == 0

VARIABLES
    nodes,          \* by ID: [type, data, kids]; node 1 is the one that stays
    lastID,
    jsonCache,      \* NodeToJSONCache
    programCache,   \* JSProgramCache
    vms,            \* the globals of the runtime in jsRuntimePool, if there is one
    last            \* the last call: [script, node, args, ok, value, json]

vars == <<nodes, lastID, jsonCache, programCache, vms, last>>

-----------------------------------------------------------------------------
(* nodeToInterface: a text, an array, or an object with the values of each name. *)
RECURSIVE NodeToInterface(_)

Elements(n) == SelectSeq(nodes[n].kids, LAMBDA c : nodes[c].type = "element")

IsChildText(n) == nodes[n].kids # <<>> /\ Elements(n) = <<>>

ElementNames(n) == {nodes[c].data : c \in Range(Elements(n))}

IsChildArray(n) ==
    /\ Cardinality(ElementNames(n)) = 1
    /\ Len(Elements(n)) > 1 \/ ElementNames(n) = {""}

Values(s) == [i \in DOMAIN s |-> NodeToInterface(s[i])]

NodeToInterface(n) ==
    CASE IsChildText(n)  -> <<"text", nodes[nodes[n].kids[1]].data>>
      [] IsChildArray(n) -> <<"array", Values(Elements(n))>>
      [] OTHER ->
            <<"object", [name \in ElementNames(n) |->
                Values(SelectSeq(Elements(n), LAMBDA c : nodes[c].data = name))]>>

JSONify2(n) == NodeToInterface(n)

-----------------------------------------------------------------------------
Init ==
    /\ nodes = 1 :> [type |-> "element", data |-> "", kids |-> <<>>]
    /\ lastID = 1
    /\ jsonCache = <<>> /\ programCache = {}
    /\ vms = {}
    /\ last = [ok |-> FALSE]

(* The reader puts the next record there, in the place of the last one. *)
NextRecord(name, text) ==
    /\ lastID + 2 <= MaxID
    /\ lastID' = lastID + 2
    /\ nodes' = 1 :> [nodes[1] EXCEPT !.kids = <<lastID + 1>>] @@
                (lastID + 1) :> [type |-> "element", data |-> name, kids |-> <<lastID + 2>>] @@
                (lastID + 2) :> [type |-> "text", data |-> text, kids |-> <<>>]
    /\ last' = [ok |-> FALSE]
    /\ UNCHANGED <<jsonCache, programCache, vms>>

(* getNodeJSON: what the cache has of a node, by its ID, does not change; that *)
(* it holds a limited number of nodes is left out.                             *)
GetNodeJSON(n) == IF n \in DOMAIN jsonCache THEN jsonCache[n] ELSE JSONify2(n)

VMArgs(args, n) ==
    LET given == {args[2 * i - 1] : i \in 1..(Len(args) \div 2)}
        value(a) == args[2 * Max({i \in 1..(Len(args) \div 2) : args[2 * i - 1] = a})]
    IN  (IF n = Nil THEN <<>> ELSE ArgNameNode :> GetNodeJSON(n)) @@
        [a \in given |-> <<"arg", value(a)>>]

(* execProgram: a runtime from the pool or a new one, the args set and then   *)
(* deleted, and the runtime put back, with what else the script has assigned; *)
(* the pool may drop it.                                                      *)
Globals == IF vms = {} THEN {<<>>} ELSE vms \cup {<<>>}

JavaScriptWithContext(n, script, args) ==
    LET wanted == Len(args) % 2 = 0
        runs == wanted /\ script.compiles
        vmArgs == VMArgs(args, n)
    IN  /\ programCache' = programCache \cup (IF runs THEN {script} ELSE {})
        /\ jsonCache' = IF runs /\ n # Nil THEN (n :> GetNodeJSON(n)) @@ jsonCache ELSE jsonCache
        /\ IF ~runs THEN vms' = vms /\ last' = [ok |-> FALSE]
           ELSE \E globals \in Globals :
                  LET during == [g \in script.sets |-> <<"set">>] @@ vmArgs @@ globals
                      value == IF script.reads \in DOMAIN during
                               THEN during[script.reads] ELSE Undefined
                  IN  /\ vms' = {[g \in DOMAIN during \ DOMAIN vmArgs |-> during[g]]}
                      /\ last' = IF value = Undefined THEN [ok |-> FALSE]
                                 ELSE [ok |-> TRUE, reads |-> script.reads, node |-> n,
                                       value |-> value]
        /\ UNCHANGED <<nodes, lastID>>

JavaScript(script, args) == JavaScriptWithContext(Nil, script, args)

ElementNodes == {n \in DOMAIN nodes : nodes[n].type = "element"}

Next ==
    \/ \E name \in Names, text \in Texts : NextRecord(name, text)
    \/ \E script \in Scripts, args \in Args :
          /\ nodes[1].kids # <<>>
          /\ \/ JavaScript(script, args)
             \/ \E n \in ElementNodes : JavaScriptWithContext(n, script, args)

Spec == Init /\ [][Next]_vars

-----------------------------------------------------------------------------
(* A script gets the current node and its sub-tree as _node                 *)
(* (doc/use_of_custom_funcs.md: "automatically injects the current IDR node *)
(* and its sub-tree as a JSON object").                                     *)
NodeIsCurrent ==
    last.ok /\ last.reads = ArgNameNode /\ last.node # Nil => last.value = JSONify2(last.node)
=============================================================================
