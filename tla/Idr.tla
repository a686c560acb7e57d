--------------------------------- MODULE Idr ---------------------------------
(***************************************************************************)
(* The links of IDR nodes and the pool they come from (idr/node.go).  A    *)
(* process is a goroutine that reads one input: it builds and releases     *)
(* trees of its own, and shares the pool and the counter of IDs with the   *)
(* others.  A tree is only touched by its owner, so AddChild and the       *)
(* unlinking are one step each; recycle gives nodes away one by one, and   *)
(* another process may use a node while its former parent, siblings and    *)
(* children are still being recycled.                                      *)
(***************************************************************************)
EXTENDS Naturals, SequencesExt

CONSTANTS
    Nodes,      \* the addresses of nodes
    Procs,      \* the goroutines
    Nil,        \* the nil pointer
    MaxID       \* a bound: no node is created when this many IDs are used

ASSUME IdrAssumption == Nil \notin Nodes \cup Procs /\ MaxID \in Nat

VARIABLES
    links,      \* Parent, FirstChild, LastChild, PrevSibling and NextSibling
    id,         \* the ID of each node
    nodeID,     \* the last ID given out
    where,      \* "fresh" (not allocated), "pool", "tree", or "dying"
    owner,      \* the process whose tree the node is or was last in, if any
    frames,     \* the calls of recycle that each process is in
    kids,       \* history: the children of each node, in order, that are not yet recycled
    used        \* history: the IDs of nodes that were ever in a tree

vars == <<links, id, nodeID, where, owner, frames, kids, used>>

NoLinks == [parent |-> Nil, first |-> Nil, last |-> Nil, prev |-> Nil, next |-> Nil]

Init ==
    /\ links = [n \in Nodes |-> NoLinks]
    /\ id = [n \in Nodes |-> 0]
    /\ nodeID = 0
    /\ where = [n \in Nodes |-> "fresh"]
    /\ owner = [n \in Nodes |-> Nil]
    /\ frames = [p \in Procs |-> <<>>]
    /\ kids = [n \in Nodes |-> <<>>]
    /\ used = {}

InTree(p, n) == where[n] = "tree" /\ owner[n] = p

Idle(p) == frames[p] = <<>>

(* nodePool.Get() gives a pooled node as it is, or allocates and resets one. *)
CreateNode(p) ==
    /\ Idle(p) /\ nodeID < MaxID
    /\ \E n \in Nodes :
          /\ where[n] \in {"fresh", "pool"}
          /\ nodeID' = IF where[n] = "fresh" THEN nodeID + 1 ELSE nodeID
          /\ id' = [id EXCEPT ![n] = IF where[n] = "fresh" THEN nodeID' ELSE @]
          /\ used' = used \cup {id'[n]}
          /\ where' = [where EXCEPT ![n] = "tree"]
          /\ owner' = [owner EXCEPT ![n] = p]
    /\ UNCHANGED <<links, frames, kids>>

(* AddChild without and with children already there. *)
FirstChild(par, n) ==
    [links EXCEPT ![n] = [@ EXCEPT !.parent = par, !.next = Nil, !.prev = Nil],
                  ![par] = [@ EXCEPT !.first = n, !.last = n]]

AnotherChild(par, n) ==
    LET l == links[par].last
    IN  [links EXCEPT ![n] = [@ EXCEPT !.parent = par, !.next = Nil, !.prev = l],
                      ![l].next = n,
                      ![par].last = n]

(* n and all nodes below it: what is in every set that has n and, with a *)
(* node, its children.                                                   *)
Closed(S) == \A m \in S : ToSet(kids[m]) \subseteq S

Subtree(n) == {m \in Nodes : \A S \in SUBSET Nodes : n \in S /\ Closed(S) => m \in S}

(* The readers only attach new nodes, perhaps with children already, that are nowhere else. *)
AddChild(p) ==
    \E par, n \in Nodes :
        /\ Idle(p) /\ InTree(p, par) /\ InTree(p, n)
        /\ links[n].parent = Nil
        /\ par \notin Subtree(n)
        /\ links' = IF links[par].first = Nil THEN FirstChild(par, n) ELSE AnotherChild(par, n)
        /\ kids' = [kids EXCEPT ![par] = Append(@, n)]
        /\ UNCHANGED <<id, nodeID, where, owner, frames, used>>

(* A wrong one, that leaves the parent's LastChild alone. *)
UnlinkedKeepingLast(n) ==
    LET l == links[n]
        p == l.parent
    IN  IF p = Nil THEN links
        ELSE IF links[p].first = n
        THEN IF l.next = Nil THEN [links EXCEPT ![p].first = Nil]
             ELSE [links EXCEPT ![p].first = l.next, ![l.next].prev = Nil]
        ELSE IF l.next = Nil THEN [links EXCEPT ![l.prev].next = Nil]
             ELSE [links EXCEPT ![l.prev].next = l.next, ![l.next].prev = l.prev]

(* An only child, the first, the last, and one in between is unlinked. *)
Unlinked(n) ==
    LET l == links[n]
        p == l.parent
    IN  IF p = Nil THEN links
        ELSE IF links[p].first = n
        THEN IF links[p].last = n
             THEN [links EXCEPT ![p] = [@ EXCEPT !.first = Nil, !.last = Nil]]
             ELSE [links EXCEPT ![p].first = l.next, ![l.next].prev = Nil]
        ELSE IF links[p].last = n
             THEN [links EXCEPT ![p].last = l.prev, ![l.prev].next = Nil]
             ELSE [links EXCEPT ![l.prev].next = l.next, ![l.next].prev = l.prev]

Frame(n, ls) == [node |-> n, child |-> ls[n].first]

(* The sequence s without e, which is in it once. *)
Without(s, e) == RemoveAt(s, CHOOSE i \in DOMAIN s : s[i] = e)

RemoveAndReleaseTree(p) ==
    \E n \in Nodes :
        /\ Idle(p) /\ InTree(p, n)
        /\ links' = Unlinked(n)
        /\ frames' = [frames EXCEPT ![p] = <<Frame(n, links)>>]
        /\ where' = [m \in Nodes |-> IF m \in Subtree(n) THEN "dying" ELSE where[m]]
        /\ kids' = [m \in Nodes |-> IF n \in ToSet(kids[m]) THEN Without(kids[m], n) ELSE kids[m]]
        /\ UNCHANGED <<id, nodeID, owner, used>>

(* The next child to recycle once c is: none; or the one that was saved. *)
AfterNone(c) == Nil
After(c) == links[c].next

(* recycle calls itself for the next child. *)
RecycleChild(p) ==
    LET top == Last(frames[p])
        c   == top.child
    IN  /\ ~Idle(p) /\ c # Nil
        /\ frames' = [frames EXCEPT ![p] = Append(Front(@) \o <<[top EXCEPT !.child = After(c)]>>,
                                                  Frame(c, links))]
        /\ kids' = [kids EXCEPT ![top.node] = Without(@, c)]
        /\ UNCHANGED <<links, id, nodeID, where, owner, used>>

(* The links after reset; siblings are kept in a wrong one. *)
ResetKeepingSiblings(n) == [links EXCEPT ![n] = [@ EXCEPT !.parent = Nil, !.first = Nil, !.last = Nil]]
ResetLinks(n) == [links EXCEPT ![n] = NoLinks]

(* The ID after reset; wrong ones keep the node's ID, or skip one. *)
ResetIDNot(n) == id[n]
ResetIDAhead(n) == nodeID + 2
ResetID(n) == nodeID + 1

(* All children are recycled: reset, Put, and return. *)
RecycleSelf(p) ==
    LET n == Last(frames[p]).node
    IN  /\ ~Idle(p) /\ Last(frames[p]).child = Nil
        /\ links' = ResetLinks(n)
        /\ nodeID' = nodeID + 1
        /\ id' = [id EXCEPT ![n] = ResetID(n)]
        /\ where' = [where EXCEPT ![n] = "pool"]
        /\ frames' = [frames EXCEPT ![p] = Front(@)]
        /\ UNCHANGED <<owner, kids, used>>

Next == \E p \in Procs : \/ CreateNode(p) \/ AddChild(p) \/ RemoveAndReleaseTree(p)
                         \/ RecycleChild(p) \/ RecycleSelf(p)

Spec == Init /\ [][Next]_vars

-----------------------------------------------------------------------------
(* The type invariant. *)
Pointers == Nodes \cup {Nil}

TypeOK ==
    /\ links \in [Nodes -> [parent : Pointers, first : Pointers, last : Pointers,
                            prev : Pointers, next : Pointers]]
    /\ nodeID \in Nat
    /\ id \in [Nodes -> 0..nodeID]
    /\ where \in [Nodes -> {"fresh", "pool", "tree", "dying"}]
    /\ owner \in [Nodes -> Procs \cup {Nil}]
    /\ frames \in [Procs -> Seq([node : Nodes, child : Pointers])]
    /\ kids \in [Nodes -> Seq(Nodes)]
    /\ used \subseteq 1..nodeID

(* The i-th child of n, or Nil. *)
Kid(n, i) == IF i \in DOMAIN kids[n] THEN kids[n][i] ELSE Nil

(***************************************************************************)
(* The five links of the nodes of a tree tell the same children in the     *)
(* same order, whatever was attached and released (node.go:135-169).       *)
(***************************************************************************)
LinksAgree ==
    \A n \in Nodes : where[n] = "tree" =>
        /\ links[n].first = Kid(n, 1) /\ links[n].last = Kid(n, Len(kids[n]))
        /\ \A i \in DOMAIN kids[n] :
              LET k == kids[n][i]
              IN  /\ where[k] = "tree" /\ owner[k] = owner[n]
                  /\ links[k].parent = n
                  /\ links[k].prev = Kid(n, i - 1) /\ links[k].next = Kid(n, i + 1)

(***************************************************************************)
(* A pooled node is clean, and no tree still leads to it: the next owner   *)
(* does not see, nor is seen in, somebody's old tree (node.go:87, 104).    *)
(***************************************************************************)
PoolClean ==
    \A n \in Nodes : where[n] = "pool" =>
        /\ links[n] = NoLinks
        /\ \A m \in Nodes : where[m] = "tree" =>
              n \notin {links[m].parent, links[m].first, links[m].last, links[m].prev, links[m].next}

(***************************************************************************)
(* recycle does not touch what it gave away, though the pool may have      *)
(* passed it on to another process, and forgets no node of the tree        *)
(* (node.go:176-189).                                                      *)
(***************************************************************************)
RecycleOwn ==
    \A p \in Procs :
        /\ \A i \in DOMAIN frames[p] :
              \A n \in {frames[p][i].node, frames[p][i].child} \ {Nil} :
                  where[n] = "dying" /\ owner[n] = p
        /\ Idle(p) => \A n \in Nodes : ~(where[n] = "dying" /\ owner[n] = p)

(***************************************************************************)
(* A node that comes out of CreateNode has an ID that no node of a tree    *)
(* ever had: caches are keyed by ID (node.go:49-53, 98-105).               *)
(***************************************************************************)
IDsNeverReused ==
    [][\A n \in Nodes : where[n] # "tree" /\ where'[n] = "tree" => id'[n] \notin used]_vars
=============================================================================
