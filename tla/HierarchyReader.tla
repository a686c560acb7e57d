--------------------------- MODULE HierarchyReader ---------------------------
(***************************************************************************)
(* flatfile.HierarchyReader: the stack machine that reads csv2 and         *)
(* fixedlength2 records, matches them against the declared hierarchy,      *)
(* grows the IDR tree and hands out one target node per Read().            *)
(*                                                                         *)
(* A Read() call runs to completion without interleaving, but it loops and *)
(* recDone and recNext call each other.  Here pc says which of these       *)
(* functions is about to run: "idle" between two calls of Read, "loop" at  *)
(* the head of the for loop of Read, "recDone" and "recNext" at the entry  *)
(* of these two functions.  Both only ever call each other in tail         *)
(* position, so no return stack is needed; caller says who called recNext, *)
(* because recDone throws the error of recNext away and Read returns it.   *)
(***************************************************************************)
EXTENDS RecReader, Functions, SequencesExt

CONSTANTS
    Decls,      \* the record declarations of a schema, numbered in the order in
                \* which they are declared; 0 is the artificial #root
    Lines,      \* the kinds of input lines
    Schemas,    \* the file declarations to explore
    Inputs      \* the input files to explore: sequences of lines

Root == 0

(***************************************************************************)
(* The shape of a file declaration.  filter is the set of line kinds that  *)
(* let a record starting with such a line pass the target xpath filter.    *)
(***************************************************************************)
FileDecls ==
    [ children : [Decls -> Seq(Decls)],
      group    : SUBSET Decls,
      target   : Decls,
      min      : [Decls -> Nat],
      max      : [Decls -> Nat],
      format   : [Decls -> [rows   : Nat,
                            header : SUBSET Lines,
                            footer : SUBSET Lines]],
      filter   : SUBSET Lines ]

(***************************************************************************)
(* What schema validation guarantees: exactly one target, a group has      *)
(* children, min <= max.  The declarations are nested JSON objects, so the *)
(* children of a declaration are declared after it and one after another.  *)
(* The root is a group that occurs exactly once and is not the target.     *)
(***************************************************************************)
Valid(s) ==
    /\ \A d \in Decls : s.min[d] <= s.max[d]
    /\ \A d \in s.group \ {Root} : s.children[d] # <<>>
    /\ \A d \in Decls : \A i \in 1..Len(s.children[d]) :
          /\ s.children[d][i] > d
          /\ \A j \in 1..(i-1) : s.children[d][j] < s.children[d][i]
    /\ Root \in s.group
    /\ s.target # Root
    /\ s.min[Root] = 1
    /\ s.max[Root] = 1

ASSUME SchemaAssumption ==
    /\ Decls \subseteq Nat
    /\ Root \in Decls
    /\ Schemas \subseteq FileDecls
    /\ \A s \in Schemas : Valid(s)
    /\ Inputs \subseteq Seq(Lines)

VARIABLES
    fileDecl,   \* the schema in use
    lines,      \* the whole input ...
    tail,       \* ... and how it ends
    pos,        \* number of lines consumed by records so far
    stack,      \* r.stack
    target,     \* r.target
    nodes,      \* the live IDR record nodes
    lastID,     \* the ID of the node created last
    pc, caller, \* where Read() is
    reply,      \* what the last Read() returned
    delivered   \* history: the line ranges of the targets returned so far

src  == <<fileDecl, lines, tail>>
vars == <<fileDecl, lines, tail, pos, stack, target, nodes, lastID,
          pc, caller, reply, delivered>>

Nil == 0

ChildDecls(d) == fileDecl.children[d]
Group(d)      == d \in fileDecl.group
Target(d)     == d = fileDecl.target
MinOccurs(d)  == fileDecl.min[d]
MaxOccurs(d)  == fileDecl.max[d]

(* The unprocessed lines: read ahead or not, none is part of a record yet. *)
Rest == SubSeq(lines, pos + 1, Len(lines))

-----------------------------------------------------------------------------
(* The IDR tree.  A node remembers its declaration, its parent, the nodes  *)
(* from the document node down to itself, the number of lines consumed     *)
(* when it was created and, as history, how many instances of each child   *)
(* declaration were ever attached to it.  No node is ever moved, and IDs   *)
(* grow, so the children of a node are ordered by their IDs.               *)

NoKids == [d \in Decls |-> 0]

NewNode(n, d, p) ==
    [decl |-> d, parent |-> p, path |-> nodes[p].path \cup {n},
     from |-> pos, kids |-> NoKids]

(* CreateNode and AddChild of a record node n under node p. *)
WithChild(n, d, p) ==
    [m \in DOMAIN nodes \cup {n} |->
        IF m = n THEN NewNode(n, d, p)
        ELSE IF m = p THEN [nodes[p] EXCEPT !.kids[d] = @ + 1]
        ELSE nodes[m]]

(* The node itself and everything below it. *)
Subtree(n) == {m \in DOMAIN nodes : n \in nodes[m].path}

(* RemoveAndReleaseTree: the whole subtree leaves the tree and is recycled. *)
Released(n) == Restrict(nodes, DOMAIN nodes \ Subtree(n))

-----------------------------------------------------------------------------
Entry(d) == [decl |-> d, node |-> Nil, curChild |-> 1, occurred |-> 0]

Top == stack[Len(stack)]

(* A parent frame that is always the root's. *)
StackTopRoot == stack[1]

StackTop1 == stack[Len(stack) - 1]

Init ==
    /\ fileDecl \in Schemas
    /\ lines \in Inputs
    /\ tail \in Tails
    /\ pos = 0
    /\ stack = LET root == [Entry(Root) EXCEPT !.node = 1] IN
               IF ChildDecls(Root) = <<>> THEN <<root>>
               ELSE <<root, Entry(ChildDecls(Root)[1])>>
    /\ target = Nil
    /\ nodes = [n \in {1} |-> [decl |-> Root, parent |-> Nil, path |-> {1},
                              from |-> 0, kids |-> NoKids]]
    /\ lastID = 1
    /\ pc = "idle"
    /\ caller = "Read"
    /\ reply = [res |-> "none", node |-> Nil]
    /\ delivered = <<>>

(***************************************************************************)
(* The caller.  The ingester releases the node it got before it reads the  *)
(* next one, but Read() does not count on that.  After any error, io.EOF   *)
(* included, the reader is not called again: none of its errors is         *)
(* continuable.                                                            *)
(***************************************************************************)
ReleaseKeepingTarget ==
    /\ pc = "idle"
    /\ reply.node # Nil
    /\ nodes' = Released(reply.node)
    /\ reply' = [reply EXCEPT !.node = Nil]
    /\ UNCHANGED <<src, pos, stack, target, lastID, pc, caller, delivered>>

Release ==
    /\ pc = "idle"
    /\ reply.node # Nil
    /\ nodes' = Released(reply.node)
    /\ target' = IF target = reply.node THEN Nil ELSE target
    /\ reply' = [reply EXCEPT !.node = Nil]
    /\ UNCHANGED <<src, pos, stack, lastID, pc, caller, delivered>>

Read ==
    /\ pc = "idle"
    /\ reply.res \in {"none", "node"}
    /\ nodes' = IF target # Nil THEN Released(target) ELSE nodes
    /\ target' = Nil
    /\ reply' = [reply EXCEPT !.node = Nil]
    /\ pc' = "loop"
    /\ UNCHANGED <<src, pos, stack, lastID, caller, delivered>>

Return(res) ==
    /\ reply' = [res |-> res, node |-> Nil]
    /\ pc' = "idle"

-----------------------------------------------------------------------------
(* One iteration of the for loop of Read. *)

(* Returns the record on top of the stack, not the one that was marked. *)
ReturnTop ==
    /\ pc = "loop"
    /\ target # Nil
    /\ reply' = [res |-> "node", node |-> Top.node]
    /\ delivered' = Append(delivered, <<nodes[target].from, pos>>)
    /\ pc' = "idle"
    /\ UNCHANGED <<src, pos, stack, target, nodes, lastID, caller>>

ReturnTarget ==
    /\ pc = "loop"
    /\ target # Nil
    /\ reply' = [res |-> "node", node |-> target]
    /\ delivered' = Append(delivered, <<nodes[target].from, pos>>)
    /\ pc' = "idle"
    /\ UNCHANGED <<src, pos, stack, target, nodes, lastID, caller>>

(* A loop that does not look at the target first. *)
AtLoopAnyTarget == pc = "loop"

AtLoop == pc = "loop" /\ target = Nil

MoreUnprocessedDataFails ==
    /\ AtLoop
    /\ MoreFails(Rest, tail)
    /\ Return("failed")
    /\ UNCHANGED <<src, pos, stack, target, nodes, lastID, caller, delivered>>

CallRecNext ==
    /\ pc' = "recNext"
    /\ caller' = "Read"

(* No data is left: either everything is done, or the next declaration is up. *)
NoMoreData ==
    /\ AtLoop
    /\ Rest = <<>>
    /\ tail = "EOF"
    /\ IF Len(stack) <= 1
       THEN Return("EOF") /\ UNCHANGED caller
       ELSE CallRecNext /\ UNCHANGED reply
    /\ UNCHANGED <<src, pos, stack, target, nodes, lastID, delivered>>

UnexpectedData ==
    /\ AtLoop
    /\ Rest # <<>>
    /\ Len(stack) <= 1
    /\ Return("unexpected")
    /\ UNCHANGED <<src, pos, stack, target, nodes, lastID, caller, delivered>>

(* readRec matches a group by the first heir in line that is not a group. *)
FirstRec[d \in Decls] ==
    LET heir == ChildDecls(d)[1] IN IF Group(heir) THEN FirstRec[heir] ELSE heir

NonGroupDecl(d) == IF Group(d) THEN FirstRec[d] ELSE d

FormatOf(d) == fileDecl.format[NonGroupDecl(d)]

AtRecord == AtLoop /\ Rest # <<>> /\ Len(stack) > 1

ReadRecFails ==
    /\ AtRecord
    /\ MatchFails(FormatOf(Top.decl), Rest, tail)
    /\ Return("failed")
    /\ UNCHANGED <<src, pos, stack, target, nodes, lastID, caller, delivered>>

ReadRecNoMatch ==
    /\ AtRecord
    /\ ~MatchFails(FormatOf(Top.decl), Rest, tail)
    /\ MatchedLines(FormatOf(Top.decl), Rest) = 0
    /\ CallRecNext
    /\ UNCHANGED <<src, pos, stack, target, nodes, lastID, reply, delivered>>

(***************************************************************************)
(* The record at the top of the stack matches.  A group consumes nothing   *)
(* (createIDR is false): its first heir will match the same lines again.   *)
(***************************************************************************)
ReadRecMatch ==
    LET d == Top.decl
        n == lastID + 1
        k == MatchedLines(FormatOf(d), Rest)
        matched == [stack EXCEPT ![Len(stack)].node = n]
    IN  /\ AtRecord
        /\ k > 0
        /\ pos' = IF Group(d) THEN pos ELSE pos + k
        /\ lastID' = n
        /\ nodes' = WithChild(n, d, StackTop1.node)
        /\ IF ChildDecls(d) # <<>>
           THEN /\ stack' = Append(matched, Entry(ChildDecls(d)[1]))
                /\ UNCHANGED pc
           ELSE /\ stack' = matched
                /\ pc' = "recDone"
        /\ UNCHANGED <<src, target, caller, reply, delivered>>

-----------------------------------------------------------------------------
(* idr.MatchAny(cur.recNode, targetXPathExpr) *)
PassesFilter(n) == lines[nodes[n].from + 1] \in fileDecl.filter

(* Another instance of the record may follow; one instance only; one too many. *)
MoreOccursNever(e) == FALSE
MoreOccursOffByOne(e) == e.occurred + 1 <= MaxOccurs(e.decl)
MoreOccurs(e) == e.occurred + 1 < MaxOccurs(e.decl)

(* recDone panics when a target is already waiting or the record has no node. *)
RecDonePanics == Target(Top.decl) /\ (target # Nil \/ Top.node = Nil)

RecDone ==
    LET cur  == Top
        drop == Target(cur.decl) /\ ~PassesFilter(cur.node)
        done == [cur EXCEPT !.curChild = 1,
                            !.occurred = @ + 1,
                            !.node = IF drop THEN Nil ELSE @]
    IN  /\ pc = "recDone"
        /\ ~RecDonePanics
        /\ stack' = [stack EXCEPT ![Len(stack)] = done]
        /\ target' = IF Target(cur.decl) /\ ~drop THEN cur.node ELSE target
        /\ nodes' = IF drop THEN Released(cur.node) ELSE nodes
        /\ IF MoreOccurs(cur)
           THEN pc' = "loop" /\ UNCHANGED caller
           ELSE pc' = "recNext" /\ caller' = "recDone"
        /\ UNCHANGED <<src, pos, lastID, reply, delivered>>

TooFewOffByOne == Top.occurred + 1 < MinOccurs(Top.decl)
TooFew == Top.occurred < MinOccurs(Top.decl)

(* recNext fails: Read returns the error, recDone would drop it. *)
RecNextFails ==
    /\ pc = "recNext"
    /\ TooFew
    /\ IF caller = "Read"
       THEN Return("fewer")
       ELSE pc' = "loop" /\ UNCHANGED reply
    /\ UNCHANGED <<src, pos, stack, target, nodes, lastID, caller, delivered>>

(* The root itself is done: it stays on the stack for good. *)
RecNextRoot ==
    /\ pc = "recNext"
    /\ ~TooFew
    /\ Len(stack) <= 1
    /\ pc' = "loop"
    /\ UNCHANGED <<src, pos, stack, target, nodes, lastID, caller, reply,
                   delivered>>

(* Whether e has another child declaration, and e on its way to that one. *)
MoreSiblingsOffByOne(e) == e.curChild + 1 < Len(ChildDecls(e.decl))
MoreSiblings(e) == e.curChild < Len(ChildDecls(e.decl))

NotAdvanced(e) == e
Advanced(e) == [e EXCEPT !.curChild = @ + 1]

(* On to the next sibling, or the parent's instance is done. *)
RecNextUp ==
    LET up  == Front(stack)
        par == StackTop1
    IN  /\ pc = "recNext"
        /\ ~TooFew
        /\ Len(stack) > 1
        /\ IF MoreSiblings(par)
           THEN /\ stack' = Append([up EXCEPT ![Len(up)] = Advanced(par)],
                                   Entry(ChildDecls(par.decl)[par.curChild + 1]))
                /\ pc' = "loop"
           ELSE /\ stack' = up
                /\ pc' = "recDone"
        /\ UNCHANGED <<src, pos, target, nodes, lastID, caller, reply, delivered>>

(* The stream has ended, and the caller knows. *)
Ended ==
    /\ pc = "idle"
    /\ reply.res \notin {"none", "node"}
    /\ UNCHANGED vars

ReadStep ==
    \/ ReturnTarget \/ MoreUnprocessedDataFails \/ NoMoreData \/ UnexpectedData
    \/ ReadRecFails \/ ReadRecNoMatch \/ ReadRecMatch
    \/ RecDone \/ RecNextFails \/ RecNextRoot \/ RecNextUp

Next == Release \/ Read \/ ReadStep \/ Ended

(* A call of Read() that has been made keeps running until it returns. *)
Spec == Init /\ [][Next]_vars /\ WF_vars(ReadStep)

-----------------------------------------------------------------------------
(* The type invariant. *)
Entries == [decl : Decls, node : Nat, curChild : Nat \ {0}, occurred : Nat]

Results == {"none", "node", "EOF", "failed", "unexpected", "fewer"}

NodeRecs == [decl : Decls, parent : Nat, path : SUBSET Nat, from : Nat,
             kids : [Decls -> Nat]]

TypeOK ==
    /\ fileDecl \in Schemas
    /\ lines \in Inputs
    /\ tail \in Tails
    /\ pos \in Nat
    /\ stack \in Seq(Entries) /\ stack # <<>>
    /\ lastID \in Nat \ {0}
    /\ DOMAIN nodes \subseteq 1..lastID
    /\ \A n \in DOMAIN nodes : nodes[n] \in NodeRecs
    /\ target \in DOMAIN nodes \cup {Nil}
    /\ pc \in {"idle", "loop", "recDone", "recNext"}
    /\ caller \in {"Read", "recDone"}
    /\ reply \in [res : Results, node : DOMAIN nodes \cup {Nil}]
    /\ delivered \in Seq(Nat \X Nat)

(***************************************************************************)
(* recDone's two panics are unreachable: whenever a target record is done, *)
(* no earlier target is still waiting to be returned and the record has a  *)
(* node (hierarchyReader.go:223-229).                                      *)
(***************************************************************************)
NoPanic == pc = "recDone" => ~RecDonePanics

(***************************************************************************)
(* "the calling to recNext() from recDone() will never fail": the error    *)
(* that recDone throws away is never one (hierarchyReader.go:240-245).     *)
(***************************************************************************)
RecDoneNeverFails == pc = "recNext" /\ caller = "recDone" => ~TooFew

(***************************************************************************)
(* An entry is open while the instance its node stands for is still being  *)
(* filled: it has entries above it, or its recDone is about to run.        *)
(***************************************************************************)
Open(i) == i < Len(stack) \/ pc = "recDone"

(***************************************************************************)
(* Recycled nodes are never reached from the stack: the open entries hold  *)
(* a chain of live nodes of their own declarations, each the parent of the *)
(* next, from the root down, so that AddChild always attaches to a node    *)
(* that is part of the tree, whatever was released before.                 *)
(***************************************************************************)
OpenChainLive ==
    \A i \in 1..Len(stack) : Open(i) =>
        /\ stack[i].node \in DOMAIN nodes
        /\ nodes[stack[i].node].decl = stack[i].decl
        /\ nodes[stack[i].node].parent = IF i = 1 THEN Nil ELSE stack[i-1].node

OpenNodes == {stack[i].node : i \in {j \in 1..Len(stack) : Open(j)}}

(* The number of child instances is one the declaration allows. *)
Enough(n, c) == nodes[n].kids[c] >= MinOccurs(c)
(* The max that recDone makes of a declared one: it compares after it counts. *)
MaxEffective(d) == IF MaxOccurs(d) >= 1 THEN MaxOccurs(d) ELSE 1

NotMore(n, c) == nodes[n].kids[c] <= MaxEffective(c)

Kids(n) == Range(ChildDecls(nodes[n].decl))

(***************************************************************************)
(* min and max hold in the tree: a record instance that is complete got,   *)
(* over its life and including the instances already transformed and       *)
(* released, between min and max instances of every child declaration      *)
(* (a max of 0 is 1, see README).  At io.EOF this says it of the whole     *)
(* file, because the root is complete.                                     *)
(***************************************************************************)
OccursHonoured ==
    \A n \in DOMAIN nodes \ OpenNodes : \A c \in Kids(n) :
        Enough(n, c) /\ NotMore(n, c)

(***************************************************************************)
(* Releasing takes whole subtrees and never the root: every live node but  *)
(* the document node is the child of a live one, created before it.        *)
(***************************************************************************)
TreeClosed ==
    /\ 1 \in DOMAIN nodes
    /\ \A n \in DOMAIN nodes \ {1} :
          nodes[n].parent \in DOMAIN nodes /\ nodes[n].parent < n

(***************************************************************************)
(* What Read() hands out is a complete record of the target declaration    *)
(* that passed the filter and is still the cached target: nothing in its   *)
(* subtree is still being filled.  (Its ancestors, which a transform may   *)
(* navigate to with "..", are live by TreeClosed.)                         *)
(***************************************************************************)
ReturnedTargetIntact ==
    reply.node # Nil =>
        /\ Target(nodes[reply.node].decl)
        /\ PassesFilter(reply.node)
        /\ Subtree(reply.node) \cap OpenNodes = {}
        /\ reply.node = target

(***************************************************************************)
(* Every Read() returns: a step of its loop that consumes no line moves on *)
(* in the hierarchy, and a group that matched descends to a record that    *)
(* consumes the line.                                                      *)
(***************************************************************************)
ReadTerminates == pc # "idle" ~> pc = "idle"
=============================================================================
