------------------------------ MODULE EdiReader ------------------------------
(***************************************************************************)
(* The EDI reader (fileformat/edi): a stack machine like the one of the    *)
(* flat files, but one segment at a time is matched, by its name; a        *)
(* segment may lack elements; and when all declarations are done, a        *)
(* segment that could start the file starts it over.                       *)
(*                                                                         *)
(* One step is one iteration of the for loop of Read, with everything that *)
(* segNext and segDone, which call each other, do in it: Doing says which  *)
(* frames they go through.                                                 *)
(***************************************************************************)
EXTENDS Functions, SequencesExt, FiniteSetsExt

CONSTANTS
    Decls,      \* the segment declarations, numbered as they are declared; 0 is #root
    Names,      \* the names of segments
    Segs,       \* the segments
    NameOf,     \* their names
    Present,    \* and the elements they have
    Schemas,    \* the file declarations to explore
    Inputs      \* the inputs to explore: sequences of segments

Root == 0
Nil  == 0

(* filter is the set of segments that let a target starting with them pass. *)
FileDecls ==
    [ children : [Decls -> Seq(Decls)],
      group    : SUBSET Decls,
      target   : Decls,
      min      : [Decls -> Nat],
      max      : [Decls -> Nat],
      name     : [Decls -> Names],
      required : [Decls -> SUBSET Nat],
      filter   : SUBSET Segs ]

(* What validation guarantees; the root has the default min and max. *)
Valid(s) ==
    /\ \A d \in Decls : s.min[d] <= s.max[d]
    /\ \A d \in s.group : s.children[d] # <<>>
    /\ \A d \in Decls : \A i \in 1..Len(s.children[d]) :
          /\ s.children[d][i] > d
          /\ \A j \in 1..(i-1) : s.children[d][j] < s.children[d][i]
    /\ Root \in s.group
    /\ s.target # Root
    /\ s.min[Root] = 1 /\ s.max[Root] = 1

ASSUME EdiAssumption ==
    /\ Decls \subseteq Nat /\ Root \in Decls
    /\ NameOf \in [Segs -> Names]
    /\ Present \in [Segs -> SUBSET Nat]
    /\ Schemas \subseteq FileDecls
    /\ \A s \in Schemas : Valid(s)
    /\ Inputs \subseteq Seq(Segs)

VARIABLES
    fileDecl,           \* the schema in use
    segs, tail,         \* the input, and how it ends: "EOF" or "ERR"
    read,               \* the number of segments read
    unprocessedRawSeg,  \* the last of these if it is not yet part of a node, or Nil
    stack, target,      \* r.stack, r.target
    nodes, lastID,      \* the live segment nodes; the ID of the latest one
    reading,            \* whether a Read() is running
    reply,              \* what the last Read() returned
    delivered           \* history: the ranges of segments of the targets so far

src  == <<fileDecl, segs, tail>>
vars == <<src, read, unprocessedRawSeg, stack, target, nodes, lastID, reading,
          reply, delivered>>

Children(d)  == fileDecl.children[d]
Group(d)     == d \in fileDecl.group
Target(d)    == d = fileDecl.target
MinOccurs(d) == fileDecl.min[d]
MaxOccurs(d) == fileDecl.max[d]

(* The number of segments that are part of a node. *)
Processed == IF unprocessedRawSeg = Nil THEN read ELSE read - 1

-----------------------------------------------------------------------------
(* The IDR tree: the path of a node are the nodes from its root down to it. *)

NewNode(n, d, above) == [decl |-> d, path |-> above \cup {n}, from |-> Processed]

Created(n, node) == [m \in DOMAIN nodes \cup {n} |-> IF m = n THEN node ELSE nodes[m]]

(* A node without parent; and one that is the child of p. *)
WithRoot(n, d) == Created(n, NewNode(n, d, {}))

WithChild(n, d, p) == Created(n, NewNode(n, d, nodes[p].path))

Subtree(n) == {m \in DOMAIN nodes : n \in nodes[m].path}

(* RemoveAndReleaseTree *)
Released(n) == Restrict(nodes, DOMAIN nodes \ Subtree(n))

-----------------------------------------------------------------------------
Entry(d) == [decl |-> d, node |-> Nil, curChild |-> 1, occurred |-> 0]

Top == stack[Len(stack)]

(* A parent frame that is always the root's. *)
StackTopRoot == stack[1]
StackTop1 == stack[Len(stack) - 1]

Init ==
    /\ fileDecl \in Schemas
    /\ segs \in Inputs /\ tail \in {"EOF", "ERR"}
    /\ read = 0 /\ unprocessedRawSeg = Nil
    /\ stack = <<[Entry(Root) EXCEPT !.node = 1], Entry(Children(Root)[1])>>
    /\ target = Nil
    /\ nodes = [n \in {1} |-> [decl |-> Root, path |-> {1}, from |-> 0]]
    /\ lastID = 1
    /\ reading = FALSE
    /\ reply = [res |-> "none", node |-> Nil]
    /\ delivered = <<>>

(* The caller, as that of the HierarchyReader: no error is continuable. *)
Release ==
    /\ ~reading
    /\ reply.node # Nil
    /\ nodes' = Released(reply.node)
    /\ target' = IF target = reply.node THEN Nil ELSE target
    /\ reply' = [reply EXCEPT !.node = Nil]
    /\ UNCHANGED <<src, read, unprocessedRawSeg, stack, lastID, reading, delivered>>

Read ==
    /\ ~reading
    /\ reply.res \in {"none", "node"}
    /\ nodes' = IF target # Nil THEN Released(target) ELSE nodes
    /\ target' = Nil
    /\ reply' = [reply EXCEPT !.node = Nil]
    /\ reading' = TRUE
    /\ UNCHANGED <<src, read, unprocessedRawSeg, stack, lastID, delivered>>

Return(res, n) ==
    /\ reply' = [res |-> res, node |-> n]
    /\ reading' = FALSE

-----------------------------------------------------------------------------
(* segDone and segNext *)

(* Once this instance is done, no other may follow. *)
OverMax(e) == e.occurred + 1 >= MaxOccurs(e.decl)

TooFewOffByOne(d, occurred) == occurred + 1 < MinOccurs(d)
TooFew(d, occurred) == occurred < MinOccurs(d)

LastChild(e) == e.curChild >= Len(Children(e.decl))

(* segDone at height k of stack s gets to segNext, which does not fail (its *)
(* error would be dropped) and leaves the frame.                            *)
Leaves(s, k) ==
    /\ k > 1
    /\ OverMax(s[k])
    /\ ~TooFew(s[k].decl, s[k].occurred + 1)

(* segDone at height h reaches those frames below that it goes on to, as long *)
(* as there is no next sibling.                                               *)
Doing(s, h) == {k \in 1..h : \A j \in (k + 1)..h : Leaves(s, j) /\ LastChild(s[j - 1])}

DoneEntry(e, node) == [e EXCEPT !.curChild = 1, !.occurred = @ + 1, !.node = node]

(* The child declaration to go on to. *)
NextChildSame(e) == e.curChild
NextChild(e) == e.curChild + 1

(* The next sibling of the frame that was on top of the stack s. *)
ToSibling(s) ==
    LET par == Last(s)
        k   == NextChild(par)
    IN  Front(s) \o <<[par EXCEPT !.curChild = k], Entry(Children(par.decl)[k])>>

(* idr.MatchAny(cur.segNode, r.targetXPath), in the tree t *)
PassesFilter(t, n) == segs[t[n].from + 1] \in fileDecl.filter

(***************************************************************************)
(* segDone for the top of the stack s, in the tree t.  It panics when it   *)
(* does a target that has no node, or while another target waits.          *)
(***************************************************************************)
SegDone(s, t) ==
    LET doing   == Doing(s, Len(s))
        last    == Min(doing)
        targets == {k \in doing : Target(s[k].decl)}
        Fails(k) == ~PassesFilter(t, s[k].node)
        drop    == {s[k].node : k \in {j \in targets : Fails(j)}}
        kept    == {k \in targets : ~Fails(k)}
        done    == DoneEntry(s[last], IF s[last].node \in drop THEN Nil ELSE s[last].node)
    IN  IF \E k \in targets : \/ s[k].node = Nil
                              \/ target # Nil
                              \/ \E j \in targets : j > k /\ ~Fails(j)
        THEN Return("panic", Nil) /\ UNCHANGED <<stack, target, nodes>>
        ELSE /\ target' = IF kept = {} THEN target ELSE s[Min(kept)].node
             /\ nodes' = Restrict(t, {n \in DOMAIN t : t[n].path \cap drop = {}})
             /\ stack' = IF Leaves(s, last) THEN ToSibling(SubSeq(s, 1, last - 1))
                         ELSE Append(SubSeq(s, 1, last - 1), done)
             /\ UNCHANGED <<reading, reply>>

(* segNext, called by Read with more than the root on the stack. *)
SegNext ==
    IF TooFew(Top.decl, Top.occurred)
    THEN Return("fewer", Nil) /\ UNCHANGED <<stack, target, nodes>>
    ELSE IF LastChild(Last(Front(stack)))
    THEN SegDone(Front(stack), nodes)
    ELSE /\ stack' = ToSibling(Front(stack))
         /\ UNCHANGED <<target, nodes, reading, reply>>

-----------------------------------------------------------------------------
(* One iteration of the for loop of Read. *)

(* Returns the segment on top of the stack, not the one that was marked. *)
ReturnTop ==
    /\ reading /\ target # Nil
    /\ Return("node", Top.node)
    /\ delivered' = Append(delivered, <<nodes[target].from, Processed>>)
    /\ UNCHANGED <<src, read, unprocessedRawSeg, stack, target, nodes, lastID>>

ReturnTarget ==
    /\ reading /\ target # Nil
    /\ Return("node", target)
    /\ delivered' = Append(delivered, <<nodes[target].from, Processed>>)
    /\ UNCHANGED <<src, read, unprocessedRawSeg, stack, target, nodes, lastID>>

(* A loop that does not look at the target first. *)
AtLoopAnyTarget == reading
AtLoop == reading /\ target = Nil

(* getUnprocessedRawSeg: the segment at hand, if there is any. *)
RawSeg == IF unprocessedRawSeg = Nil THEN read + 1 ELSE unprocessedRawSeg
More   == RawSeg <= Len(segs)

NoMoreSegs ==
    /\ AtLoop /\ ~More
    /\ IF tail = "ERR"
       THEN Return("failed", Nil) /\ UNCHANGED <<stack, target, nodes>>
       ELSE IF Len(stack) <= 1
       THEN Return("EOF", Nil) /\ UNCHANGED <<stack, target, nodes>>
       ELSE SegNext
    /\ UNCHANGED <<src, read, unprocessedRawSeg, lastID, delivered>>

(* A group is known by its first heir that is not a group. *)
FirstSeg[d \in Decls] == IF Group(d) THEN FirstSeg[Children(d)[1]] ELSE d

MatchSegName(d) == fileDecl.name[FirstSeg[d]] = NameOf[segs[RawSeg]]

(* The segment at hand stays unprocessed, or has become a node. *)
Unprocessed == read' = RawSeg /\ unprocessedRawSeg' = RawSeg
ResetRawSegNot == read' = RawSeg /\ UNCHANGED unprocessedRawSeg
ResetRawSeg == read' = RawSeg /\ unprocessedRawSeg' = Nil

NoMatch ==
    /\ AtLoop /\ More /\ ~MatchSegName(Top.decl)
    /\ Unprocessed
    /\ IF Len(stack) <= 1
       THEN Return("unexpected", Nil) /\ UNCHANGED <<stack, target, nodes>>
       ELSE SegNext
    /\ UNCHANGED <<src, lastID, delivered>>

(* rawSegToNode does not find an element that has no default. *)
MissingElem(d) == fileDecl.required[d] \ Present[segs[RawSeg]] # {}

MatchFails ==
    /\ AtLoop /\ More /\ MatchSegName(Top.decl)
    /\ ~Group(Top.decl) /\ MissingElem(Top.decl)
    /\ Unprocessed
    /\ stack' = [stack EXCEPT ![Len(stack)].node = Nil]
    /\ Return("invalid", Nil)
    /\ UNCHANGED <<src, target, nodes, lastID, delivered>>

(* With only the root on the stack, it gets a new node: a second tree. *)
AtRoot == Len(stack) = 1

Grown(n, d) == IF AtRoot THEN WithRoot(n, d) ELSE WithChild(n, d, StackTop1.node)

(* The first child of the matched segment is next, if it has one. *)
Match ==
    LET d == Top.decl
        n == lastID + 1
        s == [stack EXCEPT ![Len(stack)].node = n]
    IN  /\ AtLoop /\ More /\ MatchSegName(d)
        /\ Group(d) \/ ~MissingElem(d)
        /\ IF Group(d) THEN Unprocessed ELSE ResetRawSeg
        /\ lastID' = n
        /\ IF Children(d) = <<>>
           THEN SegDone(s, Grown(n, d))
           ELSE /\ stack' = Append(s, Entry(Children(d)[1]))
                /\ nodes' = Grown(n, d)
                /\ UNCHANGED <<target, reading, reply>>
        /\ UNCHANGED <<src, delivered>>

(* The stream has ended, and the caller knows. *)
Ended ==
    /\ ~reading /\ reply.res \notin {"none", "node"}
    /\ UNCHANGED vars

ReadStep == ReturnTarget \/ NoMoreSegs \/ NoMatch \/ MatchFails \/ Match

Next == Release \/ Read \/ ReadStep \/ Ended

(* A call of Read() that has been made keeps running until it returns. *)
Spec == Init /\ [][Next]_vars /\ WF_vars(ReadStep)

-----------------------------------------------------------------------------
(***************************************************************************)
(* segDone's two panics are unreachable: no target is done while another   *)
(* one waits, and none without a node (edi/reader.go:149-154).             *)
(***************************************************************************)
NoPanic == reply.res # "panic"

(* The nodes that are still being filled: those of the frames below the top. *)
OpenNodes == {stack[i].node : i \in 1..(Len(stack) - 1)}

(***************************************************************************)
(* AddChild always attaches to a live node: the frames below the top hold, *)
(* from the root of the current tree down, live nodes of their own         *)
(* declarations, whatever was released and however often the root was      *)
(* started over (edi/reader.go:252-262).                                   *)
(***************************************************************************)
OpenChainLive ==
    \A i \in 1..(Len(stack) - 1) :
        /\ stack[i].node \in DOMAIN nodes
        /\ nodes[stack[i].node].decl = stack[i].decl
        /\ nodes[stack[i].node].path = {stack[j].node : j \in 1..i}

(***************************************************************************)
(* What Read() hands out is a complete target that passed the filter, and  *)
(* no node of it or above it is recycled or still to be reached by another *)
(* target.                                                                 *)
(***************************************************************************)
ReturnedTargetIntact ==
    reply.node # Nil =>
        /\ Target(nodes[reply.node].decl)
        /\ PassesFilter(nodes, reply.node)
        /\ Subtree(reply.node) \cap OpenNodes = {}
        /\ nodes[reply.node].path \subseteq DOMAIN nodes
        /\ reply.node = target

(***************************************************************************)
(* Every Read() returns: each iteration consumes a segment, descends into  *)
(* a group whose first heir will, or moves on.                             *)
(***************************************************************************)
ReadTerminates == reading ~> ~reading
==============================================================================
