---------------------------- MODULE StreamReader ----------------------------
(***************************************************************************)
(* What the xml and the json stream reader of package idr have in common:  *)
(* they build a tree from the tokens of the input, mark the node at which  *)
(* the stream xpath, without its last filter, first matches as the stream  *)
(* candidate, check the whole xpath when that node is complete, and return *)
(* or drop it.                                                             *)
(*                                                                         *)
(* An xpath is a sequence of steps, child:: or descendant::, each with a   *)
(* name test and a filter that asks for a child of some name.  The texts   *)
(* and the attributes of a node are left out: a filter that depends on     *)
(* them is decided, like one on children, while the node is being read.    *)
(***************************************************************************)
EXTENDS Naturals, Functions, SequencesExt, FiniteSetsExt

CONSTANTS
    Names,      \* the names of elements
    XPaths,     \* the stream xpaths to explore for each format
    Inputs      \* the inputs to explore for each format: sequences of tokens

Nil  == 0
Root == 1
Star  == "*"     \* any name; as a filter: none

Formats == {"xml", "json"}

Steps == [deep : BOOLEAN, name : Names \cup {Star}, has : Names \cup {Star}]

ASSUME StreamAssumption ==
    /\ Star \notin Names
    /\ DOMAIN XPaths = Formats /\ DOMAIN Inputs = Formats
    /\ \A f \in Formats : XPaths[f] \subseteq Seq(Steps)

VARIABLES
    format,         \* which of the two readers it is
    xpath,          \* the stream xpath in use; "." and "/" have no steps
    toks, read,     \* the input, and the number of tokens read
    nodes, lastID,  \* the tree; the ID of the latest node
    cur, stream,    \* sp.cur, sp.stream
    reading,        \* whether a Read() is running
    reply,          \* what the last Read() returned
    delivered       \* history: the first and last tokens of the targets so far

config == <<format, xpath, toks>>
vars   == <<config, read, nodes, lastID, cur, stream, reading, reply, delivered>>

-----------------------------------------------------------------------------
(* The tree.  kind is the JSONType of a node, a set of flags; at is the    *)
(* number of the token it was created for.                                 *)

NodeOf(n, p, above, name, kind, at) ==
    [name |-> name, kind |-> kind, at |-> at, parent |-> p, path |-> above \cup {n}]

(* CreateNode and AddChild under sp.cur, for the token at hand. *)
NewID == lastID + 1

Grown(name, kind) ==
    LET new == NodeOf(NewID, cur, nodes[cur].path, name, kind, read + 1)
    IN  [n \in DOMAIN nodes \cup {NewID} |-> IF n = NewID THEN new ELSE nodes[n]]

Subtree(t, n) == {m \in DOMAIN t : n \in t[m].path}

(* RemoveAndReleaseTree *)
Released(t, n) == Restrict(t, DOMAIN t \ Subtree(t, n))

(* xpath.Expr.Select from the root of the tree t: the nodes to which a walk *)
(* down from it takes one step after the other.                             *)
Below(t, n, m, deep) == IF deep THEN m \in t[n].path \ {n} ELSE m = t[n].parent

Passes(t, n, step) ==
    /\ step.name \in {Star, t[n].name}
    /\ step.has # Star => \E k \in DOMAIN t : t[k].parent = n /\ t[k].name = step.has

Walks(t, p, n) == {w \in [0..Len(p) -> t[n].path] : w[0] = Root /\ w[Len(p)] = n}

Select(t, p) ==
    {n \in DOMAIN t : \E w \in Walks(t, p, n) : \A i \in 1..Len(p) :
        Below(t, w[i], w[i - 1], p[i].deep) /\ Passes(t, w[i], p[i])}

MatchAny(t, p) == Select(t, p) # {}

(* removeLastFilterInXPath *)
NoLastFilter(p) == IF p = <<>> THEN p ELSE [p EXCEPT ![Len(p)].has = Star]

-----------------------------------------------------------------------------
StreamInit ==
    /\ xpath \in XPaths[format] /\ toks \in Inputs[format]
    /\ read = 0
    /\ lastID = Root
    /\ cur = Root /\ stream = Nil
    /\ reading = FALSE
    /\ reply = [res |-> "none", node |-> Nil]
    /\ delivered = <<>>

Release ==
    /\ ~reading /\ reply.node # Nil
    /\ nodes' = Released(nodes, reply.node)
    /\ stream' = IF stream = reply.node THEN Nil ELSE stream
    /\ reply' = [reply EXCEPT !.node = Nil]
    /\ UNCHANGED <<config, read, lastID, cur, reading, delivered>>

(* Every error is final for the caller. *)
Read ==
    /\ ~reading /\ reply.res \in {"none", "node"}
    /\ nodes' = IF stream # Nil THEN Released(nodes, stream) ELSE nodes
    /\ stream' = Nil
    /\ reply' = [reply EXCEPT !.node = Nil]
    /\ reading' = TRUE
    /\ UNCHANGED <<config, read, lastID, cur, delivered>>

-----------------------------------------------------------------------------
(* One iteration of the loop of parse, in parts. *)

Return(res, n) ==
    /\ reply' = [res |-> res, node |-> n]
    /\ reading' = FALSE

(* Token() fails: with io.EOF at the end, with another error anywhere. *)
TokenFails ==
    /\ reading
    /\ \/ Return("failed", Nil)
       \/ read = Len(toks) /\ Return("EOF", Nil)
    /\ UNCHANGED <<config, read, nodes, lastID, cur, stream, delivered>>

Tok == toks[read + 1]

TokenRead ==
    /\ reading /\ read < Len(toks)
    /\ read' = read + 1
    /\ UNCHANGED config

(* The part of the state that only a finished target changes. *)
ReadGoesOn == UNCHANGED <<reading, reply, delivered>>

(* Something matches, and it is not inside another candidate. *)
IsCandidate(t) == stream = Nil /\ MatchAny(t, NoLastFilter(xpath))

(* The stream after streamCandidateCheck with node c of the tree t as sp.cur. *)
StreamCandidateCheck(t, c) == IF IsCandidate(t) THEN c ELSE stream

(* The complete node stays the current one; or its grandparent is next. *)
UpFromNot(t, c) == c
UpFromTwice(t, c) == LET p == t[c].parent IN IF p = Nil THEN Nil ELSE t[p].parent
UpFrom(t, c) == t[c].parent

(* No last filter, or it holds somewhere in the tree. *)
FilterHolds(t) == xpath = NoLastFilter(xpath) \/ MatchAny(t, xpath)

(* A candidate that is not a target stays in the tree; or it is removed. *)
RejectedKept(t, s) == t
Rejected(t, s) == Released(t, s)

(* wrapUpCurAndTargetCheck with c as sp.cur and s as sp.stream, in the tree t. *)
WrapUpCurAndTargetCheck(t, c, s) ==
    /\ cur' = UpFrom(t, c)
    /\ IF c # s
       THEN nodes' = t /\ stream' = s /\ ReadGoesOn
       ELSE IF FilterHolds(t)
       THEN /\ nodes' = t /\ stream' = s
            /\ Return("node", s)
            /\ delivered' = Append(delivered, <<t[s].at, read + 1>>)
       ELSE nodes' = Rejected(t, s) /\ stream' = Nil /\ ReadGoesOn

(* The xml reader would return the same error again, the json one is not called. *)
Ended ==
    /\ ~reading /\ reply.res \notin {"none", "node"}
    /\ UNCHANGED vars

-----------------------------------------------------------------------------
(***************************************************************************)
(* What is released is never reached again: the current node, to which     *)
(* AddChild attaches, and all nodes above it are live, and so are all the  *)
(* nodes above a returned one, which a transform may navigate to (sp.cur   *)
(* moves up before the node is removed, xmlreader.go:40, jsonreader.go:56).*)
(***************************************************************************)
CurLive ==
    /\ cur # Nil => cur \in DOMAIN nodes /\ nodes[cur].path \subseteq DOMAIN nodes
    /\ reply.node # Nil =>
          /\ nodes[reply.node].path \subseteq DOMAIN nodes
          /\ cur \notin Subtree(nodes, reply.node)

(* The nodes of the tree t that satisfy crit, its last filter aside, are the *)
(* stream candidate or below it.                                             *)
MatchesInStream(crit) ==
    Select(nodes, NoLastFilter(crit)) \subseteq
        IF stream = Nil THEN {} ELSE Subtree(nodes, stream)

(* An xpath without filters before its last step and, if that one has a *)
(* filter, without descendant steps.                                    *)
Simple(p) ==
    /\ \A i \in 1..(Len(p) - 1) : p[i].has = Star
    /\ p # <<>> /\ Last(p).has # Star => \A i \in 1..Len(p) : ~p[i].deep

-----------------------------------------------------------------------------
(* The tree of a whole document, with its elements from the tokens at      *)
(* starts to those at end; and the elements, outermost first, that crit    *)
(* selects in it and that are complete so far.                             *)

DocOf(starts, end(_), name(_)) ==
    LET to == [i \in starts |-> end(i)]
        around(i) == {j \in starts : j <= i /\ to[j] >= to[i]}
        node(i) == NodeOf(i + 1, Max({j + 1 : j \in around(i) \ {i}} \cup {Nil}),
                          {j + 1 : j \in around(i)}, name(i), {}, i)
    IN  [n \in {i + 1 : i \in starts} |-> node(n - 1) @@ [to |-> to[n - 1]]]

TargetsOf(doc, crit) ==
    LET sel == Select(doc, crit)
        top == {n \in sel : sel \cap doc[n].path = {n} /\ doc[n].to <= read}
    IN  SetToSortSeq({<<doc[n].at, doc[n].to>> : n \in top}, LAMBDA x, y : x[1] < y[1])
=============================================================================
