-------------------------- MODULE StreamReaderProofs --------------------------
(***************************************************************************)
(* Theorems about the xml and the json stream reader, for all xpaths and   *)
(* all inputs that the decoders can return, which for json includes what   *)
(* follows the value at the top.                                           *)
(*                                                                         *)
(* Both readers go up from a node before they look whether it is a target, *)
(* so that what is released never holds the current node.  The candidate   *)
(* check asks whether anything in the tree matches.  That what matches is  *)
(* the current node holds because a match, in a path without filters,      *)
(* depends on the nodes above it only, and all earlier matches are within  *)
(* the candidate, which is gone before there is another.                   *)
(***************************************************************************)
EXTENDS StreamReaders, FiniteSetTheorems,
        SequenceTheorems, WellFoundedInduction, TLAPS

(* Popping a stack drops its last entry and keeps the others. *)
LEMMA FrontType ==
    ASSUME NEW S, NEW s \in Seq(S), s # <<>>
    PROVE  /\ Front(s) \in Seq(S)
           /\ Len(Front(s)) = Len(s) - 1
           /\ \A i \in 1..(Len(s) - 1) : Front(s)[i] = s[i]
<1>. DEFINE n == Len(s) - 1
<1>1. Len(s) \in Nat /\ Len(s) >= 1 /\ n \in Nat
  BY EmptySeq
<1>2. \A i \in 1..n : s[i] \in S
  BY <1>1, ElementOfSeq
<1>. HIDE DEF n
<1>3. /\ SubSeq(s, 1, n) \in Seq(S)
      /\ Len(SubSeq(s, 1, n)) = IF 1 <= n THEN n-1+1 ELSE 0
      /\ \A i \in 1 .. n-1+1 : SubSeq(s, 1, n)[i] = s[1+i-1]
  BY <1>1, <1>2, SubSeqProperties
<1>4. Front(s) = SubSeq(s, 1, n)
  BY DEF Front, n
<1>5. ASSUME NEW i \in 1..n PROVE Front(s)[i] = s[i]
  <2>1. i \in 1 .. n-1+1 /\ 1+i-1 = i
    BY <1>1
  <2>. QED BY <2>1, <1>3, <1>4
<1>6. Len(Front(s)) = n
  BY <1>1, <1>3, <1>4
<1>. QED BY <1>3, <1>4, <1>5, <1>6 DEF n

(* Changing the top entry of a stack leaves the entries below it alone. *)
LEMMA SetLastType ==
    ASSUME NEW S, NEW s \in Seq(S), s # <<>>, NEW e \in S
    PROVE  /\ [s EXCEPT ![Len(s)] = e] \in Seq(S)
           /\ Len([s EXCEPT ![Len(s)] = e]) = Len(s)
           /\ [s EXCEPT ![Len(s)] = e] # <<>>
           /\ [s EXCEPT ![Len(s)] = e][Len(s)] = e
           /\ \A i \in 1..(Len(s) - 1) : [s EXCEPT ![Len(s)] = e][i] = s[i]
  BY EmptySeq, ExceptSeq

(* A set of natural numbers that is not empty has a least one. *)
LEMMA MinFacts ==
    ASSUME NEW S \in SUBSET Nat, S # {}
    PROVE  Min(S) \in S /\ \A k \in S : Min(S) <= k
<1>. DEFINE less == {ss \in Nat \X Nat : ss[1] < ss[2]}
<1>1. IsWellFoundedOn(less, Nat)
  BY NatLessThanWellFounded DEF OpToRel
<1>. HIDE DEF less
<1>2. PICK m \in S : \A k \in S : <<k, m>> \notin less
  BY <1>1, WFMin
<1>3. ASSUME NEW k \in S PROVE m <= k
  <2>1. k < m => <<k, m>> \in less
    BY DEF less
  <2>. QED BY <2>1, <1>2
<1>. QED BY <1>2, <1>3 DEF Min

(* A function on 1..n is a sequence of length n. *)
LEMMA FunctionIsSeq ==
    ASSUME NEW S, NEW n \in Nat, NEW f \in [1..n -> S]
    PROVE  f \in Seq(S) /\ Len(f) = n
  OBVIOUS
-----------------------------------------------------------------------------

Kinds == {"Root", "Obj", "Arr", "Prop"}

Tokens == Names \cup {End, Value} \cup Openers \cup Closers

NodeNames == Tokens \cup {""}

NodeRecs ==
    [name : NodeNames, kind : SUBSET Kinds, at : Nat, parent : Nat, path : SUBSET Nat]

Results == {"none", "node", "EOF", "failed", "panic"}

(* The nodes t, with IDs up to m, are a tree of nodes that know their paths. *)
Tree(t, m) ==
    /\ t \in [DOMAIN t -> NodeRecs]
    /\ DOMAIN t \subseteq 1..m
    /\ \A n \in DOMAIN t :
          /\ {n, Root} \subseteq t[n].path
          /\ t[n].path \subseteq DOMAIN t
          /\ t[n].path \subseteq 1..n
          /\ \A p \in t[n].path : t[p].path \subseteq t[n].path
          /\ IF n = Root THEN t[n].parent = Nil /\ t[n].path = {Root}
             ELSE /\ t[n].parent \in DOMAIN t
                  /\ t[n].parent < n
                  /\ t[n].path = t[t[n].parent].path \cup {n}

(* The stream s contains the node c, which is the current one. *)
Within(s, c, t) == s # Nil => s \in DOMAIN t /\ c # Nil /\ s \in t[c].path

(* Every variable has its type. *)
TypeOK ==
    /\ format \in Formats
    /\ xpath \in XPaths[format]
    /\ toks \in Inputs[format]
    /\ read \in 0..Len(toks)
    /\ lastID \in Nat
    /\ Tree(nodes, lastID)
    /\ cur \in DOMAIN nodes \cup {Nil}
    /\ stream \in DOMAIN nodes \cup {Nil}
    /\ reading \in BOOLEAN
    /\ reply \in [res : Results, node : Nat]

(* What is on offer is the stream; otherwise the current node is within it. *)
StreamInv ==
    /\ reply.node # Nil =>
          /\ ~reading
          /\ reply.node = stream
          /\ cur \notin Subtree(nodes, stream)
    /\ reply.node = Nil =>
          /\ Within(stream, cur, nodes)
          /\ stream # Nil => reading \/ reply.res \notin {"none", "node"}

(* In xml, the current node is as deep as elements are open. *)
DepthInv ==
    format = "xml" =>
        cur # Nil /\ Cardinality(nodes[cur].path) = Depth(toks, read) + 1

IInv ==
    /\ TypeOK
    /\ StreamInv
    /\ DepthInv
    /\ OnlyStreamMatches
-----------------------------------------------------------------------------
(* What the proofs look at of a tree t, a current node c, a stream s and the  *)
(* number r of tokens read.                                                   *)

(* All that matches, filters aside, is in the stream. *)
MatchesIn(t, s) ==
    Select(t, NoLastFilter(TargetPath)) \subseteq IF s = Nil THEN {} ELSE Subtree(t, s)

OnlyMatches(t, s) == Simple(xpath) /\ TargetPath # <<>> => MatchesIn(t, s)

AsDeep(t, c, r) ==
    format = "xml" => c # Nil /\ Cardinality(t[c].path) = Depth(toks, r) + 1

Good(t, m, c, s, r) ==
    /\ m \in Nat /\ Tree(t, m)
    /\ c \in DOMAIN t \cup {Nil}
    /\ s \in DOMAIN t \cup {Nil}
    /\ r \in 0..Len(toks)
    /\ AsDeep(t, c, r)
    /\ OnlyMatches(t, s)

(* The invariant is that all this is so, and what Read gave. *)
LEMMA IsGood == IInv => Good(nodes, lastID, cur, stream, read)
  BY DEF IInv, TypeOK, DepthInv, OnlyStreamMatches, MatchesInStream,
         Good, AsDeep, OnlyMatches, MatchesIn

(* A step that leaves all this so preserves the invariant. *)
LEMMA Assemble ==
    ASSUME TypeOK, UNCHANGED config, Good(nodes', lastID', cur', stream', read'),
           reading' \in BOOLEAN, reply' \in [res : Results, node : Nat], StreamInv'
    PROVE  IInv'
<1>1. format' = format /\ xpath' = xpath /\ toks' = toks
  BY DEF config
<1>2. TypeOK'
  BY <1>1 DEF TypeOK, Good
<1>3. DepthInv'
  BY <1>1 DEF DepthInv, Good, AsDeep
<1>4. OnlyStreamMatches'
  <2>1. OnlyMatches(nodes', stream')
    BY DEF Good
  <2>2. TargetPath' = TargetPath /\ Simple(xpath') = Simple(xpath)
    BY <1>1 DEF TargetPath, Criteria
  <2>. QED BY <1>1, <2>1, <2>2 DEF OnlyMatches, MatchesIn, OnlyStreamMatches, MatchesInStream
<1>. QED BY <1>2, <1>3, <1>4 DEF IInv

-----------------------------------------------------------------------------
(* The trees of nodes. *)

(* A live node has typed fields. *)
LEMMA NodeFacts ==
    ASSUME NEW t, NEW m \in Nat, Tree(t, m), NEW n \in DOMAIN t
    PROVE  /\ n \in Nat /\ n >= 1 /\ n <= m /\ n # Nil
           /\ t[n] \in NodeRecs
           /\ t[n].parent \in Nat
           /\ t[n].path \in SUBSET Nat
           /\ IsFiniteSet(t[n].path)
           /\ t[n].at \in Nat
<1>1. t[n] \in NodeRecs /\ n \in 1..m /\ t[n].path \subseteq 1..n
  BY DEF Tree
<1>2. n \in Nat
  BY <1>1
<1>3. IsFiniteSet(t[n].path)
  <2>1. 1 \in Int /\ n \in Int
    BY <1>2
  <2>2. IsFiniteSet(1..n)
    BY <2>1, FS_Interval
  <2>. QED BY <1>1, <2>2, FS_Subset
<1>4. t[n].parent \in Nat /\ t[n].path \in SUBSET Nat /\ t[n].at \in Nat
  BY <1>1 DEF NodeRecs
<1>5. n >= 1 /\ n <= m /\ n # Nil
  BY <1>1 DEF Nil
<1>. QED BY <1>1, <1>2, <1>3, <1>4, <1>5

(* Recycling what is below a node leaves a tree, with the same nodes but those. *)
LEMMA ReleasedTree ==
    ASSUME NEW t, NEW m \in Nat, Tree(t, m), NEW s
    PROVE  /\ Tree(Released(t, s), m)
           /\ DOMAIN Released(t, s) = DOMAIN t \ Subtree(t, s)
           /\ \A n \in DOMAIN Released(t, s) : Released(t, s)[n] = t[n]
<1>0. PICK t2 : t2 = Released(t, s)
  OBVIOUS
<1>. DEFINE D == DOMAIN t \ Subtree(t, s)
<1>1. t2 = [n \in D |-> t[n]]
  BY <1>0 DEF Released, Restrict
<1>2. DOMAIN t2 = D /\ \A n \in D : t2[n] = t[n]
  BY <1>1
<1>3. t2 \in [DOMAIN t2 -> NodeRecs] /\ DOMAIN t2 \subseteq 1..m
  BY <1>1, <1>2 DEF Tree
<1>4. ASSUME NEW n \in DOMAIN t2
      PROVE  /\ {n, Root} \subseteq t2[n].path
             /\ t2[n].path \subseteq DOMAIN t2
             /\ t2[n].path \subseteq 1..n
             /\ \A p \in t2[n].path : t2[p].path \subseteq t2[n].path
             /\ IF n = Root THEN t2[n].parent = Nil /\ t2[n].path = {Root}
                ELSE /\ t2[n].parent \in DOMAIN t2
                     /\ t2[n].parent < n
                     /\ t2[n].path = t2[t2[n].parent].path \cup {n}
  <2>1. n \in DOMAIN t /\ t2[n] = t[n] /\ s \notin t[n].path
    BY <1>2 DEF Subtree
  <2>2. /\ {n, Root} \subseteq t[n].path
        /\ t[n].path \subseteq DOMAIN t
        /\ t[n].path \subseteq 1..n
        /\ \A p \in t[n].path : t[p].path \subseteq t[n].path
        /\ IF n = Root THEN t[n].parent = Nil /\ t[n].path = {Root}
           ELSE /\ t[n].parent \in DOMAIN t
                /\ t[n].parent < n
                /\ t[n].path = t[t[n].parent].path \cup {n}
    BY <2>1 DEF Tree
  <2>3. \A p \in t[n].path : p \in DOMAIN t2 /\ t2[p] = t[p]
    BY <2>1, <2>2, <1>2 DEF Subtree
  <2>4. n # Root => t[n].parent \in t[n].path
    <3>1. n # Root => t[n].parent \in t[t[n].parent].path
      BY <2>2 DEF Tree
    <3>. QED BY <3>1, <2>2
  <2>. QED BY <2>1, <2>2, <2>3, <2>4
<1>5. Tree(t2, m)
  BY <1>3, <1>4 DEF Tree
<1>. QED BY <1>0, <1>2, <1>5

(* The parent of a node is not below the node. *)
LEMMA ParentOutside ==
    ASSUME NEW t, NEW m \in Nat, Tree(t, m), NEW c \in DOMAIN t
    PROVE  /\ t[c].parent \in DOMAIN t \cup {Nil}
           /\ t[c].parent \notin Subtree(t, c)
<1>1. CASE c = Root
  <2>1. t[c].parent = Nil /\ Nil \notin DOMAIN t
    BY <1>1 DEF Tree, Nil
  <2>. QED BY <2>1 DEF Subtree
<1>2. CASE c # Root
  <2>1. PICK p : p = t[c].parent
    OBVIOUS
  <2>2. p \in DOMAIN t /\ p < c
    BY <1>2, <2>1 DEF Tree
  <2>3. t[p].path \subseteq 1..p /\ p \in Nat /\ c \in Nat
    BY <2>2 DEF Tree
  <2>4. c \notin t[p].path
    BY <2>2, <2>3
  <2>. QED BY <2>1, <2>2, <2>4 DEF Subtree
<1>. QED BY <1>1, <1>2

(* The ancestors of a node, itself aside, are its parent's. *)
LEMMA ParentPath ==
    ASSUME NEW t, NEW m \in Nat, Tree(t, m), NEW c \in DOMAIN t,
           NEW s \in t[c].path, s # c
    PROVE  t[c].parent \in DOMAIN t /\ s \in t[t[c].parent].path
  BY DEF Tree

-----------------------------------------------------------------------------
(* What an xpath without filters selects. *)

NoFilters(q) == \A i \in 1..Len(q) : q[i].has = Star

(* Without its last filter, a simple xpath has none. *)
LEMMA SimpleHasNone ==
    ASSUME TypeOK, Simple(xpath), TargetPath # <<>>
    PROVE  /\ NoFilters(NoLastFilter(TargetPath))
           /\ Len(NoLastFilter(TargetPath)) \in Nat
           /\ Len(NoLastFilter(TargetPath)) >= 1
<1>1. CASE TargetPath = xpath
  <2>1. PICK p : p = xpath
    OBVIOUS
  <2>2. p \in Seq(Steps) /\ p # <<>>
    BY <1>1, <2>1, StreamAssumption DEF TypeOK
  <2>3. PICK k : k = Len(p)
    OBVIOUS
  <2>4. k \in Nat /\ k >= 1 /\ k \in DOMAIN p /\ p[k] \in Steps
    BY <2>2, <2>3, EmptySeq, ElementOfSeq
  <2>5. PICK e : e = [p[k] EXCEPT !.has = Star]
    OBVIOUS
  <2>6. e.has = Star
    BY <2>4, <2>5 DEF Steps
  <2>7. e \in Steps
    BY <2>4, <2>5 DEF Steps
  <2>8. NoLastFilter(p) = [p EXCEPT ![k] = e]
    BY <2>2, <2>3, <2>5 DEF NoLastFilter
  <2>9. PICK q : q = NoLastFilter(p)
    OBVIOUS
  <2>10. /\ Len(q) = k
         /\ q[k] = e
         /\ \A i \in 1..(k - 1) : q[i] = p[i]
    BY <2>2, <2>3, <2>7, <2>8, <2>9, SetLastType
  <2>11. \A i \in 1..(k - 1) : p[i].has = Star
    BY <2>1, <2>3 DEF Simple
  <2>12. \A i \in 1..k : i \in 1..(k - 1) \/ i = k
    BY <2>4
  <2>13. NoFilters(q)
    BY <2>6, <2>10, <2>11, <2>12 DEF NoFilters
  <2>. QED BY <1>1, <2>1, <2>4, <2>9, <2>10, <2>13
<1>2. CASE TargetPath # xpath
  <2>1. TargetPath = <<[deep |-> FALSE, name |-> Star, has |-> Star]>>
    BY <1>2 DEF TargetPath, Criteria
  <2>2. PICK p : p = TargetPath
    OBVIOUS
  <2>3. /\ Len(p) = 1 /\ DOMAIN p = 1..1 /\ p # <<>>
        /\ p[1] = [deep |-> FALSE, name |-> Star, has |-> Star]
    BY <2>1, <2>2
  <2>4. NoLastFilter(p) = [p EXCEPT ![1].has = Star]
    BY <2>3 DEF NoLastFilter
  <2>5. PICK q : q = NoLastFilter(p)
    OBVIOUS
  <2>6. DOMAIN q = 1..1 /\ q[1].has = Star
    BY <2>3, <2>4, <2>5
  <2>7. Len(q) = 1
    <3>1. q = [i \in 1..1 |-> q[i]]
      BY <2>3, <2>4, <2>5
    <3>2. \A i \in 1..1 : q[i] \in {q[1]}
      OBVIOUS
    <3>3. q \in [1..1 -> {q[1]}] /\ 1 \in Nat
      BY <3>1, <3>2
    <3>. QED BY <3>3, FunctionIsSeq
  <2>. QED BY <2>2, <2>5, <2>6, <2>7 DEF NoFilters
<1>. QED BY <1>1, <1>2

(* Whether a node is selected depends on the nodes above it only. *)
LEMMA MatchLocal ==
    ASSUME NEW q, NoFilters(q), NEW t, NEW t2, NEW n \in Select(t, q), n \in DOMAIN t2,
           t2[n].path = t[n].path,
           \A p \in t[n].path : /\ t2[p].name = t[p].name
                                /\ t2[p].parent = t[p].parent
                                /\ t2[p].path = t[p].path
    PROVE  n \in Select(t2, q)
<1>1. PICK w \in Walks(t, q, n) :
         \A i \in 1..Len(q) :
            Below(t, w[i], w[i - 1], q[i].deep) /\ Passes(t, w[i], q[i])
  BY DEF Select
<1>2. w \in Walks(t2, q, n)
  BY <1>1 DEF Walks
<1>3. ASSUME NEW i \in 1..Len(q)
      PROVE  Below(t2, w[i], w[i - 1], q[i].deep) /\ Passes(t2, w[i], q[i])
  <2>1. Below(t, w[i], w[i - 1], q[i].deep) /\ Passes(t, w[i], q[i])
    BY <1>1
  <2>2. w[i] \in t[n].path
    <3>1. i \in 0..Len(q) /\ w \in [0..Len(q) -> t[n].path]
      BY <1>1 DEF Walks
    <3>. QED BY <3>1
  <2>. QED BY <2>1, <2>2 DEF Below, Passes, NoFilters
<1>. QED BY <1>2, <1>3 DEF Select

(* What a walk from the root to a node at the top of the tree selects. *)
LEMMA RootSelected ==
    ASSUME NEW t, Root \in DOMAIN t, Root \in t[Root].path
    PROVE  Root \in Select(t, <<>>)
<1>. DEFINE w == [i \in 0..Len(<<>>) |-> Root]
<1>1. w \in Walks(t, <<>>, Root)
  BY DEF Walks
<1>. QED BY <1>1 DEF Select

(* A tree with the paths of another one selects the same of its nodes. *)
LEMMA MatchSame ==
    ASSUME NEW t, NEW m \in Nat, Tree(t, m), NEW t2,
           \A n \in DOMAIN t : /\ n \in DOMAIN t2
                               /\ t2[n].name = t[n].name
                               /\ t2[n].parent = t[n].parent
                               /\ t2[n].path = t[n].path,
           NEW q, NoFilters(q)
    PROVE  \A n \in DOMAIN t : n \in Select(t2, q) => n \in Select(t, q)
<1>1. SUFFICES ASSUME NEW n \in DOMAIN t, n \in Select(t2, q) PROVE n \in Select(t, q)
  OBVIOUS
<1>2. t2[n].path = t[n].path /\ t[n].path \subseteq DOMAIN t
  BY DEF Tree
<1>. QED BY <1>1, <1>2, MatchLocal

(* Dropping the nodes below a node selects nothing else. *)
LEMMA MatchReleased ==
    ASSUME NEW t, NEW m \in Nat, Tree(t, m), NEW s, NEW t2, t2 = Released(t, s),
           NEW q, NoFilters(q)
    PROVE  Select(t2, q) \subseteq Select(t, q)
<1>1. /\ Tree(t2, m)
      /\ DOMAIN t2 = DOMAIN t \ Subtree(t, s)
      /\ \A n \in DOMAIN t2 : t2[n] = t[n]
  BY ReleasedTree
<1>2. \A n \in DOMAIN t2 : n \in Select(t, q) \/ n \notin Select(t2, q)
  <2>1. SUFFICES ASSUME NEW n \in DOMAIN t2, n \in Select(t2, q) PROVE n \in Select(t, q)
    OBVIOUS
  <2>2. n \in DOMAIN t /\ t2[n].path \subseteq DOMAIN t2
    BY <1>1 DEF Tree
  <2>3. \A p \in t2[n].path : /\ t[p].name = t2[p].name
                              /\ t[p].parent = t2[p].parent
                              /\ t[p].path = t2[p].path
    BY <1>1, <2>2
  <2>4. t[n].path = t2[n].path
    BY <1>1
  <2>. QED BY <2>1, <2>2, <2>3, <2>4, MatchLocal
<1>. QED BY <1>2 DEF Select

(* Without the stream and all below it, nothing matches any more. *)
LEMMA NoneLeft ==
    ASSUME TypeOK, NEW t, NEW m \in Nat, Tree(t, m), NEW s \in DOMAIN t, OnlyMatches(t, s),
           NEW t2, t2 = Released(t, s)
    PROVE  OnlyMatches(t2, Nil)
<1>1. SUFFICES ASSUME Simple(xpath), TargetPath # <<>> PROVE MatchesIn(t2, Nil)
  BY DEF OnlyMatches
<1>2. PICK q : q = NoLastFilter(TargetPath)
  OBVIOUS
<1>3. NoFilters(q)
  BY <1>1, <1>2, SimpleHasNone
<1>4. s # Nil
  BY NodeFacts
<1>5. Select(t, q) \subseteq Subtree(t, s)
  BY <1>1, <1>2, <1>4 DEF OnlyMatches, MatchesIn
<1>6. Select(t2, q) \subseteq Select(t, q)
  BY <1>3, MatchReleased
<1>7. Select(t2, q) \subseteq DOMAIN t \ Subtree(t, s)
  <2>1. DOMAIN t2 = DOMAIN t \ Subtree(t, s)
    BY ReleasedTree
  <2>. QED BY <2>1 DEF Select
<1>8. Select(t2, q) = {}
  BY <1>5, <1>6, <1>7
<1>. QED BY <1>2, <1>8 DEF MatchesIn

-----------------------------------------------------------------------------
(* What one token does. *)

LEMMA TokType ==
    ASSUME TypeOK, read < Len(toks)
    PROVE  /\ Tok \in Tokens
           /\ format = "xml" => Tok \in Names \cup {End}
           /\ Len(toks) \in Nat /\ read \in Nat /\ read + 1 \in 0..Len(toks)
<1>1. format \in {"xml", "json"} /\ toks \in Inputs[format] /\ read \in 0..Len(toks)
  BY DEF TypeOK, Formats
<1>2. CASE format = "xml"
  <2>1. toks \in Seq(Names \cup {End})
    BY <1>1, <1>2, XmlAssumption
  <2>2. Len(toks) \in Nat /\ read + 1 \in 1..Len(toks)
    BY <1>1, <2>1
  <2>3. toks[read + 1] \in Names \cup {End}
    BY <2>1, <2>2
  <2>. QED BY <1>1, <2>2, <2>3 DEF Tok, Tokens
<1>3. CASE format = "json"
  <2>1. toks \in Seq(Names \cup {Value} \cup Openers \cup Closers)
    BY <1>1, <1>3, JsonAssumption
  <2>2. Len(toks) \in Nat /\ read + 1 \in 1..Len(toks)
    BY <1>1, <2>1
  <2>3. toks[read + 1] \in Names \cup {Value} \cup Openers \cup Closers
    BY <2>1, <2>2
  <2>. QED BY <1>1, <1>3, <2>2, <2>3 DEF Tok, Tokens
<1>. QED BY <1>1, <1>2, <1>3

(* A token starts an element or ends one that is open. *)
LEMMA DepthStep ==
    ASSUME TypeOK, format = "xml", read < Len(toks)
    PROVE  /\ Depth(toks, read) \in Int
           /\ Tok # End => Depth(toks, read + 1) = Depth(toks, read) + 1
           /\ Tok = End => Depth(toks, read + 1) = Depth(toks, read) - 1
           /\ Depth(toks, read + 1) >= 0
<1>. DEFINE S(i) == {k \in 1..i : toks[k] # End}
<1>1. read \in Nat /\ Len(toks) \in Nat /\ read + 1 \in 1..Len(toks)
  BY TokType DEF TypeOK
<1>2. \A i \in Nat : IsFiniteSet(S(i))
  <2>1. SUFFICES ASSUME NEW i \in Nat PROVE IsFiniteSet(S(i))
    OBVIOUS
  <2>2. IsFiniteSet(1..i)
    BY FS_Interval
  <2>3. S(i) \subseteq 1..i
    OBVIOUS
  <2>. QED BY <2>2, <2>3, FS_Subset
<1>3. IsFiniteSet(S(read)) /\ Cardinality(S(read)) \in Nat
  BY <1>1, <1>2, FS_CardinalityType
<1>4. read + 1 \notin S(read)
  BY <1>1
<1>5. Tok # End => S(read + 1) = S(read) \cup {read + 1}
  BY <1>1 DEF Tok
<1>6. Tok = End => S(read + 1) = S(read)
  BY <1>1 DEF Tok
<1>7. Cardinality(S(read) \cup {read + 1}) = Cardinality(S(read)) + 1
  BY <1>3, <1>4, FS_AddElement
<1>8. /\ Depth(toks, read) = 2 * Cardinality(S(read)) - read
      /\ Depth(toks, read + 1) = 2 * Cardinality(S(read + 1)) - (read + 1)
  BY DEF Depth
<1>9. Depth(toks, read + 1) >= 0
  BY <1>1, XmlAssumption DEF TypeOK
<1>. HIDE DEF S
<1>10. Tok # End => Depth(toks, read + 1) = Depth(toks, read) + 1
  <2>1. PICK k, d, e : /\ k = Cardinality(S(read)) /\ d = Depth(toks, read)
                       /\ e = Depth(toks, read + 1)
    OBVIOUS
  <2>2. Tok # End => Cardinality(S(read + 1)) = k + 1
    BY <1>5, <1>7, <2>1
  <2>3. k \in Nat /\ d = 2 * k - read
    BY <1>3, <1>8, <2>1
  <2>4. Tok # End => e = 2 * (k + 1) - (read + 1)
    BY <1>8, <2>1, <2>2
  <2>5. 2 * (k + 1) - (read + 1) = (2 * k - read) + 1
    BY <1>1, <2>3
  <2>. QED BY <2>1, <2>3, <2>4, <2>5
<1>11. Tok = End => Depth(toks, read + 1) = Depth(toks, read) - 1
  BY <1>1, <1>3, <1>6, <1>8
<1>. QED BY <1>1, <1>3, <1>8, <1>9, <1>10, <1>11

(* A new node under the current one, and the candidate check with it. *)
LEMMA GrowFacts ==
    ASSUME IInv, read < Len(toks), cur # Nil, Within(stream, cur, nodes),
           NEW name \in NodeNames, NEW kind \in SUBSET Kinds,
           NEW t, t = Grown(name, kind),
           NEW s, s = StreamCandidateCheck(t, NewID)
    PROVE  /\ NewID \in Nat /\ NewID \in DOMAIN t
           /\ Tree(t, NewID)
           /\ t[NewID].parent = cur
           /\ cur \in DOMAIN t /\ t[cur].path = nodes[cur].path
           /\ t[NewID].path = nodes[cur].path \cup {NewID}
           /\ Cardinality(t[NewID].path) = Cardinality(nodes[cur].path) + 1
           /\ s \in DOMAIN t \cup {Nil}
           /\ Within(s, NewID, t)
           /\ OnlyMatches(t, s)
<1>. DEFINE new == NodeOf(NewID, cur, nodes[cur].path, name, kind, read + 1)
<1>1. /\ TypeOK /\ Tree(nodes, lastID) /\ lastID \in Nat
      /\ cur \in DOMAIN nodes
      /\ stream \in DOMAIN nodes \cup {Nil}
      /\ OnlyMatches(nodes, stream)
  BY IsGood DEF IInv, TypeOK, Good
<1>2. /\ NewID = lastID + 1 /\ NewID \in Nat /\ NewID \notin DOMAIN nodes /\ NewID # Nil
      /\ NewID # Root
  <2>1. NewID = lastID + 1 /\ NewID \in Nat /\ NewID # Nil
    BY <1>1 DEF NewID, Nil
  <2>2. DOMAIN nodes \subseteq 1..lastID /\ cur \in 1..lastID
    BY <1>1 DEF Tree
  <2>. QED BY <1>1, <2>1, <2>2 DEF Root
<1>3. /\ cur \in Nat /\ cur >= 1 /\ cur <= lastID
      /\ nodes[cur].path \in SUBSET Nat
      /\ IsFiniteSet(nodes[cur].path)
  BY <1>1, NodeFacts
<1>4. /\ {cur, Root} \subseteq nodes[cur].path
      /\ nodes[cur].path \subseteq DOMAIN nodes
      /\ nodes[cur].path \subseteq 1..cur
  BY <1>1 DEF Tree
<1>5. /\ DOMAIN t = DOMAIN nodes \cup {NewID}
      /\ t[NewID] = new
      /\ \A n \in DOMAIN nodes : t[n] = nodes[n]
  BY <1>2 DEF Grown
<1>6. /\ new.name = name /\ new.kind = kind /\ new.at = read + 1 /\ new.parent = cur
      /\ new.path = nodes[cur].path \cup {NewID}
      /\ new \in NodeRecs
  <2>1. read + 1 \in Nat
    BY <1>1, TokType
  <2>2. nodes[cur].path \cup {NewID} \in SUBSET Nat
    BY <1>2, <1>3
  <2>. QED BY <1>3, <2>1, <2>2 DEF NodeOf, NodeRecs
<1>. HIDE DEF new
<1>7. Tree(t, NewID)
  <2>1. t \in [DOMAIN t -> NodeRecs]
    <3>1. t = [n \in DOMAIN t |-> t[n]]
      BY DEF Grown
    <3>2. \A n \in DOMAIN t : t[n] \in NodeRecs
      BY <1>1, <1>5, <1>6 DEF Tree
    <3>. QED BY <3>1, <3>2
  <2>2. DOMAIN t \subseteq 1..NewID
    BY <1>1, <1>2, <1>5 DEF Tree
  <2>3. ASSUME NEW n \in DOMAIN nodes
        PROVE  /\ {n, Root} \subseteq t[n].path
               /\ t[n].path \subseteq DOMAIN t
               /\ t[n].path \subseteq 1..n
               /\ \A p \in t[n].path : t[p].path \subseteq t[n].path
               /\ IF n = Root THEN t[n].parent = Nil /\ t[n].path = {Root}
                  ELSE /\ t[n].parent \in DOMAIN t
                       /\ t[n].parent < n
                       /\ t[n].path = t[t[n].parent].path \cup {n}
    <3>1. /\ {n, Root} \subseteq nodes[n].path
          /\ nodes[n].path \subseteq DOMAIN nodes
          /\ nodes[n].path \subseteq 1..n
          /\ \A p \in nodes[n].path : nodes[p].path \subseteq nodes[n].path
          /\ IF n = Root THEN nodes[n].parent = Nil /\ nodes[n].path = {Root}
             ELSE /\ nodes[n].parent \in DOMAIN nodes
                  /\ nodes[n].parent < n
                  /\ nodes[n].path = nodes[nodes[n].parent].path \cup {n}
      BY <1>1 DEF Tree
    <3>. QED BY <1>5, <3>1
  <2>4. /\ {NewID, Root} \subseteq new.path
        /\ new.path \subseteq DOMAIN t
        /\ new.path \subseteq 1..NewID
        /\ \A p \in new.path : t[p].path \subseteq new.path
        /\ new.parent \in DOMAIN t
        /\ new.parent < NewID
        /\ new.path = t[new.parent].path \cup {NewID}
    <3>1. \A p \in nodes[cur].path : nodes[p].path \subseteq nodes[cur].path
      BY <1>1 DEF Tree
    <3>2. \A p \in new.path : t[p].path \subseteq new.path
      BY <1>4, <1>5, <1>6, <3>1
    <3>3. PICK i, c : i = NewID /\ c = cur
      OBVIOUS
    <3>4. new.path \subseteq 1..NewID
      <4>1. i \in Nat /\ c \in Nat /\ c < i /\ i >= 1
        BY <1>1, <1>2, <1>3, <3>3
      <4>2. nodes[cur].path \subseteq 1..c
        BY <1>4, <3>3
      <4>3. \A p \in 1..c : p \in 1..i
        BY <4>1
      <4>4. i \in 1..i
        BY <4>1
      <4>5. new.path \subseteq 1..i
        BY <1>6, <3>3, <4>2, <4>3, <4>4
      <4>. QED BY <3>3, <4>5
    <3>5. new.parent < NewID
      BY <1>1, <1>2, <1>3, <1>6
    <3>. QED BY <1>1, <1>4, <1>5, <1>6, <3>2, <3>4, <3>5
  <2>. QED BY <1>2, <1>5, <2>1, <2>2, <2>3, <2>4 DEF Tree
<1>9. Cardinality(new.path) = Cardinality(nodes[cur].path) + 1
  <2>1. NewID \notin nodes[cur].path
    BY <1>2, <1>4
  <2>. QED BY <1>3, <1>6, <2>1, FS_AddElement
<1>10. s \in {stream, NewID} /\ (s = NewID => IsCandidate(t) \/ stream = NewID)
  BY DEF StreamCandidateCheck
<1>11. Within(s, NewID, t)
  BY <1>2, <1>5, <1>6, <1>10 DEF Within
<1>12. OnlyMatches(t, s)
  <2>1. SUFFICES ASSUME Simple(xpath), TargetPath # <<>> PROVE MatchesIn(t, s)
    BY DEF OnlyMatches
  <2>2. PICK q : q = NoLastFilter(TargetPath)
    OBVIOUS
  <2>3. NoFilters(q)
    BY <1>1, <2>1, <2>2, SimpleHasNone
  <2>4. \A n \in DOMAIN nodes : n \in Select(t, q) => n \in Select(nodes, q)
    <3>1. \A n \in DOMAIN nodes : /\ n \in DOMAIN t
                                  /\ t[n].name = nodes[n].name
                                  /\ t[n].parent = nodes[n].parent
                                  /\ t[n].path = nodes[n].path
      BY <1>5
    <3>. QED BY <1>1, <2>3, <3>1, MatchSame
  <2>5. Select(t, q) \subseteq Select(nodes, q) \cup {NewID}
    BY <1>5, <2>4 DEF Select
  <2>6. Select(nodes, q) \subseteq IF stream = Nil THEN {} ELSE Subtree(nodes, stream)
    BY <1>1, <2>1, <2>2 DEF OnlyMatches, MatchesIn
  <2>7. CASE stream # Nil
    <3>1. s = stream
      BY <2>7 DEF StreamCandidateCheck, IsCandidate
    <3>2. Subtree(nodes, stream) \subseteq Subtree(t, s)
      BY <1>5, <3>1 DEF Subtree
    <3>3. NewID \in Subtree(t, s)
      BY <1>5, <1>11, <2>7, <3>1 DEF Within, Subtree
    <3>. QED BY <2>2, <2>5, <2>6, <2>7, <3>1, <3>2, <3>3 DEF MatchesIn
  <2>8. CASE stream = Nil
    <3>1. Select(t, q) \subseteq {NewID}
      BY <2>5, <2>6, <2>8
    <3>2. CASE s = NewID
      <4>1. NewID \in Subtree(t, s)
        BY <1>5, <1>6, <3>2 DEF Subtree
      <4>. QED BY <1>2, <2>2, <3>1, <3>2, <4>1 DEF MatchesIn
    <3>3. CASE s # NewID
      <4>1. ~MatchAny(t, NoLastFilter(xpath)) /\ s = Nil
        BY <2>8, <3>3 DEF StreamCandidateCheck, IsCandidate
      <4>2. CASE TargetPath = xpath
        BY <2>2, <4>1, <4>2 DEF MatchesIn, MatchAny
      <4>3. CASE TargetPath # xpath
        <5>1. xpath = <<>>
          BY <4>3 DEF TargetPath, Criteria
        <5>2. NoLastFilter(xpath) = <<>>
          BY <5>1 DEF NoLastFilter
        <5>3. Root \in DOMAIN t /\ Root \in t[Root].path
          BY <1>4, <1>7, <1>5 DEF Tree
        <5>. QED BY <4>1, <5>2, <5>3, RootSelected DEF MatchAny
      <4>. QED BY <4>2, <4>3
    <3>. QED BY <3>2, <3>3
  <2>. QED BY <2>7, <2>8
<1>. QED BY <1>1, <1>2, <1>5, <1>6, <1>7, <1>9, <1>10, <1>11, <1>12

(* Another kind for the current node changes nothing else. *)
Marked(kind) == [nodes EXCEPT ![cur].kind = @ \cup kind]

LEMMA KindFacts ==
    ASSUME IInv, cur # Nil, NEW kind \in SUBSET Kinds,
           NEW t, t = Marked(kind)
    PROVE  /\ Tree(t, lastID)
           /\ DOMAIN t = DOMAIN nodes
           /\ cur \in DOMAIN nodes
           /\ \A n \in DOMAIN nodes : /\ t[n].name = nodes[n].name
                                      /\ t[n].parent = nodes[n].parent
                                      /\ t[n].path = nodes[n].path
           /\ OnlyMatches(t, stream)
<1>1. /\ TypeOK /\ Tree(nodes, lastID) /\ lastID \in Nat
      /\ cur \in DOMAIN nodes
      /\ stream \in DOMAIN nodes \cup {Nil}
      /\ OnlyMatches(nodes, stream)
  BY IsGood DEF IInv, TypeOK, Good
<1>2. PICK o : o = nodes[cur]
  OBVIOUS
<1>3. o \in NodeRecs
  BY <1>1, <1>2 DEF Tree
<1>4. PICK e : e = [o EXCEPT !.kind = @ \cup kind]
  OBVIOUS
<1>5. e = [name |-> o.name, kind |-> o.kind \cup kind, at |-> o.at, parent |-> o.parent,
           path |-> o.path]
  BY <1>3, <1>4 DEF NodeRecs
<1>6. e \in NodeRecs /\ e.name = o.name /\ e.parent = o.parent /\ e.path = o.path
  BY <1>3, <1>5 DEF NodeRecs
<1>7. t = [nodes EXCEPT ![cur] = e]
  BY <1>2, <1>4 DEF Marked
<1>8. /\ t \in [DOMAIN nodes -> NodeRecs] /\ DOMAIN t = DOMAIN nodes
      /\ \A n \in DOMAIN nodes : /\ t[n].name = nodes[n].name
                                 /\ t[n].parent = nodes[n].parent
                                 /\ t[n].path = nodes[n].path
  <2>1. nodes \in [DOMAIN nodes -> NodeRecs]
    BY <1>1 DEF Tree
  <2>. QED BY <1>1, <1>2, <1>6, <1>7, <2>1
<1>. HIDE DEF NodeRecs
<1>9. Tree(t, lastID)
  <2>1. ASSUME NEW n \in DOMAIN nodes
        PROVE  /\ {n, Root} \subseteq t[n].path
               /\ t[n].path \subseteq DOMAIN t
               /\ t[n].path \subseteq 1..n
               /\ \A p \in t[n].path : t[p].path \subseteq t[n].path
               /\ IF n = Root THEN t[n].parent = Nil /\ t[n].path = {Root}
                  ELSE /\ t[n].parent \in DOMAIN t
                       /\ t[n].parent < n
                       /\ t[n].path = t[t[n].parent].path \cup {n}
    <3>1. /\ {n, Root} \subseteq nodes[n].path
          /\ nodes[n].path \subseteq DOMAIN nodes
          /\ nodes[n].path \subseteq 1..n
          /\ \A p \in nodes[n].path : nodes[p].path \subseteq nodes[n].path
          /\ IF n = Root THEN nodes[n].parent = Nil /\ nodes[n].path = {Root}
             ELSE /\ nodes[n].parent \in DOMAIN nodes
                  /\ nodes[n].parent < n
                  /\ nodes[n].path = nodes[nodes[n].parent].path \cup {n}
      BY <1>1 DEF Tree
    <3>. QED BY <1>8, <3>1
  <2>2. DOMAIN t \subseteq 1..lastID
    BY <1>1, <1>8 DEF Tree
  <2>. QED BY <1>8, <2>1, <2>2 DEF Tree
<1>10. OnlyMatches(t, stream)
  <2>1. SUFFICES ASSUME Simple(xpath), TargetPath # <<>> PROVE MatchesIn(t, stream)
    BY DEF OnlyMatches
  <2>2. PICK q : q = NoLastFilter(TargetPath)
    OBVIOUS
  <2>3. NoFilters(q)
    BY <1>1, <2>1, <2>2, SimpleHasNone
  <2>4. \A n \in DOMAIN nodes : n \in Select(t, q) => n \in Select(nodes, q)
    <3>1. \A n \in DOMAIN nodes : /\ n \in DOMAIN t
                                  /\ t[n].name = nodes[n].name
                                  /\ t[n].parent = nodes[n].parent
                                  /\ t[n].path = nodes[n].path
      BY <1>8
    <3>. QED BY <1>1, <2>3, <3>1, MatchSame
  <2>5. Select(t, q) \subseteq Select(nodes, q)
    BY <1>8, <2>4 DEF Select
  <2>6. Select(nodes, q) \subseteq IF stream = Nil THEN {} ELSE Subtree(nodes, stream)
    BY <1>1, <2>1, <2>2 DEF OnlyMatches, MatchesIn
  <2>7. Subtree(nodes, stream) = Subtree(t, stream)
    BY <1>8 DEF Subtree
  <2>. QED BY <2>2, <2>5, <2>6, <2>7 DEF MatchesIn
<1>. QED BY <1>1, <1>8, <1>9, <1>10

(* The json root may become the stream without a new node: all matches are there. *)
LEMMA CheckFacts ==
    ASSUME IInv, cur # Nil, Within(stream, cur, nodes), format = "json",
           NEW s, s = StreamCandidateCheck(nodes, cur),
           NEW t, OnlyMatches(t, stream)
    PROVE  /\ s \in {stream, cur}
           /\ s \in DOMAIN nodes \cup {Nil}
           /\ Within(s, cur, nodes)
           /\ OnlyMatches(t, s)
<1>1. /\ TypeOK /\ Tree(nodes, lastID) /\ lastID \in Nat
      /\ cur \in DOMAIN nodes
      /\ stream \in DOMAIN nodes \cup {Nil}
      /\ OnlyMatches(nodes, stream)
  BY IsGood DEF IInv, TypeOK, Good
<1>2. s \in {stream, cur}
  BY DEF StreamCandidateCheck
<1>3. cur \in nodes[cur].path
  BY <1>1 DEF Tree
<1>4. Within(s, cur, nodes)
  BY <1>1, <1>2, <1>3 DEF Within
<1>5. OnlyMatches(t, s)
  <2>1. SUFFICES ASSUME Simple(xpath), TargetPath # <<>> PROVE MatchesIn(t, s)
    BY DEF OnlyMatches
  <2>2. MatchesIn(t, stream) /\ MatchesIn(nodes, stream)
    BY <1>1, <2>1 DEF OnlyMatches
  <2>3. TargetPath = xpath
    BY DEF TargetPath
  <2>4. ~IsCandidate(nodes)
    BY <2>2, <2>3 DEF IsCandidate, MatchAny, MatchesIn
  <2>5. s = stream
    BY <2>4 DEF StreamCandidateCheck
  <2>. QED BY <2>2, <2>5
<1>. QED BY <1>1, <1>2, <1>4, <1>5

(* The end of a node: up, and the target check. *)
LEMMA WrapUpFacts ==
    ASSUME TypeOK, UNCHANGED config, NEW t, NEW m \in Nat, Tree(t, m), lastID' = m,
           NEW c \in DOMAIN t, NEW s \in DOMAIN t \cup {Nil}, Within(s, c, t),
           OnlyMatches(t, s), AsDeep(t, t[c].parent, read'), read' \in 0..Len(toks),
           reading = TRUE, reply.node = Nil,
           WrapUpCurAndTargetCheck(t, c, s)
    PROVE  IInv'
<1>1. PICK p : p = t[c].parent
  OBVIOUS
<1>2. p \in DOMAIN t \cup {Nil} /\ p \notin Subtree(t, c)
  BY <1>1, ParentOutside
<1>3. cur' = p
  BY <1>1 DEF WrapUpCurAndTargetCheck, UpFrom
<1>4. c # Nil /\ c \in Nat
  BY NodeFacts
<1>5. reply \in [res : Results, node : Nat]
  BY DEF TypeOK
<1>6. CASE c # s
  <2>1. /\ nodes' = t /\ stream' = s
        /\ reading' = TRUE /\ reply' = reply
    BY <1>6 DEF WrapUpCurAndTargetCheck, ReadGoesOn
  <2>2. Within(s, p, t)
    <3>1. s # Nil => s \in t[c].path /\ s \in DOMAIN t
      BY DEF Within
    <3>2. s # Nil => p \in DOMAIN t /\ s \in t[p].path
      BY <1>1, <1>6, <3>1, ParentPath
    <3>3. p \in DOMAIN t => p # Nil
      BY NodeFacts
    <3>. QED BY <3>1, <3>2, <3>3 DEF Within
  <2>3. Good(nodes', lastID', cur', stream', read')
    BY <1>1, <1>2, <1>3, <2>1 DEF Good
  <2>4. StreamInv'
    BY <1>3, <2>1, <2>2 DEF StreamInv
  <2>. QED BY <1>5, <2>1, <2>3, <2>4, Assemble
<1>7. CASE c = s /\ FilterHolds(t)
  <2>1. /\ nodes' = t /\ stream' = s
        /\ reading' = FALSE /\ reply' = [res |-> "node", node |-> s]
    BY <1>7 DEF WrapUpCurAndTargetCheck, Return
  <2>2. reply'.node = s /\ reply' \in [res : Results, node : Nat]
    BY <1>4, <1>7, <2>1 DEF Results
  <2>3. Good(nodes', lastID', cur', stream', read')
    BY <1>1, <1>2, <1>3, <2>1 DEF Good
  <2>4. StreamInv'
    BY <1>2, <1>3, <1>4, <1>7, <2>1, <2>2 DEF StreamInv
  <2>. QED BY <2>1, <2>2, <2>3, <2>4, Assemble
<1>8. CASE c = s /\ ~FilterHolds(t)
  <2>1. PICK t2 : t2 = Released(t, s)
    OBVIOUS
  <2>2. /\ nodes' = t2 /\ stream' = Nil
        /\ reading' = TRUE /\ reply' = reply
    BY <1>8, <2>1 DEF WrapUpCurAndTargetCheck, ReadGoesOn, Rejected
  <2>3. /\ Tree(t2, m)
        /\ DOMAIN t2 = DOMAIN t \ Subtree(t, s)
        /\ \A n \in DOMAIN t2 : t2[n] = t[n]
    BY <2>1, ReleasedTree
  <2>4. OnlyMatches(t2, Nil)
    BY <1>8, <2>1, NoneLeft
  <2>5. p \in DOMAIN t2 \cup {Nil}
    BY <1>2, <1>8, <2>3
  <2>6. AsDeep(t2, p, read')
    BY <1>1, <2>3, <2>5 DEF AsDeep
  <2>7. Good(nodes', lastID', cur', stream', read')
    BY <1>3, <2>2, <2>3, <2>4, <2>5, <2>6 DEF Good
  <2>8. StreamInv'
    BY <2>2 DEF StreamInv, Within
  <2>. QED BY <1>5, <2>2, <2>7, <2>8, Assemble
<1>. QED BY <1>6, <1>7, <1>8

(* What holds when a token is read. *)
LEMMA ReadingFacts ==
    ASSUME IInv, TokenRead
    PROVE  /\ TypeOK /\ UNCHANGED config
           /\ reading = TRUE /\ reply.node = Nil
           /\ read < Len(toks) /\ read' = read + 1 /\ read' \in 0..Len(toks)
           /\ Within(stream, cur, nodes)
           /\ Good(nodes, lastID, cur, stream, read)
           /\ format \in {"xml", "json"}
           /\ reply \in [res : Results, node : Nat]
<1>1. TypeOK /\ StreamInv
  BY DEF IInv
<1>2. reading = TRUE /\ read < Len(toks) /\ read' = read + 1 /\ UNCHANGED config
  BY <1>1 DEF TokenRead, TypeOK
<1>3. read' \in 0..Len(toks)
  BY <1>1, <1>2, TokType
<1>4. reply.node = Nil /\ Within(stream, cur, nodes)
  BY <1>1, <1>2 DEF StreamInv
<1>. QED BY <1>1, <1>2, <1>3, <1>4, IsGood DEF TypeOK, Formats

(* A step that only moves to a new current node, whether or not it is new. *)
LEMMA MoveOn ==
    ASSUME IInv, TokenRead, ReadGoesOn, NEW t, NEW m \in Nat, Tree(t, m),
           nodes' = t, lastID' = m, cur' \in DOMAIN t, stream' \in DOMAIN t \cup {Nil},
           Within(stream', cur', t), OnlyMatches(t, stream'), AsDeep(t, cur', read')
    PROVE  IInv'
<1>1. /\ TypeOK /\ UNCHANGED config
      /\ reading = TRUE /\ reply.node = Nil
      /\ read' \in 0..Len(toks)
      /\ reply \in [res : Results, node : Nat]
  BY ReadingFacts
<1>2. reading' = TRUE /\ reply' = reply
  BY <1>1 DEF ReadGoesOn
<1>3. Good(nodes', lastID', cur', stream', read')
  BY <1>1 DEF Good
<1>4. StreamInv'
  BY <1>1, <1>2 DEF StreamInv
<1>. QED BY <1>1, <1>2, <1>3, <1>4, Assemble

(* A step that leaves the tree, but not the answer, alone. *)
LEMMA Answer ==
    ASSUME IInv, UNCHANGED config, UNCHANGED <<nodes, lastID, cur, stream>>,
           read' \in 0..Len(toks), AsDeep(nodes, cur, read'),
           reading' = FALSE, NEW res \in {"EOF", "failed", "panic"},
           reply' = [res |-> res, node |-> Nil],
           Within(stream, cur, nodes)
    PROVE  IInv'
<1>1. TypeOK /\ Good(nodes, lastID, cur, stream, read)
  BY IsGood DEF IInv
<1>2. Good(nodes', lastID', cur', stream', read')
  BY <1>1 DEF Good
<1>3. reply' \in [res : Results, node : Nat] /\ reply'.node = Nil /\ reply'.res = res
  BY DEF Results, Nil
<1>4. StreamInv'
  BY <1>3 DEF StreamInv, Within
<1>. QED BY <1>1, <1>2, <1>3, <1>4, Assemble

-----------------------------------------------------------------------------
(* The initial states, and the actions one by one. *)

LEMMA InitInv == Init => IInv
<1>1. SUFFICES ASSUME Init PROVE IInv
  OBVIOUS
<1>2. /\ StreamInit
      /\ format \in Formats
      /\ nodes[Root].path = {Root} /\ nodes[Root].parent = Nil
      /\ nodes[Root] \in NodeRecs
      /\ DOMAIN nodes = {Root}
      /\ nodes = [n \in {Root} |-> nodes[n]]
  <2>1. PICK kind : /\ kind \in {{}, {"Root"}}
                    /\ nodes = [n \in {Root} |-> NodeOf(n, Nil, {}, "", kind, 0)]
    BY <1>1 DEF Init, XmlInit, JsonInit
  <2>2. PICK e : e = NodeOf(Root, Nil, {}, "", kind, 0)
    OBVIOUS
  <2>3. e = [name |-> "", kind |-> kind, at |-> 0, parent |-> Nil, path |-> {Root}]
    BY <2>2 DEF NodeOf
  <2>4. e.path = {Root} /\ e.parent = Nil
    BY <2>3
  <2>5. e \in NodeRecs
    <3>1. kind \in SUBSET Kinds /\ "" \in NodeNames
      BY <2>1 DEF Kinds, NodeNames
    <3>2. {Root} \in SUBSET Nat /\ Nil \in Nat /\ 0 \in Nat
      BY DEF Root, Nil
    <3>. QED BY <2>3, <3>1, <3>2 DEF NodeRecs
  <2>6. DOMAIN nodes = {Root} /\ nodes[Root] = e /\ nodes = [n \in {Root} |-> nodes[n]]
    BY <2>1, <2>2
  <2>7. StreamInit /\ format \in Formats
    BY <1>1 DEF Init, XmlInit, JsonInit, Formats
  <2>. QED BY <2>4, <2>5, <2>6, <2>7
<1>3. /\ xpath \in XPaths[format] /\ toks \in Inputs[format]
      /\ read = 0 /\ lastID = Root /\ cur = Root /\ stream = Nil
      /\ reading = FALSE
      /\ reply = [res |-> "none", node |-> Nil]
  BY <1>2 DEF StreamInit
<1>4. Tree(nodes, lastID)
  <2>1. nodes \in [DOMAIN nodes -> NodeRecs]
    BY <1>2
  <2>2. {Root} \subseteq 1..Root
    BY DEF Root
  <2>. QED BY <1>2, <1>3, <2>1, <2>2 DEF Tree
<1>5. Len(toks) \in Nat
  <2>1. format = "xml" => toks \in Seq(Names \cup {End})
    BY <1>3, XmlAssumption
  <2>2. format = "json" => toks \in Seq(Names \cup {Value} \cup Openers \cup Closers)
    BY <1>3, JsonAssumption
  <2>. QED BY <1>2, <2>1, <2>2 DEF Formats
<1>6. TypeOK
  <2>1. Root \in Nat /\ Nil \in Nat /\ 0 \in 0..Len(toks)
    BY <1>5 DEF Root, Nil
  <2>2. reply \in [res : Results, node : Nat]
    BY <1>3, <2>1 DEF Results
  <2>. QED BY <1>2, <1>3, <1>4, <2>1, <2>2 DEF TypeOK
<1>7. StreamInv
  BY <1>3 DEF StreamInv, Within
<1>8. DepthInv
  <2>1. cur # Nil
    BY <1>3 DEF Root, Nil
  <2>2. Cardinality(nodes[cur].path) = 1
    BY <1>2, <1>3, FS_Singleton
  <2>3. Depth(toks, 0) = 0
    <3>1. {k \in 1..0 : toks[k] # End} = {}
      OBVIOUS
    <3>2. Cardinality({k \in 1..0 : toks[k] # End}) = 0
      BY <3>1, FS_EmptySet
    <3>. QED BY <3>2 DEF Depth
  <2>. QED BY <1>3, <2>1, <2>2, <2>3 DEF DepthInv
<1>9. OnlyStreamMatches
  <2>1. SUFFICES ASSUME Simple(xpath), TargetPath # <<>> PROVE MatchesInStream(TargetPath)
    BY DEF OnlyStreamMatches
  <2>2. PICK q : q = NoLastFilter(TargetPath)
    OBVIOUS
  <2>3. Len(q) \in Nat /\ Len(q) >= 1
    BY <1>6, <2>1, <2>2, SimpleHasNone
  <2>4. ASSUME NEW n \in Select(nodes, q) PROVE FALSE
    <3>1. n = Root
      BY <1>2 DEF Select
    <3>2. PICK w \in Walks(nodes, q, n) :
             \A i \in 1..Len(q) :
                Below(nodes, w[i], w[i - 1], q[i].deep) /\ Passes(nodes, w[i], q[i])
      BY DEF Select
    <3>3. w \in [0..Len(q) -> {Root}]
      BY <1>2, <3>1, <3>2 DEF Walks
    <3>4. w[1] = Root /\ w[0] = Root
      BY <2>3, <3>3
    <3>5. Below(nodes, w[1], w[1 - 1], q[1].deep)
      BY <2>3, <3>2
    <3>6. 1 - 1 = 0
      OBVIOUS
    <3>7. Below(nodes, Root, Root, q[1].deep)
      BY <3>4, <3>5, <3>6
    <3>. QED BY <1>2, <3>7 DEF Below, Root, Nil
  <2>. QED BY <2>2, <2>4 DEF MatchesInStream
<1>. QED BY <1>6, <1>7, <1>8, <1>9 DEF IInv

LEMMA ReleaseInv == IInv /\ Release => IInv'
<1>1. SUFFICES ASSUME IInv, Release PROVE IInv'
  OBVIOUS
<1>2. /\ TypeOK /\ StreamInv /\ lastID \in Nat /\ Tree(nodes, lastID)
      /\ cur \in DOMAIN nodes \cup {Nil}
      /\ OnlyMatches(nodes, stream)
      /\ AsDeep(nodes, cur, read) /\ read \in 0..Len(toks)
      /\ reply \in [res : Results, node : Nat]
  BY <1>1, IsGood DEF IInv, TypeOK, Good
<1>3. /\ reply.node # Nil /\ reply.node = stream /\ cur \notin Subtree(nodes, stream)
      /\ stream \in DOMAIN nodes
  BY <1>1, <1>2 DEF Release, StreamInv, TypeOK
<1>4. PICK t : t = Released(nodes, stream)
  OBVIOUS
<1>5. /\ Tree(t, lastID)
      /\ DOMAIN t = DOMAIN nodes \ Subtree(nodes, stream)
      /\ \A n \in DOMAIN t : t[n] = nodes[n]
  <2>1. lastID \in Nat /\ Tree(nodes, lastID)
    BY <1>2
  <2>. QED BY ONLY <1>4, <2>1, ReleasedTree
<1>6. /\ nodes' = t /\ stream' = Nil /\ UNCHANGED <<config, read, lastID, cur, reading>>
      /\ reply' = [reply EXCEPT !.node = Nil]
  BY <1>1, <1>3, <1>4 DEF Release
<1>7. reply' \in [res : Results, node : Nat] /\ reply'.node = Nil /\ reading' \in BOOLEAN
  BY <1>2, <1>6 DEF Nil, TypeOK
<1>8. OnlyMatches(t, Nil)
  BY <1>2, <1>3, <1>4, NoneLeft
<1>9. cur \in DOMAIN t \cup {Nil} /\ AsDeep(t, cur, read)
  BY <1>2, <1>3, <1>5 DEF AsDeep
<1>10. Good(nodes', lastID', cur', stream', read')
  BY <1>2, <1>5, <1>6, <1>8, <1>9 DEF Good
<1>11. StreamInv'
  BY <1>6, <1>7 DEF StreamInv, Within
<1>. QED BY <1>2, <1>6, <1>7, <1>10, <1>11, Assemble

LEMMA ReadInv == IInv /\ Read => IInv'
<1>1. SUFFICES ASSUME IInv, Read PROVE IInv'
  OBVIOUS
<1>2. /\ TypeOK /\ StreamInv /\ lastID \in Nat /\ Tree(nodes, lastID)
      /\ cur \in DOMAIN nodes \cup {Nil}
      /\ OnlyMatches(nodes, stream)
      /\ AsDeep(nodes, cur, read) /\ read \in 0..Len(toks)
      /\ reply \in [res : Results, node : Nat]
  BY <1>1, IsGood DEF IInv, TypeOK, Good
<1>3. /\ reading' = TRUE /\ stream' = Nil
      /\ UNCHANGED <<config, read, lastID, cur>>
      /\ reply' = [reply EXCEPT !.node = Nil]
  BY <1>1 DEF Read
<1>4. reply' \in [res : Results, node : Nat] /\ reply'.node = Nil
  BY <1>2, <1>3 DEF Nil
<1>5. StreamInv'
  BY <1>3, <1>4 DEF StreamInv, Within
<1>6. CASE stream = Nil
  <2>1. nodes' = nodes
    BY <1>1, <1>6 DEF Read
  <2>2. Good(nodes', lastID', cur', stream', read')
    BY <1>2, <1>3, <1>6, <2>1 DEF Good
  <2>. QED BY <1>2, <1>3, <1>4, <1>5, <2>2, Assemble
<1>7. CASE stream # Nil
  <2>1. /\ reply.node = stream /\ cur \notin Subtree(nodes, stream)
        /\ stream \in DOMAIN nodes
    BY <1>1, <1>2, <1>7 DEF Read, StreamInv, TypeOK
  <2>2. PICK t : t = Released(nodes, stream)
    OBVIOUS
  <2>3. /\ Tree(t, lastID)
        /\ DOMAIN t = DOMAIN nodes \ Subtree(nodes, stream)
        /\ \A n \in DOMAIN t : t[n] = nodes[n]
    <3>1. lastID \in Nat /\ Tree(nodes, lastID)
      BY <1>2
    <3>. QED BY ONLY <2>2, <3>1, ReleasedTree
  <2>4. nodes' = t
    BY <1>1, <1>7, <2>2 DEF Read
  <2>5. OnlyMatches(t, Nil)
    BY <1>2, <2>1, <2>2, NoneLeft
  <2>6. cur \in DOMAIN t \cup {Nil} /\ AsDeep(t, cur, read)
    BY <1>2, <2>1, <2>3 DEF AsDeep
  <2>7. Good(nodes', lastID', cur', stream', read')
    BY <1>2, <1>3, <2>3, <2>4, <2>5, <2>6 DEF Good
  <2>. QED BY <1>2, <1>3, <1>4, <1>5, <2>7, Assemble
<1>. QED BY <1>6, <1>7

LEMMA TokenFailsInv == IInv /\ TokenFails => IInv'
<1>1. SUFFICES ASSUME IInv, TokenFails PROVE IInv'
  OBVIOUS
<1>2. /\ TypeOK /\ StreamInv
      /\ AsDeep(nodes, cur, read) /\ read \in 0..Len(toks)
  BY <1>1, IsGood DEF IInv, Good
<1>3. PICK res \in {"EOF", "failed"} : Return(res, Nil)
  BY <1>1 DEF TokenFails
<1>4. /\ reading /\ UNCHANGED config /\ UNCHANGED <<nodes, lastID, cur, stream>>
      /\ read' = read
  BY <1>1 DEF TokenFails
<1>5. Within(stream, cur, nodes)
  BY <1>2, <1>4 DEF StreamInv
<1>6. reading' = FALSE /\ reply' = [res |-> res, node |-> Nil]
  BY <1>3 DEF Return
<1>. QED BY <1>1, <1>2, <1>4, <1>5, <1>6, Answer

LEMMA StartElementInv == IInv /\ StartElement => IInv'
<1>1. SUFFICES ASSUME IInv, StartElement PROVE IInv'
  OBVIOUS
<1>2. format = "xml" /\ TokenRead /\ Tok # End
  BY <1>1 DEF StartElement
<1>3. /\ TypeOK /\ read < Len(toks) /\ read' = read + 1
      /\ Within(stream, cur, nodes) /\ AsDeep(nodes, cur, read)
  BY <1>1, <1>2, ReadingFacts DEF Good
<1>4. cur # Nil /\ Cardinality(nodes[cur].path) = Depth(toks, read) + 1
  BY <1>2, <1>3 DEF AsDeep
<1>5. PICK t, s : t = Grown(Tok, {}) /\ s = StreamCandidateCheck(t, NewID)
  OBVIOUS
<1>6. Tok \in NodeNames /\ {} \in SUBSET Kinds
  BY <1>3, TokType DEF NodeNames
<1>7. /\ NewID \in Nat /\ NewID \in DOMAIN t
      /\ Tree(t, NewID)
      /\ Cardinality(t[NewID].path) = Cardinality(nodes[cur].path) + 1
      /\ s \in DOMAIN t \cup {Nil}
      /\ Within(s, NewID, t)
      /\ OnlyMatches(t, s)
  BY <1>1, <1>3, <1>4, <1>5, <1>6, GrowFacts
<1>8. /\ nodes' = t /\ lastID' = NewID /\ cur' = NewID /\ stream' = s /\ ReadGoesOn
  BY <1>1, <1>5 DEF StartElement
<1>9. AsDeep(t, NewID, read')
  <2>1. Depth(toks, read + 1) = Depth(toks, read) + 1
    BY <1>2, <1>3, DepthStep
  <2>2. NewID # Nil
    BY <1>7, NodeFacts
  <2>3. Cardinality(t[NewID].path) = Depth(toks, read + 1) + 1
    BY <1>4, <1>7, <2>1
  <2>. QED BY <1>3, <2>2, <2>3 DEF AsDeep
<1>. QED BY <1>1, <1>2, <1>7, <1>8, <1>9, MoveOn

LEMMA EndElementInv == IInv /\ EndElement => IInv'
<1>1. SUFFICES ASSUME IInv, EndElement PROVE IInv'
  OBVIOUS
<1>2. /\ format = "xml" /\ TokenRead /\ Tok = End /\ lastID' = lastID
      /\ WrapUpCurAndTargetCheck(nodes, cur, stream)
  BY <1>1 DEF EndElement
<1>3. /\ TypeOK /\ read < Len(toks) /\ read' = read + 1 /\ UNCHANGED config
      /\ read' \in 0..Len(toks) /\ reading = TRUE /\ reply.node = Nil
      /\ Within(stream, cur, nodes) /\ AsDeep(nodes, cur, read)
      /\ lastID \in Nat /\ Tree(nodes, lastID)
      /\ OnlyMatches(nodes, stream)
      /\ stream \in DOMAIN nodes \cup {Nil} /\ cur \in DOMAIN nodes \cup {Nil}
  BY <1>1, <1>2, ReadingFacts DEF Good
<1>4. cur \in DOMAIN nodes /\ Cardinality(nodes[cur].path) = Depth(toks, read) + 1
  BY <1>2, <1>3 DEF AsDeep
<1>5. /\ Depth(toks, read) \in Int
      /\ Depth(toks, read + 1) = Depth(toks, read) - 1
      /\ Depth(toks, read + 1) >= 0
  BY <1>2, <1>3, DepthStep
<1>6. PICK p : p = nodes[cur].parent
  OBVIOUS
<1>7. cur # Root
  <2>1. Cardinality({Root}) = 1
    BY FS_Singleton
  <2>2. cur = Root => nodes[cur].path = {Root}
    BY <1>3, <1>4 DEF Tree
  <2>3. Cardinality(nodes[cur].path) # 1
    BY <1>4, <1>5
  <2>. QED BY <2>1, <2>2, <2>3
<1>8. /\ p \in DOMAIN nodes /\ p < cur
      /\ nodes[cur].path = nodes[p].path \cup {cur}
      /\ nodes[p].path \subseteq 1..p
  BY <1>3, <1>4, <1>6, <1>7 DEF Tree
<1>9. cur \in Nat /\ p \in Nat /\ IsFiniteSet(nodes[p].path) /\ p # Nil
  BY <1>3, <1>4, <1>8, NodeFacts
<1>10. cur \notin nodes[p].path
  BY <1>8, <1>9
<1>11. /\ Cardinality(nodes[cur].path) = Cardinality(nodes[p].path) + 1
       /\ Cardinality(nodes[p].path) \in Nat
  BY <1>8, <1>9, <1>10, FS_AddElement, FS_CardinalityType
<1>12. Cardinality(nodes[p].path) = Depth(toks, read + 1) + 1
  BY <1>4, <1>5, <1>11
<1>13. AsDeep(nodes, nodes[cur].parent, read')
  BY <1>3, <1>6, <1>9, <1>12 DEF AsDeep
<1>. QED BY <1>2, <1>3, <1>4, <1>13, WrapUpFacts

LEMMA NilCurInv == IInv /\ NilCur => IInv'
<1>1. SUFFICES ASSUME IInv, NilCur PROVE IInv'
  OBVIOUS
<1>2. format = "json" /\ TokenRead /\ Return("panic", Nil)
      /\ UNCHANGED <<nodes, lastID, cur, stream>>
  BY <1>1 DEF NilCur
<1>3. UNCHANGED config /\ read' \in 0..Len(toks) /\ Within(stream, cur, nodes)
  BY <1>1, <1>2, ReadingFacts
<1>4. AsDeep(nodes, cur, read')
  BY <1>2 DEF AsDeep
<1>5. reading' = FALSE /\ reply' = [res |-> "panic", node |-> Nil]
  BY <1>2 DEF Return
<1>. QED BY <1>1, <1>2, <1>3, <1>4, <1>5, Answer

(* In json, a new node that becomes the current one. *)
LEMMA OpenNode ==
    ASSUME IInv, format = "json", TokenRead, cur # Nil, ReadGoesOn,
           NEW name \in NodeNames, NEW kind \in SUBSET Kinds,
           NEW t, t = Grown(name, kind),
           nodes' = t, lastID' = NewID, cur' = NewID,
           stream' = StreamCandidateCheck(t, NewID)
    PROVE  IInv'
<1>1. read < Len(toks) /\ Within(stream, cur, nodes)
  BY ReadingFacts
<1>2. PICK s : s = StreamCandidateCheck(t, NewID)
  OBVIOUS
<1>3. /\ NewID \in Nat /\ NewID \in DOMAIN t
      /\ Tree(t, NewID)
      /\ s \in DOMAIN t \cup {Nil}
      /\ Within(s, NewID, t)
      /\ OnlyMatches(t, s)
  BY <1>1, <1>2, GrowFacts
<1>4. AsDeep(t, NewID, read')
  BY DEF AsDeep
<1>5. stream' = s
  BY <1>2
<1>. QED BY <1>3, <1>4, <1>5, MoveOn

LEMMA OpenInArrInv == IInv /\ OpenInArr => IInv'
<1>1. SUFFICES ASSUME IInv, OpenInArr PROVE IInv'
  OBVIOUS
<1>2. PICK t : t = Grown("", {NewFlag})
  OBVIOUS
<1>3. /\ format = "json" /\ TokenRead /\ cur # Nil /\ ReadGoesOn
      /\ nodes' = t /\ lastID' = NewID /\ cur' = NewID
      /\ stream' = StreamCandidateCheck(t, NewID)
  BY <1>1, <1>2 DEF OpenInArr, Token
<1>4. "" \in NodeNames /\ {NewFlag} \in SUBSET Kinds
  BY DEF NodeNames, NewFlag, Kinds
<1>. QED BY <1>1, <1>2, <1>3, <1>4, OpenNode

LEMMA KeyInv == IInv /\ Key => IInv'
<1>1. SUFFICES ASSUME IInv, Key PROVE IInv'
  OBVIOUS
<1>2. PICK t : t = Grown(Tok, {"Prop"})
  OBVIOUS
<1>3. /\ format = "json" /\ TokenRead /\ cur # Nil /\ ReadGoesOn
      /\ nodes' = t /\ lastID' = NewID /\ cur' = NewID
      /\ stream' = StreamCandidateCheck(t, NewID)
  BY <1>1, <1>2 DEF Key, Scalar, Token
<1>4. TypeOK /\ read < Len(toks)
  BY <1>1, <1>3, ReadingFacts
<1>5. Tok \in NodeNames /\ {"Prop"} \in SUBSET Kinds
  BY <1>4, TokType DEF NodeNames, Kinds
<1>. QED BY <1>1, <1>2, <1>3, <1>5, OpenNode

LEMMA OpenValueInv == IInv /\ OpenValue => IInv'
<1>1. SUFFICES ASSUME IInv, OpenValue PROVE IInv'
  OBVIOUS
<1>2. PICK kind, t : kind = {NewFlag} /\ t = Marked(kind)
  OBVIOUS
<1>3. /\ format = "json" /\ TokenRead /\ cur # Nil /\ ReadGoesOn
      /\ nodes' = t /\ lastID' = lastID /\ cur' = cur
      /\ stream' = IF OnProp THEN stream ELSE StreamCandidateCheck(nodes, cur)
  BY <1>1, <1>2 DEF OpenValue, Token, Marked
<1>4. kind \in SUBSET Kinds
  BY <1>2 DEF NewFlag, Kinds
<1>5. /\ Tree(t, lastID)
      /\ DOMAIN t = DOMAIN nodes
      /\ cur \in DOMAIN nodes
      /\ \A n \in DOMAIN nodes : /\ t[n].name = nodes[n].name
                                 /\ t[n].parent = nodes[n].parent
                                 /\ t[n].path = nodes[n].path
      /\ OnlyMatches(t, stream)
  BY <1>1, <1>2, <1>3, <1>4, KindFacts
<1>6. /\ Within(stream, cur, nodes) /\ lastID \in Nat
      /\ stream \in DOMAIN nodes \cup {Nil}
  BY <1>1, <1>3, ReadingFacts DEF Good
<1>7. PICK s : s = IF OnProp THEN stream ELSE StreamCandidateCheck(nodes, cur)
  OBVIOUS
<1>8. /\ s \in DOMAIN nodes \cup {Nil}
      /\ Within(s, cur, nodes)
      /\ OnlyMatches(t, s)
  <2>1. CASE OnProp
    BY <1>5, <1>6, <1>7, <2>1
  <2>2. CASE ~OnProp
    <3>1. s = StreamCandidateCheck(nodes, cur)
      BY <1>7, <2>2
    <3>. QED BY <1>1, <1>3, <1>5, <1>6, <3>1, CheckFacts
  <2>. QED BY <2>1, <2>2
<1>9. Within(s, cur, t)
  BY <1>5, <1>8 DEF Within
<1>10. AsDeep(t, cur, read')
  BY <1>3 DEF AsDeep
<1>11. stream' = s
  BY <1>3, <1>7
<1>. QED BY <1>1, <1>3, <1>5, <1>6, <1>8, <1>9, <1>10, <1>11, MoveOn

LEMMA CloseInv == IInv /\ Close => IInv'
<1>1. SUFFICES ASSUME IInv, Close PROVE IInv'
  OBVIOUS
<1>2. /\ format = "json" /\ TokenRead /\ cur # Nil /\ lastID' = lastID
      /\ WrapUpCurAndTargetCheck(nodes, cur, stream)
  BY <1>1 DEF Close, Token
<1>3. /\ TypeOK /\ UNCHANGED config
      /\ read' \in 0..Len(toks) /\ reading = TRUE /\ reply.node = Nil
      /\ Within(stream, cur, nodes)
      /\ lastID \in Nat /\ Tree(nodes, lastID)
      /\ OnlyMatches(nodes, stream)
      /\ stream \in DOMAIN nodes \cup {Nil} /\ cur \in DOMAIN nodes
  BY <1>1, <1>2, ReadingFacts DEF Good
<1>4. AsDeep(nodes, nodes[cur].parent, read')
  BY <1>2 DEF AsDeep
<1>. QED BY <1>2, <1>3, <1>4, WrapUpFacts

LEMMA ValueInArrInv == IInv /\ ValueInArr => IInv'
<1>1. SUFFICES ASSUME IInv, ValueInArr PROVE IInv'
  OBVIOUS
<1>2. PICK t, s : t = Grown("", {"Prop"}) /\ s = StreamCandidateCheck(t, NewID)
  OBVIOUS
<1>3. /\ format = "json" /\ TokenRead /\ cur # Nil /\ lastID' = NewID
      /\ WrapUpCurAndTargetCheck(t, NewID, s)
  BY <1>1, <1>2 DEF ValueInArr, Scalar, Token
<1>4. /\ TypeOK /\ UNCHANGED config
      /\ read < Len(toks)
      /\ read' \in 0..Len(toks) /\ reading = TRUE /\ reply.node = Nil
      /\ Within(stream, cur, nodes)
  BY <1>1, <1>3, ReadingFacts
<1>5. "" \in NodeNames /\ {"Prop"} \in SUBSET Kinds
  BY DEF NodeNames, Kinds
<1>6. /\ NewID \in Nat /\ NewID \in DOMAIN t
      /\ Tree(t, NewID)
      /\ s \in DOMAIN t \cup {Nil}
      /\ Within(s, NewID, t)
      /\ OnlyMatches(t, s)
  <2>1. PICK name \in NodeNames, kind \in SUBSET Kinds : name = "" /\ kind = {"Prop"}
    BY <1>5
  <2>2. t = Grown(name, kind)
    BY <1>2, <2>1
  <2>. QED BY <1>1, <1>2, <1>3, <1>4, <2>2, GrowFacts
<1>7. AsDeep(t, t[NewID].parent, read')
  BY <1>3 DEF AsDeep
<1>. QED BY <1>3, <1>4, <1>6, <1>7, WrapUpFacts

LEMMA ValueOfInv == IInv /\ ValueOf => IInv'
<1>1. SUFFICES ASSUME IInv, ValueOf PROVE IInv'
  OBVIOUS
<1>2. PICK s : s = IF OnProp THEN stream ELSE StreamCandidateCheck(nodes, cur)
  OBVIOUS
<1>3. /\ format = "json" /\ TokenRead /\ cur # Nil /\ lastID' = lastID
      /\ WrapUpCurAndTargetCheck(nodes, cur, s)
  BY <1>1, <1>2 DEF ValueOf, Scalar, Token
<1>4. /\ TypeOK /\ UNCHANGED config
      /\ read' \in 0..Len(toks) /\ reading = TRUE /\ reply.node = Nil
      /\ Within(stream, cur, nodes)
      /\ lastID \in Nat /\ Tree(nodes, lastID)
      /\ OnlyMatches(nodes, stream)
      /\ stream \in DOMAIN nodes \cup {Nil} /\ cur \in DOMAIN nodes
  BY <1>1, <1>3, ReadingFacts DEF Good
<1>5. /\ s \in DOMAIN nodes \cup {Nil}
      /\ Within(s, cur, nodes)
      /\ OnlyMatches(nodes, s)
  <2>1. CASE OnProp
    BY <1>2, <1>4, <2>1
  <2>2. CASE ~OnProp
    <3>1. s = StreamCandidateCheck(nodes, cur)
      BY <1>2, <2>2
    <3>2. PICK t : t = nodes
      OBVIOUS
    <3>3. OnlyMatches(t, stream)
      BY <1>4, <3>2
    <3>. QED BY <1>1, <1>3, <1>4, <3>1, <3>2, <3>3, CheckFacts
  <2>. QED BY <2>1, <2>2
<1>6. AsDeep(nodes, nodes[cur].parent, read')
  BY <1>3 DEF AsDeep
<1>. QED BY <1>3, <1>4, <1>5, <1>6, WrapUpFacts

LEMMA StutterInv == IInv /\ UNCHANGED vars => IInv'
<1>1. SUFFICES ASSUME IInv, UNCHANGED vars PROVE IInv'
  OBVIOUS
<1>2. /\ UNCHANGED config
      /\ UNCHANGED <<read, nodes, lastID, cur, stream, reading, reply>>
  BY <1>1 DEF vars
<1>3. TypeOK /\ StreamInv /\ Good(nodes, lastID, cur, stream, read)
  BY <1>1, IsGood DEF IInv
<1>4. Good(nodes', lastID', cur', stream', read')
  BY <1>2, <1>3
<1>5. reading' \in BOOLEAN /\ reply' \in [res : Results, node : Nat]
  BY <1>2, <1>3 DEF TypeOK
<1>6. StreamInv'
  BY <1>2, <1>3 DEF StreamInv
<1>. QED BY <1>2, <1>3, <1>4, <1>5, <1>6, Assemble

-----------------------------------------------------------------------------
(***************************************************************************)
(* The inductive invariant holds in every state of both readers.           *)
(***************************************************************************)
THEOREM Invariance == Spec => []IInv
<1>1. ASSUME IInv, [Next]_vars PROVE IInv'
  <2>1. CASE Release
    BY <1>1, <2>1, ReleaseInv
  <2>2. CASE Read
    BY <1>1, <2>2, ReadInv
  <2>3. CASE TokenFails
    BY <1>1, <2>3, TokenFailsInv
  <2>4. CASE XmlToken
    BY <1>1, <2>4, StartElementInv, EndElementInv DEF XmlToken
  <2>5. CASE JsonToken
    BY <1>1, <2>5, NilCurInv, OpenInArrInv, OpenValueInv, CloseInv, KeyInv, ValueInArrInv,
       ValueOfInv DEF JsonToken
  <2>6. CASE Ended
    BY <1>1, <2>6, StutterInv DEF Ended
  <2>7. CASE UNCHANGED vars
    BY <1>1, <2>7, StutterInv
  <2>. QED BY <1>1, <2>1, <2>2, <2>3, <2>4, <2>5, <2>6, <2>7 DEF Next
<1>. QED BY <1>1, InitInv, PTL DEF Spec

(***************************************************************************)
(* The current node and what was returned are live, with all that is above *)
(* them, and the current node is not within what was returned: neither     *)
(* reader ever attaches a node to a recycled one, or releases its own      *)
(* current node with a target (xmlreader.go:40, jsonreader.go:56).         *)
(***************************************************************************)
THEOREM CurrentAlive == Spec => []CurLive
<1>1. IInv => CurLive
  <2>1. SUFFICES ASSUME IInv PROVE CurLive
    OBVIOUS
  <2>2. /\ Tree(nodes, lastID)
        /\ cur \in DOMAIN nodes \cup {Nil} /\ stream \in DOMAIN nodes \cup {Nil}
    BY <2>1 DEF IInv, TypeOK
  <2>3. reply.node # Nil => reply.node = stream /\ cur \notin Subtree(nodes, stream)
    BY <2>1 DEF IInv, StreamInv
  <2>4. \A n \in DOMAIN nodes : nodes[n].path \subseteq DOMAIN nodes
    BY <2>2 DEF Tree
  <2>. QED BY <2>2, <2>3, <2>4 DEF CurLive
<1>. QED BY <1>1, Invariance, PTL

(***************************************************************************)
(* All nodes that match the xpath, its last filter aside, are the stream   *)
(* candidate or within it, so that a match found by the candidate check is *)
(* the current node (xmlreader.go:27, jsonreader.go:43).                   *)
(***************************************************************************)
THEOREM StreamMatches == Spec => []OnlyStreamMatches
<1>1. IInv => OnlyStreamMatches
  BY DEF IInv
<1>. QED BY <1>1, Invariance, PTL

-----------------------------------------------------------------------------
(***************************************************************************)
(* The json reader keeps step with the decoder.  It goes up one node when  *)
(* a value is complete, and never counts brackets; but the nodes from the  *)
(* root to its current one are what is open in the decoder, one for one.   *)
(***************************************************************************)
JsonTokens == Names \cup {Value} \cup Openers \cup Closers

Frames == {"{", "[", Due}

(* Only the last thing that is open can be a value that is due, after a key. *)
Stack(s) ==
    /\ s \in Seq(Frames)
    /\ \A k \in 1..Len(s) : s[k] = Due => k = Len(s) /\ k > 1

(* The number of brackets that are open. *)
Height(s) == IF s # <<>> /\ s[Len(s)] = Due THEN Len(s) - 1 ELSE Len(s)

(* How deep the node n is in the tree t, the root being at 1. *)
NodeDepth(t, n) == Cardinality(t[n].path)

(* A node of this kind holds what is open: an object, an array, or a value that is due. *)
Fits(kind, frame) ==
    /\ "Obj" \in kind <=> frame = "{"
    /\ "Arr" \in kind <=> frame = "["

(* The nodes from the root of the tree t down to c hold what is open, p, one for one. *)
Along(p, t, c) ==
    /\ c \in DOMAIN t
    /\ NodeDepth(t, c) = Len(p)
    /\ \A n \in t[c].path : Fits(t[n].kind, p[NodeDepth(t, n)])

InStep(s, t, c, r) ==
    /\ Stack(s)
    /\ Level(toks, r) = Height(s)
    /\ IF s = <<>> /\ r > 0 THEN c = Nil ELSE Along(Pending(s), t, c)

JsonInv ==
    /\ reading => reply.res \in {"none", "node"}
    /\ format = "json" /\ reply.res # "panic" => InStep(OpenAfter(toks)[read], nodes, cur, read)

-----------------------------------------------------------------------------
(* The decoder. *)

(* What is open after a token follows from what was open before it. *)
LEMMA OpenStep ==
    ASSUME NEW ts, Len(ts) \in Nat
    PROVE  /\ OpenAfter(ts)[0] = <<>>
           /\ \A i \in 1..Len(ts) : OpenAfter(ts)[i] = After(OpenAfter(ts)[i - 1], ts[i])
<1>. DEFINE L == Len(ts)
            Step(f, i) == IF i = 0 THEN <<>> ELSE After(f[i - 1], ts[i])
            Upto(f, n) == f = [i \in 0..n |-> Step(f, i)]
            bad == {n \in 0..L : ~ \E f : Upto(f, n)}
<1>1. bad = {}
  <2>1. SUFFICES ASSUME bad # {} PROVE FALSE
    OBVIOUS
  <2>2. bad \in SUBSET Nat
    OBVIOUS
  <2>3. PICK n : n \in bad /\ \A k \in bad : n <= k
    <3>1. Min(bad) \in bad /\ \A k \in bad : Min(bad) <= k
      BY <2>1, <2>2, MinFacts
    <3>. QED BY <3>1
  <2>4. n \in 0..L /\ n \in Nat
    BY <2>3
  <2>5. CASE n = 0
    <3>. DEFINE f == [i \in 0..0 |-> <<>>]
    <3>1. \A i \in 0..0 : i = 0
      OBVIOUS
    <3>2. Upto(f, 0)
      BY <3>1
    <3>. QED BY <2>3, <2>5, <3>2
  <2>6. CASE n # 0
    <3>1. n - 1 \in 0..L /\ n - 1 \in Nat /\ ~(n <= n - 1)
      BY <2>4, <2>6
    <3>2. n - 1 \notin bad
      BY <2>3, <3>1
    <3>3. PICK f : Upto(f, n - 1)
      BY <3>1, <3>2
    <3>. DEFINE g == [i \in 0..n |-> IF i = n THEN After(f[n - 1], ts[n]) ELSE f[i]]
    <3>4. ASSUME NEW i \in 0..n PROVE g[i] = Step(g, i)
      <4>1. CASE i = 0
        <5>1. f[0] = <<>>
          <6>1. 0 \in 0..(n - 1)
            BY <3>1
          <6>. QED BY <3>3, <6>1
        <5>2. i # n
          BY <4>1, <2>6
        <5>. QED BY <4>1, <5>1, <5>2
      <4>2. CASE i # 0 /\ i = n
        <5>1. g[n - 1] = f[n - 1]
          BY <2>4, <3>1
        <5>2. g[n] = After(f[n - 1], ts[n])
          BY <2>4
        <5>. QED BY <4>2, <5>1, <5>2
      <4>3. CASE i # 0 /\ i # n
        <5>1. i \in 0..(n - 1) /\ i - 1 \in 0..n /\ i - 1 # n
          BY <2>4, <4>3
        <5>2. f[i] = After(f[i - 1], ts[i])
          BY <3>3, <4>3, <5>1
        <5>3. g[i - 1] = f[i - 1] /\ g[i] = f[i]
          BY <4>3, <5>1
        <5>. QED BY <4>3, <5>2, <5>3
      <4>. QED BY <4>1, <4>2, <4>3
    <3>5. g = [i \in 0..n |-> g[i]]
      OBVIOUS
    <3>. HIDE DEF g
    <3>6. Upto(g, n)
      BY <3>4, <3>5
    <3>. QED BY <2>3, <3>6
  <2>. QED BY <2>5, <2>6
<1>2. L \in 0..L
  OBVIOUS
<1>3. \E f : Upto(f, L)
  BY <1>1, <1>2
<1>4. PICK o : o = OpenAfter(ts)
  OBVIOUS
<1>5. o = CHOOSE f : Upto(f, L)
  BY <1>4 DEF OpenAfter
<1>6. Upto(o, L)
  BY <1>3, <1>5
<1>7. \A i \in 0..L : o[i] = Step(o, i)
  BY <1>6
<1>8. 0 \in 0..L /\ \A i \in 1..L : i \in 0..L /\ i # 0
  OBVIOUS
<1>. QED BY <1>4, <1>7, <1>8

(* The cases of a token: what is on top of the stack p that it may follow, and *)
(* the stack after it.                                                         *)
TokenCase(tok, top, p, u) ==
    \/ tok \in Names /\ top = "{" /\ u = Append(p, Due)
    \/ tok \in Openers /\ top = "[" /\ u = Append(p, tok)
    \/ tok \in Openers /\ top = Due /\ u = Append(Front(p), tok)
    \/ tok \in Closers /\ top \in {"{", "["} /\ u = Front(p)
    \/ tok = Value /\ top = "[" /\ u = p
    \/ tok = Value /\ top = Due /\ u = Front(p)

LEMMA TokenCases ==
    ASSUME NEW s, NEW tok \in JsonTokens, MayFollow(s, tok),
           NEW p, p = Pending(s), NEW top, top = Last(p), NEW u, u = After(s, tok)
    PROVE  TokenCase(tok, top, p, u)
<1>1. /\ Names \cap ({Value} \cup Openers \cup Closers) = {}
      /\ \/ top = "{" /\ tok \in Names \cup {"}"}
         \/ top = "[" /\ tok \in Openers \cup {Value, "]"}
         \/ top = Due /\ tok \in Openers \cup {Value}
  BY JsonAssumption DEF MayFollow
<1>2. /\ tok \in Closers => u = Front(p)
      /\ tok \in Names /\ tok \notin Closers => u = Append(p, Due)
      /\ tok \in Openers /\ tok \notin Closers \cup Names =>
            u = Append(IF top = Due THEN Front(p) ELSE p, tok)
      /\ tok \notin Closers \cup Names \cup Openers => u = IF top = Due THEN Front(p) ELSE p
  BY DEF After
<1>. QED BY <1>1, <1>2 DEF TokenCase, Openers, Closers, Value, Due

(* What is open, or due, is a stack of frames: only what is on top is due. *)
LEMMA PendingStack ==
    ASSUME NEW s, Stack(s), NEW p, p = Pending(s)
    PROVE  /\ p \in Seq(Frames) /\ p # <<>> /\ Len(p) \in Nat /\ Len(p) >= 1
           /\ \A k \in 1..Len(p) : p[k] = Due => k = Len(p)
           /\ Last(p) = p[Len(p)]
           /\ Height(s) = IF p[Len(p)] = Due THEN Len(p) - 1 ELSE Len(p)
<1>1. CASE s = <<>>
  <2>1. p = <<Due>>
    BY <1>1 DEF Pending
  <2>2. p \in Seq(Frames) /\ p # <<>> /\ Len(p) = 1 /\ p[1] = Due
    BY <2>1 DEF Frames
  <2>3. Height(s) = 0
    BY <1>1 DEF Height
  <2>. QED BY <2>2, <2>3 DEF Last
<1>2. CASE s # <<>>
  <2>1. p = s
    BY <1>2 DEF Pending
  <2>2. p \in Seq(Frames) /\ p # <<>> /\ \A k \in 1..Len(p) : p[k] = Due => k = Len(p)
    BY <1>2, <2>1 DEF Stack
  <2>3. Len(p) \in Nat /\ Len(p) >= 1
    BY <2>2, EmptySeq
  <2>4. Height(s) = IF p[Len(p)] = Due THEN Len(p) - 1 ELSE Len(p)
    BY <2>1, <2>2 DEF Height
  <2>. QED BY <2>2, <2>3, <2>4 DEF Last
<1>. QED BY <1>1, <1>2

(* Without its last frame, a stack has nothing that is due. *)
LEMMA Popped ==
    ASSUME NEW p \in Seq(Frames), p # <<>>,
           \A k \in 1..Len(p) : p[k] = Due => k = Len(p),
           NEW u, u = Front(p)
    PROVE  /\ u \in Seq(Frames) /\ Stack(u)
           /\ Len(u) = Len(p) - 1 /\ Height(u) = Len(p) - 1
           /\ \A k \in 1..(Len(p) - 1) : u[k] = p[k] /\ u[k] # Due
<1>1. Len(p) \in Nat /\ Len(p) >= 1
  BY EmptySeq
<1>2. u \in Seq(Frames) /\ Len(u) = Len(p) - 1 /\ \A k \in 1..(Len(p) - 1) : u[k] = p[k]
  BY FrontType
<1>3. \A k \in 1..(Len(p) - 1) : u[k] # Due
  <2>1. \A k \in 1..(Len(p) - 1) : k \in 1..Len(p) /\ k # Len(p)
    BY <1>1
  <2>. QED BY <1>2, <2>1
<1>4. Stack(u)
  BY <1>2, <1>3 DEF Stack
<1>5. Height(u) = Len(u)
  <2>1. u # <<>> => Len(u) \in 1..(Len(p) - 1)
    BY <1>1, <1>2, EmptySeq
  <2>. QED BY <1>2, <1>3, <2>1, EmptySeq DEF Height
<1>. QED BY <1>2, <1>3, <1>4, <1>5

(* The stack u is q with one more frame f. *)
OneMore(u, q, f) ==
    /\ Stack(u) /\ u # <<>> /\ Pending(u) = u
    /\ Len(u) = Len(q) + 1 /\ u[Len(q) + 1] = f
    /\ \A k \in 1..Len(q) : u[k] = q[k]
    /\ Height(u) = IF f = Due THEN Len(q) ELSE Len(q) + 1

(* One more frame on a stack that has nothing that is due. *)
LEMMA Pushed ==
    ASSUME NEW q \in Seq(Frames), \A k \in 1..Len(q) : q[k] # Due,
           NEW f \in Frames, f = Due => q # <<>>,
           NEW u, u = Append(q, f)
    PROVE  OneMore(u, q, f)
<1>1. Len(q) \in Nat /\ (q # <<>> => Len(q) >= 1)
  BY EmptySeq
<1>2. /\ u \in Seq(Frames) /\ Len(u) = Len(q) + 1 /\ u[Len(q) + 1] = f
      /\ \A k \in 1..Len(q) : u[k] = q[k]
  BY AppendProperties
<1>3. u # <<>> /\ Pending(u) = u
  BY <1>1, <1>2, EmptySeq DEF Pending
<1>4. ASSUME NEW k \in 1..Len(u), u[k] = Due PROVE k = Len(u) /\ k > 1
  <2>1. k \in 1..Len(q) \/ k = Len(q) + 1
    BY <1>1, <1>2, <1>4
  <2>2. k \notin 1..Len(q)
    BY <1>2, <1>4
  <2>3. k = Len(q) + 1 /\ f = Due
    BY <1>2, <1>4, <2>1, <2>2
  <2>. QED BY <1>1, <1>2, <2>3
<1>5. Stack(u)
  BY <1>2, <1>4 DEF Stack
<1>6. Height(u) = IF f = Due THEN Len(q) ELSE Len(q) + 1
  BY <1>1, <1>2, <1>3 DEF Height
<1>. QED BY <1>2, <1>3, <1>5, <1>6 DEF OneMore

(* The number of brackets that are open goes up and down with the brackets. *)
LEMMA LevelStep ==
    ASSUME NEW ts, NEW i \in Nat, NEW tok, tok = ts[i + 1]
    PROVE  /\ Level(ts, i) \in Int
           /\ tok \in Openers => Level(ts, i + 1) = Level(ts, i) + 1
           /\ tok \in Closers => Level(ts, i + 1) = Level(ts, i) - 1
           /\ tok \notin Openers \cup Closers => Level(ts, i + 1) = Level(ts, i)
<1>. DEFINE O(j) == {k \in 1..j : ts[k] \in Openers}
            C(j) == {k \in 1..j : ts[k] \in Closers}
<1>1. /\ IsFiniteSet(O(i)) /\ Cardinality(O(i)) \in Nat
      /\ IsFiniteSet(C(i)) /\ Cardinality(C(i)) \in Nat
  <2>1. IsFiniteSet(1..i)
    BY FS_Interval
  <2>2. IsFiniteSet(O(i)) /\ IsFiniteSet(C(i))
    <3>1. O(i) \subseteq 1..i /\ C(i) \subseteq 1..i
      OBVIOUS
    <3>. QED BY <2>1, <3>1, FS_Subset
  <2>. QED BY <2>2, FS_CardinalityType
<1>2. i + 1 \notin O(i) /\ i + 1 \notin C(i)
  OBVIOUS
<1>3. 1..(i + 1) = (1..i) \cup {i + 1}
  OBVIOUS
<1>4. /\ tok \in Openers => O(i + 1) = O(i) \cup {i + 1}
      /\ tok \notin Openers => O(i + 1) = O(i)
      /\ tok \in Closers => C(i + 1) = C(i) \cup {i + 1}
      /\ tok \notin Closers => C(i + 1) = C(i)
  BY ONLY <1>3, tok = ts[i + 1]
<1>5. /\ Cardinality(O(i) \cup {i + 1}) = Cardinality(O(i)) + 1
      /\ Cardinality(C(i) \cup {i + 1}) = Cardinality(C(i)) + 1
  BY <1>1, <1>2, FS_AddElement
<1>6. /\ Level(ts, i) = Cardinality(O(i)) - Cardinality(C(i))
      /\ Level(ts, i + 1) = Cardinality(O(i + 1)) - Cardinality(C(i + 1))
  BY DEF Level
<1>7. tok \in Openers => tok \notin Closers
  BY DEF Openers, Closers
<1>. HIDE DEF O, C
<1>8. PICK m, n : m = Cardinality(O(i)) /\ n = Cardinality(C(i))
  OBVIOUS
<1>9. m \in Nat /\ n \in Nat /\ Level(ts, i) = m - n
  BY <1>1, <1>6, <1>8
<1>10. CASE tok \in Openers
  <2>1. Level(ts, i + 1) = (m + 1) - n
    BY <1>4, <1>5, <1>6, <1>7, <1>8, <1>10
  <2>. QED BY <1>7, <1>9, <1>10, <2>1
<1>11. CASE tok \in Closers
  <2>1. Level(ts, i + 1) = m - (n + 1)
    BY <1>4, <1>5, <1>6, <1>7, <1>8, <1>11
  <2>. QED BY <1>7, <1>9, <1>11, <2>1
<1>12. CASE tok \notin Openers \cup Closers
  <2>1. Level(ts, i + 1) = m - n
    BY <1>4, <1>6, <1>8, <1>12
  <2>. QED BY <1>9, <1>12, <2>1
<1>. QED BY <1>10, <1>11, <1>12

-----------------------------------------------------------------------------
(* The nodes from the root down to the current one. *)

(* A node is one deeper than its parent, and deeper than every node above it. *)
LEMMA NodeDepths ==
    ASSUME NEW t, NEW m \in Nat, Tree(t, m), NEW c \in DOMAIN t
    PROVE  /\ NodeDepth(t, c) \in Nat /\ NodeDepth(t, c) >= 1
           /\ c = Root <=> NodeDepth(t, c) = 1
           /\ c = Root => t[c].parent = Nil
           /\ c # Root => /\ t[c].parent \in DOMAIN t
                          /\ NodeDepth(t, t[c].parent) = NodeDepth(t, c) - 1
           /\ \A n \in t[c].path :
                 /\ n \in DOMAIN t
                 /\ NodeDepth(t, n) \in 1..NodeDepth(t, c)
                 /\ n # c => NodeDepth(t, n) < NodeDepth(t, c)
<1>1. \A n \in DOMAIN t : /\ n \in Nat /\ IsFiniteSet(t[n].path)
                          /\ NodeDepth(t, n) \in Nat
  <2>1. \A n \in DOMAIN t : n \in Nat /\ IsFiniteSet(t[n].path)
    BY NodeFacts
  <2>. QED BY <2>1, FS_CardinalityType DEF NodeDepth
<1>2. \A n \in DOMAIN t : NodeDepth(t, n) >= 1
  <2>1. SUFFICES ASSUME NEW n \in DOMAIN t PROVE NodeDepth(t, n) >= 1
    OBVIOUS
  <2>2. t[n].path # {}
    BY DEF Tree
  <2>3. NodeDepth(t, n) # 0
    BY <1>1, <2>2, FS_EmptySet DEF NodeDepth
  <2>. QED BY <1>1, <2>3
<1>3. \A n \in t[c].path : n \in DOMAIN t /\ t[n].path \subseteq t[c].path /\ n \in 1..c
  BY DEF Tree
<1>4. \A n \in t[c].path : NodeDepth(t, n) <= NodeDepth(t, c)
  BY <1>1, <1>3, FS_Subset DEF NodeDepth
<1>5. ASSUME NEW n \in t[c].path, n # c PROVE NodeDepth(t, n) < NodeDepth(t, c)
  <2>1. n \in DOMAIN t /\ t[n].path \subseteq t[c].path /\ n < c
    BY <1>1, <1>3, <1>5
  <2>2. t[n].path \subseteq 1..n /\ c \in t[c].path
    BY <2>1 DEF Tree
  <2>3. c \notin t[n].path
    BY <1>1, <2>1, <2>2
  <2>4. t[n].path # t[c].path
    BY <2>2, <2>3
  <2>5. Cardinality(t[n].path) # Cardinality(t[c].path)
    BY <1>1, <2>1, <2>4, FS_Subset
  <2>. QED BY <1>1, <1>4, <2>1, <2>5 DEF NodeDepth
<1>6. CASE c = Root
  <2>1. t[c].path = {Root} /\ t[c].parent = Nil
    BY <1>6 DEF Tree
  <2>2. NodeDepth(t, c) = 1
    BY <2>1, FS_Singleton DEF NodeDepth
  <2>. QED BY <1>1, <1>2, <1>3, <1>4, <1>5, <1>6, <2>1, <2>2
<1>7. CASE c # Root
  <2>1. PICK p : p = t[c].parent
    OBVIOUS
  <2>2. /\ p \in DOMAIN t /\ p < c /\ t[c].path = t[p].path \cup {c}
    BY <1>7, <2>1 DEF Tree
  <2>3. t[p].path \subseteq 1..p
    BY <2>2 DEF Tree
  <2>4. c \notin t[p].path
    BY <1>1, <2>2, <2>3
  <2>5. Cardinality(t[c].path) = Cardinality(t[p].path) + 1
    BY <1>1, <2>2, <2>4, FS_AddElement
  <2>6. NodeDepth(t, p) = NodeDepth(t, c) - 1 /\ NodeDepth(t, c) # 1
    <3>1. NodeDepth(t, c) = NodeDepth(t, p) + 1
      BY <2>5 DEF NodeDepth
    <3>2. NodeDepth(t, p) \in Nat /\ NodeDepth(t, p) >= 1
      BY <1>1, <1>2, <2>2
    <3>. QED BY <3>1, <3>2
  <2>. QED BY <1>1, <1>2, <1>3, <1>4, <1>5, <1>7, <2>1, <2>2, <2>6
<1>. QED BY <1>6, <1>7

(* In another tree with the same nodes down to c, nothing changes. *)
LEMMA AlongSame ==
    ASSUME NEW t, NEW m \in Nat, Tree(t, m), NEW c, NEW p, Along(p, t, c),
           NEW t2, \A n \in t[c].path : n \in DOMAIN t2 /\ t2[n] = t[n]
    PROVE  Along(p, t2, c)
<1>1. c \in DOMAIN t /\ c \in t[c].path
  BY DEF Along, Tree
<1>2. c \in DOMAIN t2 /\ t2[c] = t[c]
  BY <1>1
<1>. QED BY <1>1, <1>2 DEF Along, NodeDepth

(* The parent of a node goes with the stack without its last frame. *)
LEMMA AlongUp ==
    ASSUME NEW t, NEW m \in Nat, Tree(t, m), NEW c, NEW p, Along(p, t, c),
           NEW q, Len(q) = Len(p) - 1, \A k \in 1..(Len(p) - 1) : q[k] = p[k]
    PROVE  /\ Len(p) \in Nat /\ Len(p) >= 1
           /\ IF Len(p) = 1 THEN t[c].parent = Nil ELSE Along(q, t, t[c].parent)
<1>1. c \in DOMAIN t /\ NodeDepth(t, c) = Len(p)
  BY DEF Along
<1>2. /\ Len(p) \in Nat /\ Len(p) >= 1
      /\ c = Root <=> Len(p) = 1
      /\ c = Root => t[c].parent = Nil
      /\ c # Root => t[c].parent \in DOMAIN t /\ NodeDepth(t, t[c].parent) = Len(p) - 1
  BY <1>1, NodeDepths
<1>3. ASSUME c # Root PROVE Along(q, t, t[c].parent)
  <2>1. PICK a : a = t[c].parent
    OBVIOUS
  <2>2. a \in DOMAIN t /\ NodeDepth(t, a) = Len(p) - 1
    BY <1>2, <1>3, <2>1
  <2>3. t[a].path \subseteq t[c].path
    BY <1>1, <1>3, <2>1 DEF Tree
  <2>4. ASSUME NEW n \in t[a].path PROVE Fits(t[n].kind, q[NodeDepth(t, n)])
    <3>1. NodeDepth(t, n) \in 1..NodeDepth(t, a)
      BY <2>2, NodeDepths
    <3>2. q[NodeDepth(t, n)] = p[NodeDepth(t, n)]
      BY <2>2, <3>1
    <3>. QED BY <2>3, <3>2 DEF Along
  <2>. QED BY <2>1, <2>2, <2>4 DEF Along
<1>. QED BY <1>2, <1>3

(* A new node under c goes with one more frame that it fits. *)
LEMMA AlongDown ==
    ASSUME NEW t, NEW m \in Nat, Tree(t, m), NEW c, NEW p, Along(p, t, c),
           NEW t2, NEW new, new \notin DOMAIN t, DOMAIN t2 = DOMAIN t \cup {new},
           \A n \in DOMAIN t : t2[n] = t[n],
           t2[new].path = t[c].path \cup {new},
           NEW q, Len(q) = Len(p) + 1, \A k \in 1..Len(p) : q[k] = p[k],
           Fits(t2[new].kind, q[Len(p) + 1])
    PROVE  Along(q, t2, new)
<1>1. c \in DOMAIN t /\ NodeDepth(t, c) = Len(p)
  BY DEF Along
<1>2. IsFiniteSet(t[c].path) /\ t[c].path \subseteq DOMAIN t
  BY <1>1, NodeFacts DEF Tree
<1>3. Cardinality(t[c].path \cup {new}) = Cardinality(t[c].path) + 1
  BY <1>2, FS_AddElement
<1>4. NodeDepth(t2, new) = Len(p) + 1
  BY <1>1, <1>3 DEF NodeDepth
<1>5. ASSUME NEW n \in t[c].path PROVE Fits(t2[n].kind, q[NodeDepth(t2, n)])
  <2>1. t2[n] = t[n] /\ NodeDepth(t2, n) = NodeDepth(t, n)
    BY <1>2 DEF NodeDepth
  <2>2. NodeDepth(t, n) \in 1..Len(p)
    BY <1>1, NodeDepths
  <2>3. q[NodeDepth(t2, n)] = p[NodeDepth(t, n)]
    BY <2>1, <2>2
  <2>. QED BY <2>1, <2>3 DEF Along
<1>. QED BY <1>4, <1>5 DEF Along

(* Another kind for the node c goes with another last frame. *)
LEMMA AlongKind ==
    ASSUME NEW t, NEW m \in Nat, Tree(t, m), NEW c, NEW p, Along(p, t, c),
           NEW t2, DOMAIN t2 = DOMAIN t,
           \A n \in DOMAIN t : t2[n].path = t[n].path,
           \A n \in DOMAIN t : n # c => t2[n].kind = t[n].kind,
           NEW q, Len(q) = Len(p), \A k \in 1..(Len(p) - 1) : q[k] = p[k],
           Fits(t2[c].kind, q[Len(p)])
    PROVE  Along(q, t2, c)
<1>1. c \in DOMAIN t /\ NodeDepth(t, c) = Len(p)
  BY DEF Along
<1>2. t[c].path \subseteq DOMAIN t
  BY <1>1 DEF Tree
<1>3. \A n \in DOMAIN t : NodeDepth(t2, n) = NodeDepth(t, n)
  BY DEF NodeDepth
<1>4. ASSUME NEW n \in t[c].path PROVE Fits(t2[n].kind, q[NodeDepth(t2, n)])
  <2>1. CASE n = c
    BY <1>1, <1>3, <2>1
  <2>2. CASE n # c
    <3>1. NodeDepth(t, n) \in 1..Len(p) /\ NodeDepth(t, n) < Len(p) /\ Len(p) \in Nat
      BY <1>1, <2>2, NodeDepths
    <3>2. NodeDepth(t, n) \in 1..(Len(p) - 1)
      BY <3>1
    <3>3. q[NodeDepth(t2, n)] = p[NodeDepth(t, n)] /\ t2[n].kind = t[n].kind
      BY <1>2, <1>3, <2>2, <3>2
    <3>. QED BY <3>3 DEF Along
  <2>. QED BY <2>1, <2>2
<1>. QED BY <1>1, <1>3, <1>4 DEF Along

-----------------------------------------------------------------------------
(* The steps of the json reader and of the decoder. *)

(* What holds when there is a current node and the next token is read. *)
LEMMA TokenFacts ==
    ASSUME IInv, JsonInv, Token,
           NEW s, s = OpenAfter(toks)[read], NEW p, p = Pending(s),
           NEW u, u = OpenAfter(toks)[read + 1]
    PROVE  /\ Stack(s) /\ Along(p, nodes, cur)
           /\ p \in Seq(Frames) /\ p # <<>> /\ Len(p) \in Nat /\ Len(p) >= 1
           /\ \A k \in 1..Len(p) : p[k] = Due => k = Len(p)
           /\ TokenCase(Tok, p[Len(p)], p, u)
           /\ Level(toks, read) = IF p[Len(p)] = Due THEN Len(p) - 1 ELSE Len(p)
           /\ Tok \in Openers => Level(toks, read + 1) = Level(toks, read) + 1
           /\ Tok \in Closers => Level(toks, read + 1) = Level(toks, read) - 1
           /\ Tok \notin Openers \cup Closers => Level(toks, read + 1) = Level(toks, read)
           /\ InObj <=> p[Len(p)] = "{"
           /\ InArr <=> p[Len(p)] = "["
           /\ reply.res \in {"none", "node"}
           /\ read \in Nat /\ read' = read + 1 /\ UNCHANGED config /\ format = "json"
           /\ reading = TRUE
<1>1. /\ format = "json" /\ TokenRead /\ cur # Nil
  BY DEF Token
<1>2. /\ TypeOK /\ reading = TRUE /\ read < Len(toks) /\ read' = read + 1 /\ UNCHANGED config
      /\ Tree(nodes, lastID) /\ lastID \in Nat
  BY <1>1, ReadingFacts DEF Good
<1>3. reply.res \in {"none", "node"} /\ InStep(s, nodes, cur, read)
  BY <1>1, <1>2 DEF JsonInv
<1>4. Stack(s) /\ Level(toks, read) = Height(s) /\ Along(p, nodes, cur)
  BY <1>1, <1>3 DEF InStep
<1>5. read \in Nat /\ Len(toks) \in Nat /\ read + 1 \in 1..Len(toks)
  BY <1>2, TokType
<1>6. Tok \in JsonTokens
  <2>1. toks \in Seq(JsonTokens)
    BY <1>1, <1>2, JsonAssumption DEF TypeOK, JsonTokens
  <2>. QED BY <1>5, <2>1 DEF Tok
<1>7. MayFollow(s, Tok)
  <2>1. toks \in Inputs["json"]
    BY <1>1, <1>2 DEF TypeOK
  <2>2. MayFollow(OpenAfter(toks)[(read + 1) - 1], toks[read + 1])
    BY <1>5, <2>1, JsonAssumption
  <2>3. (read + 1) - 1 = read
    BY <1>5
  <2>. QED BY <2>2, <2>3 DEF Tok
<1>8. u = After(s, Tok)
  <2>1. u = After(OpenAfter(toks)[(read + 1) - 1], toks[read + 1])
    BY <1>5, OpenStep
  <2>2. (read + 1) - 1 = read
    BY <1>5
  <2>. QED BY <2>1, <2>2 DEF Tok
<1>9. /\ p \in Seq(Frames) /\ p # <<>> /\ Len(p) \in Nat /\ Len(p) >= 1
      /\ \A k \in 1..Len(p) : p[k] = Due => k = Len(p)
      /\ Last(p) = p[Len(p)]
      /\ Height(s) = IF p[Len(p)] = Due THEN Len(p) - 1 ELSE Len(p)
  BY <1>4, PendingStack
<1>10. TokenCase(Tok, p[Len(p)], p, u)
  BY <1>6, <1>7, <1>8, <1>9, TokenCases
<1>11. /\ Tok \in Openers => Level(toks, read + 1) = Level(toks, read) + 1
       /\ Tok \in Closers => Level(toks, read + 1) = Level(toks, read) - 1
       /\ Tok \notin Openers \cup Closers => Level(toks, read + 1) = Level(toks, read)
  BY <1>5, LevelStep DEF Tok
<1>12. Fits(nodes[cur].kind, p[Len(p)])
  <2>1. cur \in nodes[cur].path
    BY <1>2, <1>4 DEF Along, Tree
  <2>. QED BY <1>4, <2>1 DEF Along
<1>13. InObj <=> p[Len(p)] = "{"
  BY <1>12 DEF Fits, InObj, Is
<1>14. InArr <=> p[Len(p)] = "["
  BY <1>12 DEF Fits, InArr, Is
<1>. QED BY <1>1, <1>2, <1>3, <1>4, <1>5, <1>9, <1>10, <1>11, <1>13, <1>14

(* A step that reads a token and stays in step with the decoder. *)
LEMMA Stays ==
    ASSUME IInv, JsonInv, Token, ReadGoesOn \/ reading' = FALSE,
           NEW u, u = OpenAfter(toks)[read + 1], Stack(u),
           Level(toks, read + 1) = Height(u),
           IF u = <<>> THEN cur' = Nil ELSE Along(u, nodes', cur')
    PROVE  JsonInv'
<1>1. /\ read \in Nat /\ read' = read + 1 /\ toks' = toks
      /\ reply.res \in {"none", "node"}
  <2>1. PICK s, p : s = OpenAfter(toks)[read] /\ p = Pending(s)
    OBVIOUS
  <2>2. UNCHANGED config /\ read \in Nat /\ read' = read + 1 /\ reply.res \in {"none", "node"}
    BY <2>1, TokenFacts
  <2>. QED BY <2>2 DEF config
<1>2. reading' => reply'.res \in {"none", "node"}
  BY <1>1 DEF ReadGoesOn
<1>3. Level(toks', read') = Height(u) /\ read' > 0
  BY <1>1
<1>4. u # <<>> => Pending(u) = u
  BY DEF Pending
<1>5. IF u = <<>> /\ read' > 0 THEN cur' = Nil ELSE Along(Pending(u), nodes', cur')
  BY <1>3, <1>4
<1>6. OpenAfter(toks')[read'] = u
  BY <1>1
<1>. QED BY <1>2, <1>3, <1>5, <1>6 DEF JsonInv, InStep

(* A step that reads no token, or fails, and keeps the nodes down to the current one. *)
LEMMA Keeps ==
    ASSUME IInv, JsonInv, UNCHANGED <<toks, format, read, cur>>,
           cur # Nil => \A n \in nodes[cur].path : n \in DOMAIN nodes' /\ nodes'[n] = nodes[n],
           reading' => reply'.res \in {"none", "node"},
           reply'.res # "panic" => reply.res # "panic"
    PROVE  JsonInv'
<1>1. PICK s, t2 : s = OpenAfter(toks)[read] /\ t2 = nodes'
  OBVIOUS
<1>2. lastID \in Nat /\ Tree(nodes, lastID)
  BY DEF IInv, TypeOK
<1>3. ASSUME Along(Pending(s), nodes, cur) PROVE Along(Pending(s), t2, cur)
  <2>1. cur \in DOMAIN nodes
    BY <1>3 DEF Along
  <2>2. cur # Nil
    BY <1>2, <2>1, NodeFacts
  <2>3. PICK t : t = nodes
    OBVIOUS
  <2>4. /\ Tree(t, lastID) /\ Along(Pending(s), t, cur)
        /\ \A n \in t[cur].path : n \in DOMAIN t2 /\ t2[n] = t[n]
    BY <1>1, <1>2, <1>3, <2>2, <2>3
  <2>. QED BY <1>2, <2>4, AlongSame
<1>4. ASSUME format = "json", reply.res # "panic"
      PROVE  /\ Stack(s) /\ Level(toks, read) = Height(s)
             /\ IF s = <<>> /\ read > 0 THEN cur = Nil ELSE Along(Pending(s), t2, cur)
  <2>1. InStep(s, nodes, cur, read)
    BY <1>1, <1>4 DEF JsonInv
  <2>. QED BY <1>3, <2>1 DEF InStep
<1>5. toks' = toks /\ format' = format /\ read' = read /\ cur' = cur
  OBVIOUS
<1>6. ASSUME format' = "json", reply'.res # "panic"
      PROVE  /\ Stack(s) /\ Level(toks', read') = Height(s)
             /\ IF s = <<>> /\ read' > 0 THEN cur' = Nil ELSE Along(Pending(s), nodes', cur')
  BY <1>1, <1>4, <1>5, <1>6
<1>7. s = OpenAfter(toks')[read']
  BY <1>1, <1>5
<1>. QED BY <1>6, <1>7 DEF JsonInv, InStep

(* Going up from a complete node keeps all that is above it. *)
LEMMA UpFacts ==
    ASSUME NEW t, NEW m \in Nat, Tree(t, m), NEW c \in DOMAIN t, NEW s,
           WrapUpCurAndTargetCheck(t, c, s)
    PROVE  /\ ReadGoesOn \/ reading' = FALSE
           /\ cur' = t[c].parent
           /\ \A q : Along(q, t, t[c].parent) => Along(q, nodes', cur')
<1>1. PICK a, t2 : a = t[c].parent /\ t2 = nodes'
  OBVIOUS
<1>2. cur' = a
  BY <1>1 DEF WrapUpCurAndTargetCheck, UpFrom
<1>3. ReadGoesOn \/ reading' = FALSE
  BY DEF WrapUpCurAndTargetCheck, Return
<1>4. t2 = t \/ t2 = Released(t, c)
  BY <1>1 DEF WrapUpCurAndTargetCheck, Rejected
<1>5. ASSUME NEW q, Along(q, t, a) PROVE Along(q, t2, a)
  <2>1. CASE t2 = t
    BY <1>5, <2>1
  <2>2. CASE t2 = Released(t, c)
    <3>1. DOMAIN t2 = DOMAIN t \ Subtree(t, c) /\ \A n \in DOMAIN t2 : t2[n] = t[n]
      BY <2>2, ReleasedTree
    <3>2. a \in DOMAIN t /\ a \notin Subtree(t, c)
      BY <1>1, <1>5, ParentOutside DEF Along
    <3>3. ASSUME NEW n \in t[a].path PROVE n \in DOMAIN t2
      <4>1. n \in DOMAIN t /\ t[n].path \subseteq t[a].path
        BY <3>2 DEF Tree
      <4>2. n \notin Subtree(t, c)
        BY <3>2, <4>1 DEF Subtree
      <4>. QED BY <3>1, <4>1, <4>2
    <3>4. \A n \in t[a].path : n \in DOMAIN t2 /\ t2[n] = t[n]
      BY <3>1, <3>3
    <3>. QED BY <1>5, <3>4, AlongSame
  <2>. QED BY <1>4, <2>1, <2>2
<1>. QED BY <1>1, <1>2, <1>3, <1>5

(* A complete value at the top of p. *)
LEMMA ValueEnds ==
    ASSUME IInv, JsonInv, Token,
           NEW s, s = OpenAfter(toks)[read], NEW p, p = Pending(s),
           NEW u, u = OpenAfter(toks)[read + 1], u = Front(p),
           Level(toks, read + 1) = Len(p) - 1,
           NEW str, WrapUpCurAndTargetCheck(nodes, cur, str)
    PROVE  JsonInv'
<1>1. /\ p \in Seq(Frames) /\ p # <<>> /\ Len(p) \in Nat /\ Len(p) >= 1
      /\ \A k \in 1..Len(p) : p[k] = Due => k = Len(p)
      /\ Along(p, nodes, cur)
  BY TokenFacts
<1>2. /\ u \in Seq(Frames) /\ Stack(u)
      /\ Len(u) = Len(p) - 1 /\ Height(u) = Len(p) - 1
      /\ \A k \in 1..(Len(p) - 1) : u[k] = p[k]
  BY <1>1, Popped
<1>3. lastID \in Nat /\ Tree(nodes, lastID) /\ cur \in DOMAIN nodes
  BY <1>1 DEF IInv, TypeOK, Along
<1>4. /\ ReadGoesOn \/ reading' = FALSE
      /\ cur' = nodes[cur].parent
      /\ \A q : Along(q, nodes, nodes[cur].parent) => Along(q, nodes', cur')
  BY <1>3, UpFacts
<1>5. IF Len(p) = 1 THEN nodes[cur].parent = Nil ELSE Along(u, nodes, nodes[cur].parent)
  BY <1>1, <1>2, <1>3, AlongUp
<1>6. u = <<>> <=> Len(p) = 1
  <2>1. u \in Seq(Frames) /\ Len(u) = Len(p) - 1 /\ Len(p) \in Nat
    BY <1>1, <1>2
  <2>2. u = <<>> <=> Len(u) = 0
    BY <2>1, EmptySeq
  <2>. QED BY ONLY <2>1, <2>2
<1>7. IF u = <<>> THEN cur' = Nil ELSE Along(u, nodes', cur')
  BY <1>4, <1>5, <1>6
<1>8. Level(toks, read + 1) = Height(u)
  BY <1>2
<1>. QED BY <1>2, <1>4, <1>7, <1>8, Stays

LEMMA CloseStays == IInv /\ JsonInv /\ Close => JsonInv'
<1>1. SUFFICES ASSUME IInv, JsonInv, Close PROVE JsonInv'
  OBVIOUS
<1>2. PICK s, p, u : /\ s = OpenAfter(toks)[read] /\ p = Pending(s)
                     /\ u = OpenAfter(toks)[read + 1]
  OBVIOUS
<1>3. Token /\ Tok \in Closers /\ WrapUpCurAndTargetCheck(nodes, cur, stream)
  BY <1>1 DEF Close
<1>4. /\ TokenCase(Tok, p[Len(p)], p, u)
      /\ Level(toks, read) = IF p[Len(p)] = Due THEN Len(p) - 1 ELSE Len(p)
      /\ Level(toks, read + 1) = Level(toks, read) - 1
  BY <1>1, <1>2, <1>3, TokenFacts
<1>5. p[Len(p)] # Due /\ u = Front(p)
  <2>1. PICK tok, top : tok = Tok /\ top = p[Len(p)]
    OBVIOUS
  <2>2. TokenCase(tok, top, p, u) /\ tok \in Closers
    BY <1>3, <1>4, <2>1
  <2>3. top # Due /\ u = Front(p)
    BY <2>2, JsonAssumption DEF TokenCase, Openers, Closers, Value, Due
  <2>. QED BY <2>1, <2>3
<1>6. Level(toks, read + 1) = Len(p) - 1
  BY <1>4, <1>5
<1>. QED BY <1>1, <1>2, <1>3, <1>5, <1>6, ValueEnds

LEMMA ValueOfStays == IInv /\ JsonInv /\ ValueOf => JsonInv'
<1>1. SUFFICES ASSUME IInv, JsonInv, ValueOf PROVE JsonInv'
  OBVIOUS
<1>2. PICK s, p, u : /\ s = OpenAfter(toks)[read] /\ p = Pending(s)
                     /\ u = OpenAfter(toks)[read + 1]
  OBVIOUS
<1>3. PICK str : str = IF OnProp THEN stream ELSE StreamCandidateCheck(nodes, cur)
  OBVIOUS
<1>4. /\ Token /\ Tok \notin Openers \cup Closers /\ ~InObj /\ ~InArr
      /\ WrapUpCurAndTargetCheck(nodes, cur, str)
  BY <1>1, <1>3 DEF ValueOf, Scalar
<1>5. /\ TokenCase(Tok, p[Len(p)], p, u)
      /\ p[Len(p)] \notin {"{", "["}
      /\ Level(toks, read) = IF p[Len(p)] = Due THEN Len(p) - 1 ELSE Len(p)
      /\ Level(toks, read + 1) = Level(toks, read)
  BY <1>1, <1>2, <1>4, TokenFacts
<1>6. p[Len(p)] = Due /\ u = Front(p)
  <2>1. PICK tok, top : tok = Tok /\ top = p[Len(p)]
    OBVIOUS
  <2>2. /\ TokenCase(tok, top, p, u) /\ tok \notin Openers \cup Closers
        /\ top \notin {"{", "["}
    BY <1>4, <1>5, <2>1
  <2>3. top = Due /\ u = Front(p)
    BY <2>2, JsonAssumption DEF TokenCase, Openers, Closers, Value, Due
  <2>. QED BY <2>1, <2>3
<1>7. Level(toks, read + 1) = Len(p) - 1
  BY <1>5, <1>6
<1>. QED BY <1>1, <1>2, <1>4, <1>6, <1>7, ValueEnds

(* A new node for one more frame, of a kind that fits it. *)
LEMMA NodeStays ==
    ASSUME IInv, JsonInv, Token, ReadGoesOn,
           NEW s, s = OpenAfter(toks)[read], NEW p, p = Pending(s),
           NEW u, u = OpenAfter(toks)[read + 1],
           p[Len(p)] # Due, NEW f \in Frames, u = Append(p, f),
           Level(toks, read + 1) = IF f = Due THEN Len(p) ELSE Len(p) + 1,
           NEW name \in NodeNames, NEW kind \in SUBSET Kinds, Fits(kind, f),
           nodes' = Grown(name, kind), cur' = NewID
    PROVE  JsonInv'
<1>1. /\ p \in Seq(Frames) /\ p # <<>> /\ Len(p) \in Nat /\ Len(p) >= 1
      /\ \A k \in 1..Len(p) : p[k] = Due => k = Len(p)
      /\ Along(p, nodes, cur)
  BY TokenFacts
<1>2. \A k \in 1..Len(p) : p[k] # Due
  BY <1>1
<1>3. /\ Stack(u) /\ u # <<>>
      /\ Len(u) = Len(p) + 1 /\ u[Len(p) + 1] = f
      /\ \A k \in 1..Len(p) : u[k] = p[k]
      /\ Height(u) = IF f = Due THEN Len(p) ELSE Len(p) + 1
  <2>1. p \in Seq(Frames) /\ p # <<>> /\ u = Append(p, f)
    BY <1>1
  <2>2. OneMore(u, p, f)
    BY <1>2, <2>1, Pushed
  <2>. QED BY <2>2 DEF OneMore
<1>4. PICK t, t2 : t = nodes /\ t2 = nodes'
  OBVIOUS
<1>5. /\ lastID \in Nat /\ Tree(t, lastID) /\ cur \in DOMAIN t
      /\ Along(p, t, cur)
  BY <1>1, <1>4 DEF IInv, TypeOK, Along
<1>6. NewID \notin DOMAIN t
  <2>1. DOMAIN t \subseteq 1..lastID
    BY <1>5 DEF Tree
  <2>. QED BY <1>5, <2>1 DEF NewID
<1>7. PICK new : new = NodeOf(NewID, cur, t[cur].path, name, kind, read + 1)
  OBVIOUS
<1>8. new.path = t[cur].path \cup {NewID} /\ new.kind = kind
  BY <1>7 DEF NodeOf
<1>9. t2 = [n \in DOMAIN t \cup {NewID} |-> IF n = NewID THEN new ELSE t[n]]
  BY <1>4, <1>7 DEF Grown
<1>10. /\ DOMAIN t2 = DOMAIN t \cup {NewID}
       /\ t2[NewID] = new
       /\ \A n \in DOMAIN t : t2[n] = t[n]
  BY <1>6, <1>9
<1>11. Along(u, t2, NewID)
  <2>1. Fits(t2[NewID].kind, u[Len(p) + 1]) /\ t2[NewID].path = t[cur].path \cup {NewID}
    BY <1>3, <1>8, <1>10
  <2>2. Len(u) = Len(p) + 1 /\ \A k \in 1..Len(p) : u[k] = p[k]
    BY <1>3
  <2>. QED BY ONLY <1>5, <1>6, <1>10, <2>1, <2>2, AlongDown
<1>12. IF u = <<>> THEN cur' = Nil ELSE Along(u, nodes', cur')
  BY <1>3, <1>4, <1>11
<1>13. Level(toks, read + 1) = Height(u)
  BY <1>3
<1>. QED BY <1>3, <1>12, <1>13, Stays

LEMMA KeyStays == IInv /\ JsonInv /\ Key => JsonInv'
<1>1. SUFFICES ASSUME IInv, JsonInv, Key PROVE JsonInv'
  OBVIOUS
<1>2. PICK s, p, u : /\ s = OpenAfter(toks)[read] /\ p = Pending(s)
                     /\ u = OpenAfter(toks)[read + 1]
  OBVIOUS
<1>3. PICK name, kind : name = Tok /\ kind = {"Prop"}
  OBVIOUS
<1>4. /\ Token /\ Tok \notin Openers \cup Closers /\ InObj /\ ReadGoesOn
      /\ nodes' = Grown(name, kind) /\ cur' = NewID
  BY <1>1, <1>3 DEF Key, Scalar
<1>5. /\ TokenCase(Tok, p[Len(p)], p, u)
      /\ p[Len(p)] = "{"
      /\ Level(toks, read) = IF p[Len(p)] = Due THEN Len(p) - 1 ELSE Len(p)
      /\ Level(toks, read + 1) = Level(toks, read)
  BY <1>1, <1>2, <1>4, TokenFacts
<1>6. p[Len(p)] # Due /\ u = Append(p, Due)
  <2>1. PICK tok, top : tok = Tok /\ top = p[Len(p)]
    OBVIOUS
  <2>2. TokenCase(tok, top, p, u) /\ tok \notin Openers \cup Closers /\ top = "{"
    BY <1>4, <1>5, <2>1
  <2>3. top # Due /\ u = Append(p, Due)
    BY <2>2, JsonAssumption DEF TokenCase, Openers, Closers, Value, Due
  <2>. QED BY <2>1, <2>3
<1>7. Level(toks, read + 1) = Len(p)
  BY <1>5, <1>6
<1>8. /\ name \in NodeNames /\ kind \in SUBSET Kinds
      /\ Due \in Frames /\ Fits(kind, Due)
  <2>1. TypeOK /\ read < Len(toks)
    BY <1>1, <1>4, ReadingFacts DEF Token
  <2>2. name \in NodeNames
    BY <1>3, <2>1, TokType DEF NodeNames
  <2>. QED BY <1>3, <2>2 DEF Kinds, Frames, Fits, Due
<1>. QED BY <1>1, <1>2, <1>4, <1>6, <1>7, <1>8, NodeStays

LEMMA OpenInArrStays == IInv /\ JsonInv /\ OpenInArr => JsonInv'
<1>1. SUFFICES ASSUME IInv, JsonInv, OpenInArr PROVE JsonInv'
  OBVIOUS
<1>2. PICK s, p, u : /\ s = OpenAfter(toks)[read] /\ p = Pending(s)
                     /\ u = OpenAfter(toks)[read + 1]
  OBVIOUS
<1>3. PICK name, kind, f : name = "" /\ kind = {NewFlag} /\ f = Tok
  OBVIOUS
<1>4. /\ Token /\ f \in Openers /\ InArr /\ ReadGoesOn
      /\ nodes' = Grown(name, kind) /\ cur' = NewID
  BY <1>1, <1>3 DEF OpenInArr
<1>5. /\ TokenCase(f, p[Len(p)], p, u)
      /\ p[Len(p)] = "["
      /\ Level(toks, read) = IF p[Len(p)] = Due THEN Len(p) - 1 ELSE Len(p)
      /\ Level(toks, read + 1) = Level(toks, read) + 1
  BY <1>1, <1>2, <1>3, <1>4, TokenFacts
<1>6. p[Len(p)] # Due /\ u = Append(p, f)
  <2>1. PICK tok, top : tok = f /\ top = p[Len(p)]
    OBVIOUS
  <2>2. TokenCase(tok, top, p, u) /\ tok \in Openers /\ top = "["
    BY <1>4, <1>5, <2>1
  <2>3. top # Due /\ u = Append(p, tok)
    BY <2>2, JsonAssumption DEF TokenCase, Openers, Closers, Value, Due
  <2>. QED BY <2>1, <2>3
<1>7. /\ name \in NodeNames /\ kind \in SUBSET Kinds
      /\ f \in Frames /\ f # Due /\ Fits(kind, f)
  BY <1>3, <1>4 DEF Openers, NodeNames, NewFlag, Kinds, Frames, Fits, Due
<1>8. Level(toks, read + 1) = Len(p) + 1
  BY <1>5, <1>6
<1>. QED BY <1>1, <1>2, <1>4, <1>6, <1>7, <1>8, NodeStays

LEMMA OpenValueStays == IInv /\ JsonInv /\ OpenValue => JsonInv'
<1>1. SUFFICES ASSUME IInv, JsonInv, OpenValue PROVE JsonInv'
  OBVIOUS
<1>2. PICK s, p, u : /\ s = OpenAfter(toks)[read] /\ p = Pending(s)
                     /\ u = OpenAfter(toks)[read + 1]
  OBVIOUS
<1>3. PICK kind, f : kind = {NewFlag} /\ f = Tok
  OBVIOUS
<1>4. /\ Token /\ f \in Openers /\ ~InArr /\ ReadGoesOn
      /\ nodes' = Marked(kind) /\ cur' = cur
  BY <1>1, <1>3 DEF OpenValue, Marked
<1>5. /\ TokenCase(f, p[Len(p)], p, u)
      /\ p[Len(p)] # "["
      /\ Level(toks, read) = IF p[Len(p)] = Due THEN Len(p) - 1 ELSE Len(p)
      /\ Level(toks, read + 1) = Level(toks, read) + 1
      /\ p \in Seq(Frames) /\ p # <<>> /\ Len(p) \in Nat /\ Len(p) >= 1
      /\ \A k \in 1..Len(p) : p[k] = Due => k = Len(p)
      /\ Along(p, nodes, cur)
  BY <1>1, <1>2, <1>3, <1>4, TokenFacts
<1>6. PICK q : q = Front(p)
  OBVIOUS
<1>7. p[Len(p)] = Due /\ u = Append(q, f)
  <2>1. PICK top : top = p[Len(p)]
    OBVIOUS
  <2>2. TokenCase(f, top, p, u) /\ f \in Openers /\ top # "["
    BY <1>4, <1>5, <2>1
  <2>3. top = Due /\ u = Append(Front(p), f)
    BY <2>2, JsonAssumption DEF TokenCase, Openers, Closers, Value, Due
  <2>. QED BY <1>6, <2>1, <2>3
<1>8. Level(toks, read + 1) = Len(p)
  BY <1>5, <1>7
<1>9. /\ q \in Seq(Frames) /\ Len(q) = Len(p) - 1
      /\ \A k \in 1..(Len(p) - 1) : q[k] = p[k] /\ q[k] # Due
  BY <1>5, <1>6, Popped
<1>10. f \in Frames /\ f # Due /\ kind \in SUBSET Kinds
  BY <1>3, <1>4 DEF Openers, NewFlag, Kinds, Frames, Due
<1>11. OneMore(u, q, f)
  <2>1. \A k \in 1..Len(q) : q[k] # Due
    BY <1>9
  <2>. QED BY <1>7, <1>9, <1>10, <2>1, Pushed
<1>12. /\ Stack(u) /\ u # <<>> /\ Height(u) = Len(p) /\ Len(u) = Len(p)
       /\ u[Len(p)] = f
       /\ \A k \in 1..(Len(p) - 1) : u[k] = p[k]
  <2>1. Len(q) + 1 = Len(p)
    BY <1>5, <1>9
  <2>2. /\ Stack(u) /\ u # <<>> /\ Len(u) = Len(q) + 1 /\ u[Len(q) + 1] = f
        /\ \A k \in 1..Len(q) : u[k] = q[k]
        /\ Height(u) = Len(q) + 1
    BY <1>10, <1>11 DEF OneMore
  <2>3. \A k \in 1..(Len(p) - 1) : u[k] = p[k]
    BY <1>9, <2>2
  <2>. QED BY <2>1, <2>2, <2>3
<1>13. PICK t, t2 : t = nodes /\ t2 = nodes'
  OBVIOUS
<1>14. /\ lastID \in Nat /\ Tree(t, lastID) /\ cur \in DOMAIN t
       /\ Along(p, t, cur)
  BY <1>1, <1>5, <1>13 DEF IInv, TypeOK, Along
<1>15. /\ DOMAIN t2 = DOMAIN t
       /\ \A n \in DOMAIN t : t2[n].path = t[n].path
  <2>1. cur # Nil /\ t2 = Marked(kind)
    BY <1>4, <1>13 DEF Token
  <2>2. /\ DOMAIN t2 = DOMAIN nodes
        /\ \A n \in DOMAIN nodes : t2[n].path = nodes[n].path
    BY <1>1, <1>10, <2>1, KindFacts
  <2>. QED BY <1>13, <2>2
<1>16. PICK o, e : o = t[cur] /\ e = [o EXCEPT !.kind = @ \cup kind]
  OBVIOUS
<1>17. o \in NodeRecs /\ e.kind = o.kind \cup kind
  <2>1. o \in NodeRecs
    BY <1>14, <1>16 DEF Tree
  <2>. QED BY <1>16, <2>1 DEF NodeRecs
<1>18. t2 = [t EXCEPT ![cur] = e]
  BY <1>4, <1>13, <1>16 DEF Marked
<1>19. t2[cur].kind = t[cur].kind \cup kind /\ \A n \in DOMAIN t : n # cur => t2[n] = t[n]
  BY <1>14, <1>16, <1>17, <1>18
<1>20. Fits(t2[cur].kind, f)
  <2>1. PICK top : top = p[Len(p)]
    OBVIOUS
  <2>2. cur \in t[cur].path /\ NodeDepth(t, cur) = Len(p)
    BY <1>14 DEF Tree, Along
  <2>3. Fits(t[cur].kind, top)
    BY <1>14, <2>1, <2>2 DEF Along
  <2>4. top = Due
    BY <1>7, <2>1
  <2>5. t2[cur].kind = t[cur].kind \cup kind /\ kind = {NewFlag} /\ f = Tok /\ f \in Openers
    BY <1>3, <1>4, <1>19
  <2>. QED BY ONLY <2>3, <2>4, <2>5 DEF Fits, NewFlag, Openers, Due
<1>21. Along(u, t2, cur)
  <2>1. /\ \A n \in DOMAIN t : n # cur => t2[n].kind = t[n].kind
        /\ Fits(t2[cur].kind, u[Len(p)])
        /\ Len(u) = Len(p) /\ \A k \in 1..(Len(p) - 1) : u[k] = p[k]
    BY <1>12, <1>19, <1>20
  <2>. QED BY <1>14, <1>15, <2>1, AlongKind
<1>22. IF u = <<>> THEN cur' = Nil ELSE Along(u, nodes', cur')
  BY <1>4, <1>12, <1>13, <1>21
<1>23. Level(toks, read + 1) = Height(u)
  BY <1>8, <1>12
<1>. QED BY <1>1, <1>2, <1>4, <1>12, <1>22, <1>23, Stays

LEMMA ValueInArrStays == IInv /\ JsonInv /\ ValueInArr => JsonInv'
<1>1. SUFFICES ASSUME IInv, JsonInv, ValueInArr PROVE JsonInv'
  OBVIOUS
<1>2. PICK s, p, u : /\ s = OpenAfter(toks)[read] /\ p = Pending(s)
                     /\ u = OpenAfter(toks)[read + 1]
  OBVIOUS
<1>3. PICK name, kind : name = "" /\ kind = {"Prop"}
  OBVIOUS
<1>4. PICK t, str : t = Grown(name, kind) /\ str = StreamCandidateCheck(t, NewID)
  OBVIOUS
<1>5. /\ Token /\ Tok \notin Openers \cup Closers /\ InArr
      /\ WrapUpCurAndTargetCheck(t, NewID, str)
  BY <1>1, <1>3, <1>4 DEF ValueInArr, Scalar
<1>6. /\ TokenCase(Tok, p[Len(p)], p, u)
      /\ p[Len(p)] = "["
      /\ Level(toks, read) = IF p[Len(p)] = Due THEN Len(p) - 1 ELSE Len(p)
      /\ Level(toks, read + 1) = Level(toks, read)
      /\ Stack(s) /\ Along(p, nodes, cur)
  BY <1>1, <1>2, <1>5, TokenFacts
<1>7. p[Len(p)] # Due /\ u = p
  <2>1. PICK tok, top : tok = Tok /\ top = p[Len(p)]
    OBVIOUS
  <2>2. TokenCase(tok, top, p, u) /\ tok \notin Openers \cup Closers /\ top = "["
    BY <1>5, <1>6, <2>1
  <2>3. top # Due /\ u = p
    BY <2>2, JsonAssumption DEF TokenCase, Openers, Closers, Value, Due
  <2>. QED BY <2>1, <2>3
<1>8. /\ Height(s) = Level(toks, read + 1)
      /\ s # <<>> /\ u = s
  <2>1. /\ Last(p) = p[Len(p)]
        /\ Height(s) = IF p[Len(p)] = Due THEN Len(p) - 1 ELSE Len(p)
    BY <1>2, <1>6, PendingStack
  <2>2. s # <<>>
    <3>1. s = <<>> => p = <<Due>>
      BY <1>2 DEF Pending
    <3>2. p = <<Due>> => p[Len(p)] = Due
      OBVIOUS
    <3>. QED BY <1>7, <3>1, <3>2
  <2>. QED BY <1>2, <1>6, <1>7, <2>1, <2>2 DEF Pending
<1>9. name \in NodeNames /\ kind \in SUBSET Kinds
  BY <1>3 DEF NodeNames, Kinds
<1>10. /\ NewID \in Nat /\ NewID \in DOMAIN t
       /\ Tree(t, NewID)
       /\ t[NewID].parent = cur
  <2>1. read < Len(toks) /\ cur # Nil /\ Within(stream, cur, nodes)
    BY <1>1, <1>5, ReadingFacts DEF Token
  <2>. QED BY <1>1, <1>4, <1>9, <2>1, GrowFacts
<1>11. PICK t0 : t0 = nodes
  OBVIOUS
<1>12. lastID \in Nat /\ Tree(t0, lastID) /\ Along(p, t0, cur) /\ cur \in DOMAIN t0
  BY <1>1, <1>6, <1>11 DEF IInv, TypeOK, Along
<1>13. \A n \in DOMAIN t0 : n \in DOMAIN t /\ t[n] = t0[n]
  <2>1. NewID \notin DOMAIN t0
    <3>1. DOMAIN t0 \subseteq 1..lastID
      BY <1>12 DEF Tree
    <3>. QED BY <1>12, <3>1 DEF NewID
  <2>. QED BY <1>4, <1>11, <2>1 DEF Grown
<1>14. Along(p, t, cur)
  <2>1. t0[cur].path \subseteq DOMAIN t0
    BY <1>12 DEF Tree
  <2>2. \A n \in t0[cur].path : n \in DOMAIN t /\ t[n] = t0[n]
    BY <1>13, <2>1
  <2>. QED BY <1>12, <2>2, AlongSame
<1>15. /\ ReadGoesOn \/ reading' = FALSE
       /\ \A q : Along(q, t, t[NewID].parent) => Along(q, nodes', cur')
  BY <1>5, <1>10, UpFacts
<1>16. IF u = <<>> THEN cur' = Nil ELSE Along(u, nodes', cur')
  BY <1>7, <1>8, <1>10, <1>14, <1>15
<1>17. Stack(u) /\ Level(toks, read + 1) = Height(u)
  BY <1>6, <1>8
<1>. QED BY <1>1, <1>2, <1>5, <1>15, <1>16, <1>17, Stays

LEMMA JsonStarts == Init => JsonInv
<1>1. SUFFICES ASSUME Init PROVE JsonInv
  OBVIOUS
<1>2. /\ StreamInit /\ read = 0 /\ cur = Root /\ reading = FALSE
  BY <1>1 DEF Init, XmlInit, JsonInit, StreamInit
<1>3. ASSUME format = "json" PROVE InStep(OpenAfter(toks)[0], nodes, cur, 0)
  <2>1. /\ nodes = [n \in {Root} |-> NodeOf(n, Nil, {}, "", {"Root"}, 0)]
        /\ toks \in Inputs["json"]
    BY <1>1, <1>3 DEF Init, XmlInit, JsonInit, StreamInit
  <2>2. OpenAfter(toks)[0] = <<>>
    <3>1. Len(toks) \in Nat
      <4>1. toks \in Seq(Names \cup {Value} \cup Openers \cup Closers)
        BY <2>1, JsonAssumption
      <4>. QED BY ONLY <4>1
    <3>. QED BY <3>1, OpenStep
  <2>3. Stack(<<>>) /\ Height(<<>>) = 0 /\ Pending(<<>>) = <<Due>>
    BY DEF Stack, Height, Pending
  <2>4. Level(toks, 0) = 0
    <3>1. {k \in 1..0 : toks[k] \in Openers} = {} /\ {k \in 1..0 : toks[k] \in Closers} = {}
      OBVIOUS
    <3>2. Level(toks, 0) = Cardinality({}) - Cardinality({})
      BY <3>1 DEF Level
    <3>. QED BY <3>2, FS_EmptySet
  <2>5. PICK e : e = NodeOf(Root, Nil, {}, "", {"Root"}, 0)
    OBVIOUS
  <2>6. e.path = {Root} /\ e.kind = {"Root"}
    BY <2>5 DEF NodeOf
  <2>7. DOMAIN nodes = {Root} /\ nodes[Root] = e
    BY <2>1, <2>5
  <2>8. NodeDepth(nodes, Root) = 1
    BY <2>6, <2>7, FS_Singleton DEF NodeDepth
  <2>9. Fits(nodes[Root].kind, Due)
    BY <2>6, <2>7 DEF Fits, Due
  <2>10. PICK p : p = <<Due>>
    OBVIOUS
  <2>11. Len(p) = 1 /\ p[1] = Due
    BY <2>10
  <2>12. Along(p, nodes, cur)
    BY <1>2, <2>6, <2>7, <2>8, <2>9, <2>11 DEF Along
  <2>. QED BY <2>2, <2>3, <2>4, <2>10, <2>12 DEF InStep
<1>. QED BY <1>2, <1>3 DEF JsonInv

LEMMA ReleaseKeeps == IInv /\ JsonInv /\ (Release \/ Read) => JsonInv'
<1>1. SUFFICES ASSUME IInv, JsonInv, Release \/ Read PROVE JsonInv'
  OBVIOUS
<1>2. /\ TypeOK /\ StreamInv /\ lastID \in Nat /\ Tree(nodes, lastID)
      /\ reply \in [res : Results, node : Nat]
  BY <1>1 DEF IInv, TypeOK
<1>3. /\ UNCHANGED <<toks, format, read, cur>>
      /\ reply' = [reply EXCEPT !.node = Nil]
      /\ reading' => reading \/ reply.res \in {"none", "node"}
  BY <1>1 DEF Release, Read, config
<1>4. reply'.res = reply.res
  BY <1>2, <1>3
<1>5. reading' => reply'.res \in {"none", "node"}
  BY <1>1, <1>3, <1>4 DEF JsonInv
<1>6. nodes' = nodes \/ (nodes' = Released(nodes, stream) /\ cur \notin Subtree(nodes, stream))
  <2>1. CASE Release
    BY <1>2, <2>1 DEF Release, StreamInv
  <2>2. CASE Read
    BY <1>2, <2>2 DEF Read, StreamInv
  <2>. QED BY <1>1, <2>1, <2>2
<1>7. ASSUME cur # Nil, NEW n \in nodes[cur].path PROVE n \in DOMAIN nodes' /\ nodes'[n] = nodes[n]
  <2>1. PICK t, t2 : t = nodes /\ t2 = nodes'
    OBVIOUS
  <2>2. cur \in DOMAIN t /\ Tree(t, lastID) /\ n \in t[cur].path
    BY <1>2, <1>7, <2>1 DEF TypeOK
  <2>3. n \in DOMAIN t /\ t[n].path \subseteq t[cur].path
    BY <2>2 DEF Tree
  <2>4. CASE t2 = Released(t, stream) /\ cur \notin Subtree(t, stream)
    <3>1. DOMAIN t2 = DOMAIN t \ Subtree(t, stream) /\ \A k \in DOMAIN t2 : t2[k] = t[k]
      BY <1>2, <2>2, <2>4, ReleasedTree
    <3>2. n \notin Subtree(t, stream)
      BY <2>2, <2>3, <2>4 DEF Subtree
    <3>. QED BY <2>1, <2>3, <3>1, <3>2
  <2>. QED BY <1>6, <2>1, <2>3, <2>4
<1>. QED BY <1>1, <1>3, <1>4, <1>5, <1>7, Keeps

LEMMA OtherKeeps ==
    IInv /\ JsonInv /\ (TokenFails \/ Ended \/ XmlToken \/ NilCur \/ UNCHANGED vars) => JsonInv'
<1>1. SUFFICES ASSUME IInv, JsonInv PROVE
         TokenFails \/ Ended \/ XmlToken \/ NilCur \/ UNCHANGED vars => JsonInv'
  OBVIOUS
<1>2. lastID \in Nat /\ Tree(nodes, lastID) /\ cur \in DOMAIN nodes \cup {Nil}
  BY <1>1 DEF IInv, TypeOK
<1>3. cur # Nil => \A n \in nodes[cur].path : n \in DOMAIN nodes
  BY <1>2 DEF Tree
<1>4. ASSUME UNCHANGED <<toks, format, read, cur, nodes>>,
             reading' => reply'.res \in {"none", "node"},
             reply'.res # "panic" => reply.res # "panic"
      PROVE  JsonInv'
  BY <1>1, <1>3, <1>4, Keeps
<1>5. ASSUME TokenFails PROVE JsonInv'
  <2>1. UNCHANGED <<toks, format, read, cur, nodes>> /\ reading' = FALSE /\ reading
    BY <1>5 DEF TokenFails, Return, config
  <2>2. reply.res # "panic"
    BY <1>1, <2>1 DEF JsonInv
  <2>. QED BY <1>4, <2>1, <2>2
<1>6. ASSUME Ended \/ UNCHANGED vars PROVE JsonInv'
  <2>1. UNCHANGED vars
    BY <1>6 DEF Ended
  <2>2. UNCHANGED <<toks, format, read, cur, nodes, reading, reply>>
    BY <2>1 DEF vars, config
  <2>3. reading' => reply'.res \in {"none", "node"}
    BY <1>1, <2>2 DEF JsonInv
  <2>. QED BY <1>4, <2>2, <2>3
<1>7. ASSUME XmlToken PROVE JsonInv'
  <2>1. format = "xml" /\ TokenRead
    BY <1>7 DEF XmlToken, StartElement, EndElement
  <2>2. format' = "xml"
    BY <2>1 DEF TokenRead, config
  <2>3. ReadGoesOn \/ reading' = FALSE
    BY <1>7 DEF XmlToken, StartElement, EndElement, WrapUpCurAndTargetCheck, Return
  <2>4. reading' => reply'.res \in {"none", "node"}
    BY <1>1, <2>3 DEF JsonInv, ReadGoesOn
  <2>. QED BY <2>2, <2>4 DEF JsonInv
<1>8. ASSUME NilCur PROVE JsonInv'
  <2>1. reading' = FALSE /\ reply' = [res |-> "panic", node |-> Nil]
    BY <1>8 DEF NilCur, Return
  <2>. QED BY <2>1 DEF JsonInv
<1>. QED BY <1>5, <1>6, <1>7, <1>8

(***************************************************************************)
(* The json reader has a current node exactly as long as the value at the  *)
(* top is not complete, whatever was returned, rejected or released of it: *)
(* going up one node per complete value, it comes out above the root with  *)
(* the last bracket or value, and neither before nor after                 *)
(* (jsonreader.go:143-187).                                                *)
(***************************************************************************)
THEOREM CurInValue == Spec => []CurWhileInValue
<1>1. ASSUME IInv, JsonInv, [Next]_vars PROVE JsonInv'
  <2>1. CASE Release \/ Read
    BY <1>1, <2>1, ReleaseKeeps
  <2>2. CASE TokenFails \/ Ended \/ XmlToken \/ UNCHANGED vars
    BY <1>1, <2>2, OtherKeeps
  <2>3. CASE JsonToken
    BY <1>1, <2>3, OtherKeeps, OpenInArrStays, OpenValueStays, CloseStays, KeyStays,
       ValueInArrStays, ValueOfStays DEF JsonToken
  <2>. QED BY <1>1, <2>1, <2>2, <2>3 DEF Next
<1>2. IInv /\ JsonInv => CurWhileInValue
  <2>1. SUFFICES ASSUME IInv, JsonInv, format = "json", reply.res # "panic"
                 PROVE  cur = Nil <=> read > 0 /\ Level(toks, read) = 0
    BY DEF CurWhileInValue
  <2>2. PICK s : s = OpenAfter(toks)[read]
    OBVIOUS
  <2>3. /\ Stack(s) /\ Level(toks, read) = Height(s)
        /\ IF s = <<>> /\ read > 0 THEN cur = Nil ELSE Along(Pending(s), nodes, cur)
    BY <2>1, <2>2 DEF JsonInv, InStep
  <2>4. CASE s = <<>> /\ read > 0
    <3>1. Height(s) = 0
      BY <2>4 DEF Height
    <3>. QED BY <2>3, <2>4, <3>1
  <2>5. CASE ~(s = <<>> /\ read > 0)
    <3>1. cur # Nil
      <4>1. cur \in DOMAIN nodes
        BY <2>3, <2>5 DEF Along
      <4>. QED BY <2>1, <4>1, NodeFacts DEF IInv, TypeOK
    <3>2. s # <<>> => Height(s) # 0
      <4>1. SUFFICES ASSUME s # <<>> PROVE Height(s) # 0
        OBVIOUS
      <4>2. Len(s) \in Nat /\ Len(s) >= 1
        BY <2>3, <4>1, EmptySeq DEF Stack
      <4>3. s[Len(s)] = Due => Len(s) > 1
        BY <2>3, <4>2 DEF Stack
      <4>. QED BY <4>1, <4>2, <4>3 DEF Height
    <3>. QED BY <2>3, <2>5, <3>1, <3>2
  <2>. QED BY <2>4, <2>5
<1>3. Init /\ IInv => JsonInv
  BY JsonStarts
<1>. QED BY <1>1, <1>2, <1>3, Invariance, PTL DEF Spec
=============================================================================
