--------------------------- MODULE EdiReaderProofs ---------------------------
(***************************************************************************)
(* Theorems about the EDI reader, for every set of schemas that pass       *)
(* validation, every input and every way the input may end.                *)
(*                                                                         *)
(* Read looks for a waiting target first, so segDone only ever meets one   *)
(* that it has marked itself, on the way up through the frames it          *)
(* finishes.  That it marks no two, and recycles nothing that is still     *)
(* being filled, is because the frames of the stack are of different       *)
(* declarations and hold a path of live nodes.  The latter is an invariant *)
(* only together with what is said here of the whole tree, or rather of    *)
(* all the trees: one for each time that the root was started over.        *)
(***************************************************************************)
EXTENDS EdiReader, SequenceTheorems, WellFoundedInduction, TLAPS

(* Popping a stack drops its last entry and keeps the others. *)
LEMMA FrontType ==
    ASSUME NEW S, NEW s \in Seq(S), s # <<>>
    PROVE  /\ Front(s) \in Seq(S)
           /\ Len(Front(s)) = Len(s) - 1
           /\ \A i \in 1..(Len(s) - 1) : Front(s)[i] = s[i]
<1>. DEFINE n == Len(s) - 1
<1>1. Len(s) \in Nat /\ Len(s) >= 1 /\ n \in Nat
  BY EmptySeq
<1>2. \A i \in 1..n : s[i] \in S
  BY <1>1, ElementOfSeq
<1>. HIDE DEF n
<1>3. /\ SubSeq(s, 1, n) \in Seq(S)
      /\ Len(SubSeq(s, 1, n)) = IF 1 <= n THEN n-1+1 ELSE 0
      /\ \A i \in 1 .. n-1+1 : SubSeq(s, 1, n)[i] = s[1+i-1]
  BY <1>1, <1>2, SubSeqProperties
<1>4. Front(s) = SubSeq(s, 1, n)
  BY DEF Front, n
<1>5. ASSUME NEW i \in 1..n PROVE Front(s)[i] = s[i]
  <2>1. i \in 1 .. n-1+1 /\ 1+i-1 = i
    BY <1>1
  <2>. QED BY <2>1, <1>3, <1>4
<1>6. Len(Front(s)) = n
  BY <1>1, <1>3, <1>4
<1>. QED BY <1>3, <1>4, <1>5, <1>6 DEF n

(* Changing the top entry of a stack leaves the entries below it alone. *)
LEMMA SetLastType ==
    ASSUME NEW S, NEW s \in Seq(S), s # <<>>, NEW e \in S
    PROVE  /\ [s EXCEPT ![Len(s)] = e] \in Seq(S)
           /\ Len([s EXCEPT ![Len(s)] = e]) = Len(s)
           /\ [s EXCEPT ![Len(s)] = e] # <<>>
           /\ [s EXCEPT ![Len(s)] = e][Len(s)] = e
           /\ \A i \in 1..(Len(s) - 1) : [s EXCEPT ![Len(s)] = e][i] = s[i]
  BY EmptySeq, ExceptSeq

(* A set of natural numbers that is not empty has a least one. *)
LEMMA MinFacts ==
    ASSUME NEW S \in SUBSET Nat, S # {}
    PROVE  Min(S) \in S /\ \A k \in S : Min(S) <= k
<1>. DEFINE less == {ss \in Nat \X Nat : ss[1] < ss[2]}
<1>1. IsWellFoundedOn(less, Nat)
  BY NatLessThanWellFounded DEF OpToRel
<1>. HIDE DEF less
<1>2. PICK m \in S : \A k \in S : <<k, m>> \notin less
  BY <1>1, WFMin
<1>3. ASSUME NEW k \in S PROVE m <= k
  <2>1. k < m => <<k, m>> \in less
    BY DEF less
  <2>. QED BY <2>1, <1>2
<1>. QED BY <1>2, <1>3 DEF Min
-----------------------------------------------------------------------------

Entries ==
    [decl : Decls, node : Nat, curChild : Nat \ {0}, occurred : Nat]

NodeRecs ==
    [decl : Decls, path : SUBSET Nat, from : Nat]

Results ==
    {"none", "node", "EOF", "failed", "fewer", "unexpected", "invalid", "panic"}

(***************************************************************************)
(* The nodes t, with IDs up to m, know all their ancestors, which are      *)
(* live.                                                                   *)
(***************************************************************************)
Tree(t, m) ==
    /\ t \in [DOMAIN t -> NodeRecs]
    /\ DOMAIN t \subseteq 1..m
    /\ \A n \in DOMAIN t :
          /\ n \in t[n].path
          /\ t[n].path \subseteq DOMAIN t
          /\ \A p \in t[n].path : t[p].path \subseteq t[n].path

(* The frames of s are a path of declarations from the root down. *)
PathOf(s) ==
    /\ s[1].decl = Root
    /\ \A i \in 1..Len(s), j \in 1..Len(s) : i < j => s[i].decl < s[j].decl
    /\ \A i \in 1..(Len(s) - 1) :
          /\ s[i].curChild \in 1..Len(Children(s[i].decl))
          /\ s[i + 1].decl = Children(s[i].decl)[s[i].curChild]

(* The first k frames of s hold a path of nodes in t, from a root down. *)
Chain(s, t, k) ==
    \A i \in 1..k :
        /\ s[i].node \in DOMAIN t
        /\ t[s[i].node].decl = s[i].decl
        /\ t[s[i].node].path = {s[j].node : j \in 1..i}

(* A target n of the tree t that waits below none of the first k frames of s. *)
Waiting(n, s, t, k) ==
    /\ n \in DOMAIN t
    /\ Target(t[n].decl)
    /\ PassesFilter(t, n)
    /\ \A i \in 1..k : s[i].node # n

(* Every variable has its type. *)
TypeOK ==
    /\ fileDecl \in Schemas
    /\ segs \in Inputs
    /\ tail \in {"EOF", "ERR"}
    /\ read \in Nat
    /\ unprocessedRawSeg \in {Nil, read}
    /\ stack \in Seq(Entries) /\ stack # <<>>
    /\ target \in Nat
    /\ lastID \in Nat
    /\ Tree(nodes, lastID)
    /\ reading \in BOOLEAN
    /\ reply \in [res : Results, node : Nat]
    /\ delivered \in Seq(Nat \X Nat)

(* What is on offer is the waiting target, and only between two calls. *)
CallInv ==
    /\ reading => reply.node = Nil
    /\ reply.node # Nil => target = reply.node

StackInv ==
    /\ PathOf(stack)
    /\ Top.curChild = 1
    /\ Chain(stack, nodes, Len(stack) - 1)

TargetInv == target # Nil => Waiting(target, stack, nodes, Len(stack) - 1)

IInv ==
    /\ TypeOK
    /\ CallInv
    /\ StackInv
    /\ TargetInv
    /\ NoPanic
-----------------------------------------------------------------------------
(* What the type invariant says of the parts the proofs look at. *)

(* The frames of a stack are frames. *)
LEMMA FrameFacts ==
    ASSUME NEW s \in Seq(Entries), s # <<>>
    PROVE  /\ Len(s) \in Nat /\ Len(s) >= 1
           /\ \A i \in 1..Len(s) :
                /\ s[i] \in Entries
                /\ s[i].decl \in Decls
                /\ s[i].node \in Nat
                /\ s[i].curChild \in Nat
                /\ s[i].curChild >= 1
                /\ s[i].occurred \in Nat
<1>1. Len(s) \in Nat /\ Len(s) >= 1
  BY EmptySeq
<1>2. \A i \in 1..Len(s) : s[i] \in Entries
  BY ElementOfSeq
<1>. QED BY <1>1, <1>2 DEF Entries

(* A schema that passed validation has sane declarations. *)
LEMMA DeclFacts ==
    ASSUME TypeOK, NEW d \in Decls
    PROVE  /\ d \in Nat
           /\ Children(d) \in Seq(Decls)
           /\ Len(Children(d)) \in Nat
           /\ Children(d) # <<>> => 1 \in 1..Len(Children(d))
           /\ \A i \in 1..Len(Children(d)) :
                /\ Children(d)[i] \in Decls
                /\ Children(d)[i] \in Nat
                /\ d < Children(d)[i]
           /\ \A i \in 1..Len(Children(d)), j \in 1..Len(Children(d)) :
                 j < i => Children(d)[j] < Children(d)[i]
<1>1. fileDecl \in FileDecls /\ Valid(fileDecl) /\ Decls \subseteq Nat
  BY EdiAssumption DEF TypeOK
<1>2. Children(d) \in Seq(Decls)
  BY <1>1 DEF FileDecls, Children
<1>3. /\ Len(Children(d)) \in Nat
      /\ Children(d) # <<>> => 1 \in 1..Len(Children(d))
      /\ \A i \in 1..Len(Children(d)) : Children(d)[i] \in Decls
  BY <1>2, ElementOfSeq, EmptySeq
<1>4. \A i \in 1..Len(Children(d)) : Children(d)[i] \in Nat
  BY <1>1, <1>3
<1>5. \A i \in 1..Len(Children(d)) :
         /\ Children(d)[i] > d
         /\ \A j \in 1..(i-1) : Children(d)[j] < Children(d)[i]
  BY <1>1 DEF Valid, Children
<1>. QED BY <1>1, <1>2, <1>3, <1>4, <1>5

(* The root is a group, has children and is not the target. *)
LEMMA RootFacts ==
    ASSUME TypeOK
    PROVE  /\ Root \in Decls
           /\ ~Target(Root)
           /\ Group(Root)
           /\ Children(Root) # <<>>
<1>1. fileDecl \in FileDecls /\ Valid(fileDecl) /\ Root \in Decls
  BY EdiAssumption DEF TypeOK
<1>. QED BY <1>1 DEF Valid, Target, Group, Children

(* A pushed frame is well-typed. *)
LEMMA EntryFacts ==
    ASSUME NEW d \in Decls
    PROVE  /\ Entry(d) \in Entries
           /\ Entry(d).decl = d
           /\ Entry(d).node = Nil
           /\ Entry(d).curChild = 1
           /\ Entry(d).occurred = 0
  BY DEF Entry, Entries, Nil

(* A live node has an ID that was given out, and typed fields. *)
LEMMA NodeFacts ==
    ASSUME NEW t, NEW m \in Nat, Tree(t, m), NEW n \in DOMAIN t
    PROVE  /\ n \in Nat /\ n >= 1 /\ n <= m /\ n # Nil
           /\ t[n] \in NodeRecs
           /\ t[n].decl \in Decls
           /\ t[n].path \in SUBSET Nat
           /\ t[n].from \in Nat
<1>1. t[n] \in NodeRecs /\ n \in 1..m
  BY DEF Tree
<1>. QED BY <1>1 DEF NodeRecs, Nil

-----------------------------------------------------------------------------
(* The trees of nodes. *)

(* What is left of the tree t without the nodes drop and all below them. *)
Pruned(t, drop) == Restrict(t, {n \in DOMAIN t : t[n].path \cap drop = {}})

(* Recycling all that is below a set of nodes leaves a tree. *)
LEMMA PrunedTree ==
    ASSUME NEW t, NEW m \in Nat, Tree(t, m), NEW drop,
           NEW t2, t2 = Pruned(t, drop)
    PROVE  /\ Tree(t2, m)
           /\ \A n \in DOMAIN t2 : n \in DOMAIN t /\ t2[n] = t[n]
           /\ \A n \in DOMAIN t : t[n].path \cap drop = {} => n \in DOMAIN t2
<1>. DEFINE D == {n \in DOMAIN t : t[n].path \cap drop = {}}
<1>1. t2 = [n \in D |-> t[n]]
  BY DEF Pruned, Restrict
<1>2. DOMAIN t2 = D /\ \A n \in D : t2[n] = t[n]
  BY <1>1
<1>3. /\ t \in [DOMAIN t -> NodeRecs]
      /\ DOMAIN t \subseteq 1..m
      /\ \A n \in DOMAIN t :
            /\ n \in t[n].path
            /\ t[n].path \subseteq DOMAIN t
            /\ \A p \in t[n].path : t[p].path \subseteq t[n].path
  BY DEF Tree
<1>4. t2 \in [DOMAIN t2 -> NodeRecs] /\ DOMAIN t2 \subseteq 1..m
  BY <1>1, <1>2, <1>3
<1>5. ASSUME NEW n \in DOMAIN t2
      PROVE  /\ n \in t2[n].path
             /\ t2[n].path \subseteq DOMAIN t2
             /\ \A p \in t2[n].path : t2[p].path \subseteq t2[n].path
  <2>1. n \in DOMAIN t /\ t2[n] = t[n] /\ t[n].path \cap drop = {}
    BY <1>2
  <2>2. \A p \in t[n].path : p \in DOMAIN t /\ t[p].path \subseteq t[n].path
    BY <2>1, <1>3
  <2>3. \A p \in t[n].path : p \in DOMAIN t2 /\ t2[p] = t[p]
    BY <2>1, <2>2, <1>2
  <2>. QED BY <2>1, <2>2, <2>3, <1>3
<1>6. Tree(t2, m)
  BY <1>4, <1>5 DEF Tree
<1>. QED BY <1>2, <1>6

(* Release recycles the subtree of one node. *)
LEMMA ReleasedIsPruned ==
    ASSUME NEW n, NEW t2, t2 = Released(n)
    PROVE  t2 = Pruned(nodes, {n})
<1>1. DOMAIN nodes \ Subtree(n) = {m \in DOMAIN nodes : nodes[m].path \cap {n} = {}}
  BY DEF Subtree
<1>. QED BY <1>1 DEF Released, Pruned

(* A path of nodes of which none is dropped survives. *)
LEMMA ChainPruned ==
    ASSUME NEW t, NEW m \in Nat, Tree(t, m), NEW drop,
           NEW t2, t2 = Pruned(t, drop),
           NEW s, NEW k \in Nat, Chain(s, t, k),
           \A i \in 1..k : s[i].node \notin drop
    PROVE  Chain(s, t2, k)
<1>1. /\ \A n \in DOMAIN t2 : n \in DOMAIN t /\ t2[n] = t[n]
      /\ \A n \in DOMAIN t : t[n].path \cap drop = {} => n \in DOMAIN t2
  BY PrunedTree
<1>2. ASSUME NEW i \in 1..k
      PROVE  /\ s[i].node \in DOMAIN t2
             /\ t2[s[i].node].decl = s[i].decl
             /\ t2[s[i].node].path = {s[j].node : j \in 1..i}
  <2>1. /\ s[i].node \in DOMAIN t
        /\ t[s[i].node].decl = s[i].decl
        /\ t[s[i].node].path = {s[j].node : j \in 1..i}
    BY DEF Chain
  <2>2. \A j \in 1..i : j \in 1..k
    OBVIOUS
  <2>3. t[s[i].node].path \cap drop = {}
    BY <2>1, <2>2
  <2>. QED BY <2>1, <2>3, <1>1
<1>. QED BY <1>2 DEF Chain

(* A path of nodes depends on the declarations and nodes of its frames only. *)
LEMMA ChainSame ==
    ASSUME NEW s, NEW t, NEW k \in Nat, Chain(s, t, k), NEW s2, NEW k2 \in Nat, k2 <= k,
           \A i \in 1..k2 : s2[i].node = s[i].node /\ s2[i].decl = s[i].decl
    PROVE  Chain(s2, t, k2)
<1>1. ASSUME NEW i \in 1..k2
      PROVE  /\ s2[i].node \in DOMAIN t
             /\ t[s2[i].node].decl = s2[i].decl
             /\ t[s2[i].node].path = {s2[j].node : j \in 1..i}
  <2>1. i \in 1..k /\ \A j \in 1..i : j \in 1..k2
    OBVIOUS
  <2>2. /\ s[i].node \in DOMAIN t
        /\ t[s[i].node].decl = s[i].decl
        /\ t[s[i].node].path = {s[j].node : j \in 1..i}
    BY <2>1 DEF Chain
  <2>3. {s2[j].node : j \in 1..i} = {s[j].node : j \in 1..i}
    BY <2>1
  <2>. QED BY <2>1, <2>2, <2>3
<1>. QED BY <1>1 DEF Chain

(* The frames of a path hold nodes of their own. *)
LEMMA ChainDistinct ==
    ASSUME NEW s \in Seq(Entries), PathOf(s), NEW t, Chain(s, t, Len(s)),
           Decls \subseteq Nat,
           NEW i \in 1..Len(s), NEW j \in 1..Len(s), i # j
    PROVE  s[i].node # s[j].node
<1>1. t[s[i].node].decl = s[i].decl /\ t[s[j].node].decl = s[j].decl
  BY DEF Chain
<1>2. s[i].decl \in Nat /\ s[j].decl \in Nat
  <2>1. s[i] \in Entries /\ s[j] \in Entries
    BY ElementOfSeq
  <2>. QED BY <2>1 DEF Entries
<1>3. Len(s) \in Nat /\ (i < j \/ j < i)
  OBVIOUS
<1>4. s[i].decl < s[j].decl \/ s[j].decl < s[i].decl
  BY <1>3 DEF PathOf
<1>. QED BY <1>1, <1>2, <1>4

-----------------------------------------------------------------------------
(* The stacks that segDone and segNext leave. *)

(* The frames that segDone goes through, from the top down to the last. *)
LEMMA DoingFacts ==
    ASSUME NEW s, NEW h \in Nat, h >= 1,
           NEW doing, doing = Doing(s, h), NEW last, last = Min(doing)
    PROVE  /\ last \in 1..h
           /\ \A k \in doing : k \in 1..h /\ last <= k
           /\ Leaves(s, last) => last > 1 /\ ~LastChild(s[last - 1])
<1>1. /\ doing \subseteq 1..h
      /\ \A k \in 1..h :
            k \in doing <=> \A j \in (k + 1)..h : Leaves(s, j) /\ LastChild(s[j - 1])
  BY DEF Doing
<1>2. h \in doing
  BY <1>1
<1>3. doing \in SUBSET Nat /\ doing # {}
  BY <1>1, <1>2
<1>4. last \in doing /\ \A k \in doing : last <= k
  BY <1>3, MinFacts
<1>5. last \in 1..h /\ last \in Nat
  BY <1>1, <1>4
<1>6. ASSUME Leaves(s, last) PROVE last > 1 /\ ~LastChild(s[last - 1])
  <2>1. last > 1
    BY <1>6 DEF Leaves
  <2>2. SUFFICES ASSUME LastChild(s[last - 1]) PROVE FALSE
    BY <2>1
  <2>3. last - 1 \in 1..h
    BY <1>5, <2>1
  <2>4. ASSUME NEW j \in ((last - 1) + 1)..h
        PROVE  Leaves(s, j) /\ LastChild(s[j - 1])
    <3>1. j = last \/ j \in (last + 1)..h
      BY <1>5
    <3>2. CASE j = last
      BY <3>2, <1>6, <2>2
    <3>3. CASE j \in (last + 1)..h
      BY <3>3, <1>1, <1>4, <1>5
    <3>. QED BY <3>1, <3>2, <3>3
  <2>5. last - 1 \in doing
    BY <2>3, <2>4, <1>1
  <2>. QED BY <2>5, <1>4, <1>5
<1>. QED BY <1>1, <1>4, <1>5, <1>6

(* The first r frames of a stack. *)
LEMMA Prefix ==
    ASSUME NEW s \in Seq(Entries), NEW r \in Nat, r <= Len(s),
           NEW q, q = SubSeq(s, 1, r)
    PROVE  /\ q \in Seq(Entries)
           /\ Len(q) = r
           /\ \A i \in 1..r : q[i] = s[i]
<1>1. Len(s) \in Nat
  OBVIOUS
<1>2. \A i \in 1..r : s[i] \in Entries
  BY <1>1, ElementOfSeq
<1>3. /\ SubSeq(s, 1, r) \in Seq(Entries)
      /\ Len(SubSeq(s, 1, r)) = IF 1 <= r THEN r-1+1 ELSE 0
      /\ \A i \in 1 .. r-1+1 : SubSeq(s, 1, r)[i] = s[1+i-1]
  BY <1>1, <1>2, SubSeqProperties
<1>4. Len(q) = r
  BY <1>3
<1>5. ASSUME NEW i \in 1..r PROVE q[i] = s[i]
  <2>1. i \in 1 .. r-1+1 /\ 1+i-1 = i
    OBVIOUS
  <2>. QED BY <2>1, <1>3
<1>. QED BY <1>3, <1>4, <1>5

(* Whether the stack s2 is ready for the next segment, with the frames of s up *)
(* to r below its top, or being its top.                                       *)
Follows(s2, s, r) ==
    /\ s2 \in Seq(Entries) /\ s2 # <<>>
    /\ PathOf(s2)
    /\ s2[Len(s2)].curChild = 1
    /\ \A i \in 1..r : s2[i].node = s[i].node /\ s2[i].decl = s[i].decl

(* segNext goes on to the sibling that comes after the frame above r. *)
LEMMA SiblingFacts ==
    ASSUME TypeOK, NEW s \in Seq(Entries), s # <<>>, PathOf(s), NEW r \in 1..Len(s),
           ~LastChild(s[r]), NEW s2, s2 = ToSibling(SubSeq(s, 1, r))
    PROVE  Len(s2) = r + 1 /\ Follows(s2, s, r)
<1>1. /\ Len(s) \in Nat
      /\ \A i \in 1..Len(s) : s[i] \in Entries /\ s[i].decl \in Decls
  BY FrameFacts
<1>2. PICK q : q = SubSeq(s, 1, r)
  OBVIOUS
<1>3. q \in Seq(Entries) /\ Len(q) = r /\ \A i \in 1..r : q[i] = s[i]
  BY <1>1, <1>2, Prefix
<1>4. q # <<>> /\ r \in Nat /\ r >= 1
  BY <1>1, <1>3
<1>5. PICK f : f = Front(q)
  OBVIOUS
<1>6. /\ f \in Seq(Entries)
      /\ Len(f) = r - 1
      /\ \A i \in 1..(r - 1) : f[i] = s[i]
  <2>1. /\ Front(q) \in Seq(Entries)
        /\ Len(Front(q)) = Len(q) - 1
        /\ \A i \in 1..(Len(q) - 1) : Front(q)[i] = q[i]
    BY <1>3, <1>4, FrontType
  <2>. QED BY <2>1, <1>3, <1>4, <1>5
<1>7. Last(q) = s[r]
  BY <1>3, <1>4 DEF Last
<1>8. PICK par : par = s[r]
  OBVIOUS
<1>9. par \in Entries /\ par.decl \in Decls /\ par.curChild \in Nat /\ par.curChild >= 1
  BY <1>1, <1>8 DEF Entries
<1>10. PICK k : k = NextChild(par)
  OBVIOUS
<1>11. Len(Children(par.decl)) \in Nat
  BY <1>9, DeclFacts
<1>12. k = par.curChild + 1 /\ k \in Nat \ {0} /\ k \in 1..Len(Children(par.decl))
  BY <1>8, <1>9, <1>10, <1>11 DEF NextChild, LastChild
<1>13. PICK e : e = [par EXCEPT !.curChild = k]
  OBVIOUS
<1>14. e \in Entries /\ e.curChild = k /\ e.decl = par.decl /\ e.node = par.node
  BY <1>9, <1>12, <1>13 DEF Entries
<1>15. PICK c : c = Children(par.decl)[k]
  OBVIOUS
<1>16. c \in Decls /\ c \in Nat /\ par.decl < c /\ par.decl \in Nat
  BY <1>9, <1>12, <1>15, DeclFacts
<1>17. PICK w : w = Entry(c)
  OBVIOUS
<1>18. w \in Entries /\ w.decl = c /\ w.curChild = 1
  BY <1>16, <1>17, EntryFacts
<1>19. PICK g : g = <<e, w>>
  OBVIOUS
<1>20. g \in Seq(Entries) /\ Len(g) = 2 /\ g[1] = e /\ g[2] = w
  BY <1>14, <1>18, <1>19
<1>21. s2 = f \o g
  BY <1>2, <1>5, <1>7, <1>8, <1>10, <1>13, <1>15, <1>17, <1>19 DEF ToSibling
<1>22. /\ s2 \in Seq(Entries)
       /\ Len(s2) = Len(f) + Len(g)
       /\ \A i \in 1..(Len(f) + Len(g)) : s2[i] = IF i <= Len(f) THEN f[i] ELSE g[i - Len(f)]
  <2>1. f \in Seq(Entries) /\ g \in Seq(Entries)
    BY <1>6, <1>20
  <2>. HIDE DEF Entries
  <2>2. /\ f \o g \in Seq(Entries)
        /\ Len(f \o g) = Len(f) + Len(g)
        /\ \A i \in 1..(Len(f) + Len(g)) :
              (f \o g)[i] = IF i <= Len(f) THEN f[i] ELSE g[i - Len(f)]
    BY <2>1, ConcatProperties
  <2>. QED BY <2>2, <1>21
<1>23. Len(s2) = r + 1
  BY <1>4, <1>6, <1>20, <1>22
<1>24. \A i \in 1..(r - 1) : s2[i] = s[i]
  BY <1>4, <1>6, <1>20, <1>22
<1>25. s2[r] = e
  <2>1. r \in 1..(Len(f) + Len(g)) /\ ~(r <= Len(f)) /\ r - Len(f) = 1
    BY <1>4, <1>6, <1>20
  <2>. QED BY <2>1, <1>20, <1>22
<1>26. s2[r + 1] = w
  <2>1. r + 1 \in 1..(Len(f) + Len(g)) /\ ~(r + 1 <= Len(f)) /\ r + 1 - Len(f) = 2
    BY <1>4, <1>6, <1>20
  <2>. QED BY <2>1, <1>20, <1>22
<1>27. \A i \in 1..r : s2[i].node = s[i].node /\ s2[i].decl = s[i].decl
  <2>1. ASSUME NEW i \in 1..r PROVE s2[i].node = s[i].node /\ s2[i].decl = s[i].decl
    <3>1. i \in 1..(r - 1) \/ i = r
      BY <1>4
    <3>. QED BY <3>1, <1>24, <1>25, <1>14, <1>8
  <2>. QED BY <2>1
<1>28. s2[1].decl = Root
  BY <1>4, <1>27 DEF PathOf
<1>29. \A i \in 1..Len(s), j \in 1..Len(s) : i < j => s[i].decl < s[j].decl
  BY DEF PathOf
<1>30. \A i \in 1..r : s[i].decl \in Nat
  <2>1. Decls \subseteq Nat
    BY EdiAssumption
  <2>2. \A i \in 1..r : i \in 1..Len(s)
    BY <1>1, <1>4
  <2>. QED BY <2>1, <2>2, <1>1
<1>31. ASSUME NEW i \in 1..(r + 1), NEW j \in 1..(r + 1), i < j
       PROVE  s2[i].decl < s2[j].decl
  <2>1. i \in 1..r /\ (j \in 1..r \/ j = r + 1)
    BY <1>31, <1>4
  <2>2. CASE j \in 1..r
    <3>1. i \in 1..Len(s) /\ j \in 1..Len(s)
      BY <2>1, <2>2, <1>1
    <3>2. s[i].decl < s[j].decl
      BY <3>1, <1>29, <1>31
    <3>. QED BY <3>2, <2>1, <2>2, <1>27
  <2>3. CASE j = r + 1
    <3>1. s2[j].decl = c
      BY <2>3, <1>26, <1>18
    <3>2. i = r \/ i < r
      BY <2>1
    <3>3. i = r \/ s[i].decl < s[r].decl
      BY <3>2, <2>1, <1>29, <1>1
    <3>4. s[i].decl < c
      BY <3>3, <2>1, <1>30, <1>16, <1>8
    <3>. QED BY <3>1, <3>4, <2>1, <1>27
  <2>. QED BY <2>1, <2>2, <2>3
<1>32. ASSUME NEW i \in 1..r
       PROVE  /\ s2[i].curChild \in 1..Len(Children(s2[i].decl))
              /\ s2[i + 1].decl = Children(s2[i].decl)[s2[i].curChild]
  <2>1. CASE i = r
    BY <2>1, <1>12, <1>14, <1>15, <1>18, <1>25, <1>26
  <2>2. CASE i # r
    <3>1. i \in 1..(r - 1) /\ i + 1 \in 1..r /\ i \in 1..(Len(s) - 1)
      BY <2>2, <1>1, <1>4
    <3>2. /\ s[i].curChild \in 1..Len(Children(s[i].decl))
          /\ s[i + 1].decl = Children(s[i].decl)[s[i].curChild]
      BY <3>1 DEF PathOf
    <3>. QED BY <3>1, <3>2, <1>24, <1>27
  <2>. QED BY <2>1, <2>2
<1>33. Len(s2) - 1 = r
  BY <1>4, <1>23
<1>34. PathOf(s2)
  BY <1>28, <1>31, <1>32, <1>33, <1>23 DEF PathOf
<1>35. s2 # <<>> /\ s2[Len(s2)].curChild = 1
  BY <1>4, <1>18, <1>23, <1>26
<1>. QED BY <1>22, <1>23, <1>27, <1>34, <1>35 DEF Follows

(* The frame r on top once more, one instance of it being done. *)
Again(s, r, n) == Append(SubSeq(s, 1, r - 1), DoneEntry(s[r], n))

(* A frame that is not left stays on top, ready for another instance. *)
LEMMA AgainFacts ==
    ASSUME NEW s \in Seq(Entries), s # <<>>, PathOf(s), NEW r \in 1..Len(s),
           NEW n \in Nat, NEW s2, s2 = Again(s, r, n)
    PROVE  Len(s2) = r /\ Follows(s2, s, r - 1)
<1>1. /\ Len(s) \in Nat
      /\ \A i \in 1..Len(s) : s[i] \in Entries
  BY FrameFacts
<1>2. PICK q : q = SubSeq(s, 1, r - 1)
  OBVIOUS
<1>3. r - 1 \in Nat /\ r - 1 <= Len(s) /\ r >= 1 /\ r \in Nat
  BY <1>1
<1>4. q \in Seq(Entries) /\ Len(q) = r - 1 /\ \A i \in 1..(r - 1) : q[i] = s[i]
  BY <1>2, <1>3, Prefix
<1>5. PICK e : e = DoneEntry(s[r], n)
  OBVIOUS
<1>6. e \in Entries /\ e.decl = s[r].decl /\ e.curChild = 1
  <2>1. PICK x : x = s[r]
    OBVIOUS
  <2>2. x \in Entries /\ n \in Nat /\ e = DoneEntry(x, n)
    BY <1>1, <1>5, <2>1
  <2>3. x.occurred + 1 \in Nat
    BY <2>2 DEF Entries
  <2>4. e = [decl |-> x.decl, node |-> n, curChild |-> 1, occurred |-> x.occurred + 1]
    BY <2>2 DEF DoneEntry, Entries
  <2>5. e \in Entries /\ e.decl = x.decl /\ e.curChild = 1
    BY <2>2, <2>3, <2>4 DEF Entries
  <2>. QED BY <2>1, <2>5
<1>7. /\ Append(q, e) \in Seq(Entries)
      /\ Len(Append(q, e)) = Len(q) + 1
      /\ Append(q, e)[Len(q) + 1] = e
      /\ \A i \in 1..Len(q) : Append(q, e)[i] = q[i]
  BY <1>4, <1>6, AppendProperties
<1>8. s2 = Append(q, e)
  BY <1>2, <1>5 DEF Again
<1>9. /\ s2 \in Seq(Entries) /\ Len(s2) = r /\ s2[r] = e
      /\ \A i \in 1..(r - 1) : s2[i] = s[i]
  BY <1>3, <1>4, <1>7, <1>8
<1>10. \A i \in 1..r : s2[i].decl = s[i].decl
  <2>1. \A i \in 1..r : i \in 1..(r - 1) \/ i = r
    BY <1>3
  <2>. QED BY <2>1, <1>6, <1>9
<1>11. s2[1].decl = Root
  BY <1>3, <1>10 DEF PathOf
<1>12. \A i \in 1..r, j \in 1..r : i < j => s2[i].decl < s2[j].decl
  <2>1. \A i \in 1..Len(s), j \in 1..Len(s) : i < j => s[i].decl < s[j].decl
    BY DEF PathOf
  <2>2. \A i \in 1..r : i \in 1..Len(s)
    BY <1>1, <1>3
  <2>. QED BY <2>1, <2>2, <1>10
<1>13. ASSUME NEW i \in 1..(r - 1)
       PROVE  /\ s2[i].curChild \in 1..Len(Children(s2[i].decl))
              /\ s2[i + 1].decl = Children(s2[i].decl)[s2[i].curChild]
  <2>1. i + 1 \in 1..r /\ i \in 1..(Len(s) - 1)
    BY <1>1, <1>3
  <2>2. /\ s[i].curChild \in 1..Len(Children(s[i].decl))
        /\ s[i + 1].decl = Children(s[i].decl)[s[i].curChild]
    BY <2>1 DEF PathOf
  <2>. QED BY <2>1, <2>2, <1>9, <1>10
<1>14. PathOf(s2)
  BY <1>9, <1>11, <1>12, <1>13 DEF PathOf
<1>15. s2 # <<>> /\ s2[Len(s2)].curChild = 1
  BY <1>3, <1>6, <1>9
<1>. QED BY <1>9, <1>14, <1>15 DEF Follows
(* A stack, a target and a tree as Read wants them at the head of its loop. *)
Good(s, tg, t, m) ==
    /\ s \in Seq(Entries) /\ s # <<>>
    /\ PathOf(s)
    /\ s[Len(s)].curChild = 1
    /\ Tree(t, m)
    /\ Chain(s, t, Len(s) - 1)
    /\ tg \in Nat
    /\ tg # Nil => Waiting(tg, s, t, Len(s) - 1)

(* What segDone finds: a path of nodes, the top frame's among them, no target. *)
Filled(s, t, m) ==
    /\ s \in Seq(Entries) /\ s # <<>>
    /\ PathOf(s)
    /\ Tree(t, m)
    /\ Chain(s, t, Len(s))

(***************************************************************************)
(* segDone does at most one target, which has a node, is below all that is *)
(* still being filled, and is kept or dropped with all below it.           *)
(***************************************************************************)
LEMMA SegDoneFacts ==
    ASSUME TypeOK, target = Nil, NEW m \in Nat, NEW s, NEW t, Filled(s, t, m),
           SegDone(s, t)
    PROVE  /\ UNCHANGED <<reading, reply>>
           /\ Good(stack', target', nodes', m)
<1>. DEFINE h == Len(s)
            Fails(k) == ~PassesFilter(t, s[k].node)
<1>1. /\ s \in Seq(Entries) /\ s # <<>>
      /\ PathOf(s)
      /\ Tree(t, m)
      /\ Chain(s, t, h)
  BY DEF Filled
<1>2. h \in Nat /\ h >= 1 /\ \A i \in 1..h : s[i].decl \in Decls /\ s[i].node \in Nat
  BY <1>1, FrameFacts
<1>3. Decls \subseteq Nat
  BY EdiAssumption
<1>4. PICK doing : doing = Doing(s, h)
  OBVIOUS
<1>5. PICK last : last = Min(doing)
  OBVIOUS
<1>6. /\ last \in 1..h
      /\ \A k \in doing : k \in 1..h /\ last <= k
      /\ Leaves(s, last) => last > 1 /\ ~LastChild(s[last - 1])
  BY <1>2, <1>4, <1>5, DoingFacts
<1>7. PICK targets : targets = {k \in doing : Target(s[k].decl)}
  OBVIOUS
<1>8. \A k \in targets : k \in 1..h /\ last <= k /\ Target(s[k].decl)
  BY <1>6, <1>7
(* No two frames are of the target declaration. *)
<1>9. \A k \in targets, j \in targets : ~ j > k
  <2>1. SUFFICES ASSUME NEW k \in targets, NEW j \in targets, k < j PROVE FALSE
    BY <1>8
  <2>2. s[k].decl < s[j].decl
    BY <2>1, <1>1, <1>8 DEF PathOf
  <2>3. s[k].decl = s[j].decl /\ s[k].decl \in Nat
    BY <1>8, <1>2, <1>3 DEF Target
  <2>. QED BY <2>2, <2>3
<1>10. \A i \in 1..h : s[i].node \in DOMAIN t /\ s[i].node # Nil
  BY <1>1, NodeFacts DEF Chain
<1>11. ~ \E k \in targets : \/ s[k].node = Nil
                            \/ target # Nil
                            \/ \E j \in targets : j > k /\ ~Fails(j)
  BY <1>8, <1>9, <1>10
<1>12. PICK drop : drop = {s[k].node : k \in {j \in targets : Fails(j)}}
  OBVIOUS
<1>13. PICK kept : kept = {k \in targets : ~Fails(k)}
  OBVIOUS
<1>14. PICK n : n = IF s[last].node \in drop THEN Nil ELSE s[last].node
  OBVIOUS
<1>15. n \in Nat
  BY <1>2, <1>6, <1>14 DEF Nil
<1>16. PICK s2 : s2 = stack'
  OBVIOUS
<1>17. PICK t2 : t2 = nodes'
  OBVIOUS
<1>18. PICK tg : tg = target'
  OBVIOUS
<1>. HIDE DEF h
<1>19. /\ UNCHANGED <<reading, reply>>
       /\ tg = IF kept = {} THEN target ELSE s[Min(kept)].node
       /\ t2 = Restrict(t, {x \in DOMAIN t : t[x].path \cap drop = {}})
       /\ s2 = IF Leaves(s, last) THEN ToSibling(SubSeq(s, 1, last - 1))
               ELSE Append(SubSeq(s, 1, last - 1), DoneEntry(s[last], n))
  BY <1>4, <1>5, <1>7, <1>11, <1>12, <1>13, <1>14, <1>16, <1>17, <1>18 DEF SegDone, h
<1>. HIDE DEF Fails
<1>20. t2 = Pruned(t, drop)
  BY <1>19 DEF Pruned
<1>21. /\ Tree(t2, m)
       /\ \A x \in DOMAIN t2 : x \in DOMAIN t /\ t2[x] = t[x]
       /\ \A x \in DOMAIN t : t[x].path \cap drop = {} => x \in DOMAIN t2
  BY <1>1, <1>20, PrunedTree
(* The frames below the last one that is done keep their nodes. *)
<1>22. PICK r : r = last - 1
  OBVIOUS
<1>23. r \in Nat /\ r < h /\ r < last
  BY <1>2, <1>6, <1>22
<1>24. /\ Len(s2) = r + 1
       /\ Follows(s2, s, r)
  <2>1. CASE Leaves(s, last)
    <3>1. r \in 1..Len(s) /\ ~LastChild(s[r]) /\ s2 = ToSibling(SubSeq(s, 1, r))
      BY <2>1, <1>2, <1>6, <1>19, <1>22, <1>23 DEF h
    <3>. QED BY <3>1, <1>1, SiblingFacts
  <2>2. CASE ~Leaves(s, last)
    <3>1. last \in 1..Len(s) /\ s2 = Again(s, last, n)
      BY <2>2, <1>6, <1>19 DEF h, Again
    <3>2. Len(s2) = last /\ Follows(s2, s, last - 1)
      BY <3>1, <1>1, <1>15, AgainFacts
    <3>. QED BY <3>2, <1>6, <1>22
  <2>. QED BY <2>1, <2>2
<1>25. \A k \in targets, i \in 1..r : s[i].node # s[k].node
  <2>1. SUFFICES ASSUME NEW k \in targets, NEW i \in 1..r PROVE s[i].node # s[k].node
    OBVIOUS
  <2>2. i \in 1..Len(s) /\ k \in 1..Len(s) /\ i # k
    BY <1>2, <1>6, <1>8, <1>23 DEF h
  <2>. QED BY <2>2, <1>1, <1>3, ChainDistinct DEF h
<1>26. Chain(s2, t2, r)
  <2>1. \A i \in 1..r : i \in 1..h
    BY <1>2, <1>23
  <2>2. Chain(s, t, r)
    BY <1>1, <1>2, <1>23, ChainSame DEF h
  <2>3. \A i \in 1..r : s[i].node \notin drop
    BY <1>12, <1>25
  <2>4. Chain(s, t2, r)
    BY <2>2, <2>3, <1>1, <1>20, <1>23, ChainPruned
  <2>. QED BY <2>4, <1>23, <1>24, ChainSame DEF Follows
<1>27. tg # Nil => Waiting(tg, s2, t2, r) /\ tg \in Nat
  <2>1. SUFFICES ASSUME tg # Nil PROVE Waiting(tg, s2, t2, r) /\ tg \in Nat
    OBVIOUS
  <2>2. kept # {}
    BY <2>1, <1>19
  <2>3. PICK k : k = Min(kept)
    OBVIOUS
  <2>4. kept \in SUBSET Nat
    BY <1>2, <1>8, <1>13
  <2>5. k \in kept
    BY <2>2, <2>3, <2>4, MinFacts
  <2>6. k \in targets /\ ~Fails(k) /\ k \in 1..h /\ tg = s[k].node
    BY <2>2, <2>3, <2>5, <1>8, <1>13, <1>19
  <2>7. drop = {}
    <3>1. \A j \in targets : j = k
      BY <2>6, <1>8, <1>9
    <3>. QED BY <3>1, <2>6, <1>12
  <2>8. tg \in DOMAIN t /\ t[tg].decl = s[k].decl
    BY <2>6, <1>1 DEF Chain
  <2>9. tg \in DOMAIN t2 /\ t2[tg] = t[tg]
    BY <2>7, <2>8, <1>21
  <2>10. Target(t2[tg].decl)
    BY <2>6, <2>8, <2>9, <1>8
  <2>11. PassesFilter(t2, tg)
    BY <2>6, <2>9 DEF Fails, PassesFilter
  <2>12. \A i \in 1..r : s2[i].node # tg
    BY <2>6, <1>24, <1>25 DEF Follows
  <2>. QED BY <2>6, <2>9, <2>10, <2>11, <2>12, <1>2 DEF Waiting
<1>28. tg \in Nat
  BY <1>27 DEF Nil
<1>29. Len(s2) - 1 = r
  BY <1>23, <1>24
<1>30. Good(s2, tg, t2, m)
  BY <1>21, <1>24, <1>26, <1>27, <1>28, <1>29 DEF Good, Follows
<1>. QED BY <1>16, <1>17, <1>18, <1>19, <1>30

(* segNext leaves the frame on top, or fails. *)
LEMMA SegNextFacts ==
    ASSUME TypeOK, StackInv, target = Nil, Len(stack) > 1, SegNext
    PROVE  \/ Return("fewer", Nil) /\ UNCHANGED <<stack, target, nodes>>
           \/ /\ UNCHANGED <<reading, reply>>
              /\ Good(stack', target', nodes', lastID)
<1>1. /\ stack \in Seq(Entries) /\ stack # <<>>
      /\ Tree(nodes, lastID) /\ lastID \in Nat
      /\ target \in Nat
  BY DEF TypeOK
<1>2. PathOf(stack) /\ Chain(stack, nodes, Len(stack) - 1)
  BY DEF StackInv
<1>3. PICK s : s = Front(stack)
  OBVIOUS
<1>4. PICK r : r = Len(stack) - 1
  OBVIOUS
<1>5. Len(stack) \in Nat /\ r \in Nat /\ r >= 1 /\ r < Len(stack)
  BY <1>1, <1>4
<1>6. s \in Seq(Entries) /\ Len(s) = r /\ \A i \in 1..r : s[i] = stack[i]
  BY <1>1, <1>3, <1>4, FrontType
<1>7. s # <<>> /\ Last(s) = stack[r]
  BY <1>5, <1>6 DEF Last
<1>8. CASE TooFew(Top.decl, Top.occurred)
  BY <1>8 DEF SegNext
<1>9. CASE ~TooFew(Top.decl, Top.occurred) /\ LastChild(Last(s))
  <2>1. SegDone(s, nodes)
    BY <1>3, <1>9 DEF SegNext
  <2>2. PathOf(s)
    <3>1. \A i \in 1..r : i \in 1..Len(stack)
      BY <1>5
    <3>2. \A i \in 1..(r - 1) : i \in 1..r /\ i + 1 \in 1..r /\ i \in 1..(Len(stack) - 1)
      BY <1>4, <1>5
    <3>3. s[1].decl = Root
      BY <1>2, <1>5, <1>6 DEF PathOf
    <3>4. \A i \in 1..r, j \in 1..r : i < j => s[i].decl < s[j].decl
      BY <3>1, <1>2, <1>6 DEF PathOf
    <3>5. \A i \in 1..(r - 1) :
             /\ s[i].curChild \in 1..Len(Children(s[i].decl))
             /\ s[i + 1].decl = Children(s[i].decl)[s[i].curChild]
      BY <3>2, <1>2, <1>6 DEF PathOf
    <3>. QED BY <3>3, <3>4, <3>5, <1>6 DEF PathOf
  <2>3. Chain(s, nodes, r)
    BY <1>2, <1>4, <1>5, <1>6, ChainSame
  <2>4. Filled(s, nodes, lastID)
    BY <2>2, <2>3, <1>1, <1>6, <1>7 DEF Filled
  <2>. QED BY <2>1, <2>4, <1>1, SegDoneFacts
<1>10. CASE ~TooFew(Top.decl, Top.occurred) /\ ~LastChild(Last(s))
  <2>1. PICK s2 : s2 = stack'
    OBVIOUS
  <2>2. s2 = ToSibling(s) /\ UNCHANGED <<target, nodes, reading, reply>>
    BY <2>1, <1>3, <1>10 DEF SegNext
  <2>3. s2 = ToSibling(SubSeq(stack, 1, r))
    BY <2>2, <1>3, <1>4 DEF Front
  <2>4. r \in 1..Len(stack) /\ ~LastChild(stack[r])
    BY <1>5, <1>7, <1>10
  <2>5. Len(s2) = r + 1 /\ Follows(s2, stack, r)
    BY <2>3, <2>4, <1>1, <1>2, SiblingFacts
  <2>6. Chain(s2, nodes, r)
    BY <2>5, <1>2, <1>4, <1>5, ChainSame DEF Follows
  <2>7. Len(s2) - 1 = r
    BY <2>5, <1>5
  <2>8. Good(s2, target, nodes, lastID)
    BY <2>5, <2>6, <2>7, <1>1 DEF Good, Follows
  <2>. QED BY <2>1, <2>2, <2>8
<1>. QED BY <1>3, <1>8, <1>9, <1>10
-----------------------------------------------------------------------------
(* The steps. *)

(* The invariant is that Read's loop finds what it wants, and what Read gave. *)
LEMMA IsGood == IInv => Good(stack, target, nodes, lastID)
  BY DEF IInv, TypeOK, StackInv, TargetInv, Good, Top

(* A step that leaves a good stack, target and tree preserves the invariant. *)
LEMMA Assemble ==
    ASSUME TypeOK, UNCHANGED src,
           Good(stack', target', nodes', lastID'), lastID' \in Nat,
           read' \in Nat, unprocessedRawSeg' \in {Nil, read'},
           reading' \in BOOLEAN, reply' \in [res : Results, node : Nat],
           delivered' \in Seq(Nat \X Nat),
           CallInv', NoPanic'
    PROVE  IInv'
<1>1. fileDecl' = fileDecl /\ segs' = segs /\ tail' = tail
  BY DEF src
<1>2. /\ stack' \in Seq(Entries) /\ stack' # <<>>
      /\ PathOf(stack')
      /\ stack'[Len(stack')].curChild = 1
      /\ Tree(nodes', lastID')
      /\ Chain(stack', nodes', Len(stack') - 1)
      /\ target' \in Nat
      /\ target' # Nil => Waiting(target', stack', nodes', Len(stack') - 1)
  BY DEF Good
<1>3. TypeOK'
  BY <1>1, <1>2 DEF TypeOK
<1>4. PathOf(stack)'
  BY <1>1, <1>2 DEF PathOf, Children
<1>5. StackInv'
  BY <1>2, <1>4 DEF StackInv, Top
<1>6. TargetInv'
  BY <1>1, <1>2 DEF TargetInv, Waiting, Target, PassesFilter
<1>. QED BY <1>3, <1>5, <1>6 DEF IInv

(* A new reader satisfies the inductive invariant. *)
LEMMA InitInv == Init => IInv
<1>. SUFFICES ASSUME Init PROVE IInv
  OBVIOUS
<1>1. /\ fileDecl \in Schemas /\ segs \in Inputs /\ tail \in {"EOF", "ERR"}
      /\ read = 0 /\ unprocessedRawSeg = Nil
      /\ target = Nil /\ lastID = 1 /\ reading = FALSE
      /\ reply = [res |-> "none", node |-> Nil]
      /\ delivered = <<>>
  BY DEF Init
<1>2. /\ fileDecl \in FileDecls /\ Valid(fileDecl)
      /\ Decls \subseteq Nat /\ Root \in Decls
  BY <1>1, EdiAssumption
<1>3. PICK ch : ch = Children(Root)
  OBVIOUS
<1>4. /\ ch \in Seq(Decls) /\ ch # <<>>
      /\ \A i \in 1..Len(ch) : ch[i] > Root
  BY <1>2, <1>3 DEF FileDecls, Valid, Children
<1>5. Len(ch) \in Nat /\ 1 \in 1..Len(ch) /\ ch[1] \in Decls /\ Root < ch[1]
  <2>1. Len(ch) \in Nat /\ Len(ch) >= 1
    BY <1>4, EmptySeq
  <2>2. 1 \in 1..Len(ch)
    BY <2>1
  <2>3. ch[1] \in Nat
    BY <2>2, <1>2, <1>4, ElementOfSeq
  <2>. QED BY <2>1, <2>2, <2>3, <1>4, ElementOfSeq DEF Root
<1>6. PICK r : r = [Entry(Root) EXCEPT !.node = 1]
  OBVIOUS
<1>7. r \in Entries /\ r.decl = Root /\ r.node = 1 /\ r.curChild = 1
  BY <1>2, <1>6 DEF Entry, Entries
<1>8. PICK e : e = Entry(ch[1])
  OBVIOUS
<1>9. e \in Entries /\ e.decl = ch[1] /\ e.curChild = 1
  BY <1>5, <1>8, EntryFacts
<1>10. stack = <<r, e>>
  BY <1>3, <1>6, <1>8 DEF Init
<1>11. /\ stack \in Seq(Entries) /\ stack # <<>> /\ Len(stack) = 2
       /\ stack[1] = r /\ stack[2] = e
  BY <1>7, <1>9, <1>10
<1>12. PathOf(stack)
  <2>1. \A i \in 1..2, j \in 1..2 : i < j => i = 1 /\ j = 2
    OBVIOUS
  <2>2. \A i \in 1..2, j \in 1..2 : i < j => stack[i].decl < stack[j].decl
    BY <2>1, <1>5, <1>7, <1>9, <1>11
  <2>3. \A i \in 1..(2 - 1) :
           /\ stack[i].curChild \in 1..Len(Children(stack[i].decl))
           /\ stack[i + 1].decl = Children(stack[i].decl)[stack[i].curChild]
    BY <1>3, <1>5, <1>7, <1>9, <1>11
  <2>. QED BY <2>2, <2>3, <1>7, <1>11 DEF PathOf
<1>13. PICK rec : rec = [decl |-> Root, path |-> {1}, from |-> 0]
  OBVIOUS
<1>14. rec \in NodeRecs /\ rec.decl = Root /\ rec.path = {1}
  BY <1>2, <1>13 DEF NodeRecs
<1>15. nodes = [x \in {1} |-> rec]
  BY <1>13 DEF Init
<1>16. DOMAIN nodes = {1} /\ nodes[1] = rec /\ nodes \in [{1} -> NodeRecs]
  BY <1>14, <1>15
<1>17. Tree(nodes, lastID)
  BY <1>1, <1>14, <1>16 DEF Tree
<1>18. Chain(stack, nodes, 1)
  <2>1. {stack[j].node : j \in 1..1} = {1}
    BY <1>7, <1>11
  <2>. QED BY <2>1, <1>7, <1>11, <1>14, <1>16 DEF Chain
<1>19. TypeOK
  <2>1. reply \in [res : Results, node : Nat]
    BY <1>1 DEF Nil, Results
  <2>2. delivered \in Seq(Nat \X Nat)
    BY <1>1
  <2>. QED BY <2>1, <2>2, <1>1, <1>11, <1>17 DEF TypeOK, Nil
<1>20. StackInv
  BY <1>9, <1>11, <1>12, <1>18 DEF StackInv, Top
<1>. QED BY <1>1, <1>19, <1>20 DEF IInv, CallInv, TargetInv, NoPanic

(* Recycling the waiting target leaves what is being filled alone. *)
LEMMA ReleaseFacts ==
    ASSUME IInv, target # Nil, nodes' = Released(target), target' = Nil,
           UNCHANGED <<stack, lastID>>
    PROVE  Good(stack', target', nodes', lastID')
<1>1. Good(stack, target, nodes, lastID) /\ lastID \in Nat
  BY IsGood DEF IInv, TypeOK
<1>2. /\ stack \in Seq(Entries) /\ stack # <<>>
      /\ Tree(nodes, lastID)
      /\ Chain(stack, nodes, Len(stack) - 1)
      /\ Waiting(target, stack, nodes, Len(stack) - 1)
  BY <1>1 DEF Good
<1>3. PICK k : k = Len(stack) - 1
  OBVIOUS
<1>4. k \in Nat
  BY <1>2, <1>3
<1>5. PICK t2 : t2 = nodes'
  OBVIOUS
<1>6. t2 = Pruned(nodes, {target})
  BY <1>5, ReleasedIsPruned
<1>7. \A i \in 1..k : stack[i].node \notin {target}
  BY <1>2, <1>3 DEF Waiting
<1>8. Chain(stack, t2, k)
  BY <1>1, <1>2, <1>3, <1>4, <1>6, <1>7, ChainPruned
<1>9. Tree(t2, lastID)
  BY <1>1, <1>2, <1>6, PrunedTree
<1>. QED BY <1>1, <1>3, <1>5, <1>8, <1>9 DEF Good, Nil

(* The caller's Release preserves the inductive invariant. *)
LEMMA ReleaseStep == IInv /\ Release => IInv'
<1>. SUFFICES ASSUME IInv, Release PROVE IInv'
  OBVIOUS
<1>1. TypeOK /\ CallInv /\ NoPanic
  BY DEF IInv
<1>2. /\ ~reading /\ reply.node # Nil /\ target = reply.node /\ target # Nil
      /\ nodes' = Released(target) /\ target' = Nil
      /\ reply' = [reply EXCEPT !.node = Nil]
      /\ UNCHANGED <<src, read, unprocessedRawSeg, stack, lastID, reading, delivered>>
  BY <1>1 DEF Release, CallInv
<1>3. Good(stack', target', nodes', lastID')
  BY <1>2, ReleaseFacts
<1>4. reply' \in [res : Results, node : Nat] /\ reply'.node = Nil /\ reply'.res = reply.res
  BY <1>1, <1>2 DEF TypeOK, Nil
<1>5. CallInv' /\ NoPanic'
  BY <1>1, <1>4 DEF CallInv, NoPanic
<1>. QED BY <1>1, <1>2, <1>3, <1>4, <1>5, Assemble DEF TypeOK

(* A call of Read, which releases a target that the caller kept. *)
LEMMA ReadCall == IInv /\ Read => IInv'
<1>. SUFFICES ASSUME IInv, Read PROVE IInv'
  OBVIOUS
<1>1. TypeOK /\ CallInv /\ NoPanic
  BY DEF IInv
<1>2. /\ nodes' = IF target # Nil THEN Released(target) ELSE nodes
      /\ target' = Nil /\ reading' = TRUE
      /\ reply' = [reply EXCEPT !.node = Nil]
      /\ UNCHANGED <<src, read, unprocessedRawSeg, stack, lastID, delivered>>
  BY DEF Read
<1>3. Good(stack', target', nodes', lastID')
  <2>1. CASE target # Nil
    BY <2>1, <1>2, ReleaseFacts
  <2>2. CASE target = Nil
    BY <2>2, <1>2, IsGood
  <2>. QED BY <2>1, <2>2
<1>4. reply' \in [res : Results, node : Nat] /\ reply'.node = Nil /\ reply'.res = reply.res
  BY <1>1, <1>2 DEF TypeOK, Nil
<1>5. CallInv' /\ NoPanic'
  BY <1>1, <1>4 DEF CallInv, NoPanic
<1>. QED BY <1>1, <1>2, <1>3, <1>4, <1>5, Assemble DEF TypeOK

(* Processed is a number of segments. *)
LEMMA ProcessedType == TypeOK => Processed \in Nat
  BY DEF TypeOK, Processed, Nil

(* Returning the target leaves it waiting for the caller. *)
LEMMA ReturnStep == IInv /\ ReturnTarget => IInv'
<1>. SUFFICES ASSUME IInv, ReturnTarget PROVE IInv'
  OBVIOUS
<1>1. TypeOK /\ CallInv /\ Good(stack, target, nodes, lastID)
  BY IsGood DEF IInv
<1>2. /\ target # Nil /\ reading' = FALSE
      /\ reply' = [res |-> "node", node |-> target]
      /\ delivered' = Append(delivered, <<nodes[target].from, Processed>>)
      /\ UNCHANGED <<src, read, unprocessedRawSeg, stack, target, nodes, lastID>>
  BY DEF ReturnTarget, Return
<1>3. nodes[target].from \in Nat
  BY <1>1, <1>2, NodeFacts DEF Good, Waiting, TypeOK
<1>4. delivered' \in Seq(Nat \X Nat)
  BY <1>1, <1>2, <1>3, ProcessedType DEF TypeOK
<1>5. reply' \in [res : Results, node : Nat]
  BY <1>1, <1>2 DEF TypeOK, Results
<1>6. CallInv' /\ NoPanic'
  BY <1>1, <1>2 DEF CallInv, NoPanic
<1>. QED BY <1>1, <1>2, <1>4, <1>5, <1>6, Assemble DEF TypeOK

(* A call that ends with an error. *)
LEMMA Failed ==
    ASSUME IInv, NEW res, res \in Results \ {"panic"}, Return(res, Nil)
    PROVE  /\ reading' \in BOOLEAN
           /\ reply' \in [res : Results, node : Nat]
           /\ CallInv'
           /\ NoPanic'
  BY DEF Return, CallInv, NoPanic, Nil

(* A step that goes on. *)
LEMMA Continued ==
    ASSUME IInv, reading, UNCHANGED <<reading, reply>>
    PROVE  /\ reading' \in BOOLEAN
           /\ reply' \in [res : Results, node : Nat]
           /\ CallInv'
           /\ NoPanic'
<1>1. TypeOK /\ CallInv /\ NoPanic
  BY DEF IInv
<1>. QED BY <1>1 DEF CallInv, NoPanic, TypeOK

(* What becomes of the segment at hand. *)
LEMMA RawSegFacts ==
    ASSUME TypeOK, Unprocessed \/ ResetRawSeg
    PROVE  read' \in Nat /\ unprocessedRawSeg' \in {Nil, read'}
  BY DEF TypeOK, Unprocessed, ResetRawSeg, RawSeg, Nil

(* A step that calls segNext and leaves the rest alone but for the segment. *)
LEMMA SegNextStep ==
    ASSUME IInv, AtLoop, Len(stack) > 1, SegNext, UNCHANGED <<src, lastID, delivered>>,
           read' \in Nat, unprocessedRawSeg' \in {Nil, read'}
    PROVE  IInv'
<1>1. TypeOK /\ StackInv /\ target = Nil /\ reading
      /\ Good(stack, target, nodes, lastID)
  BY IsGood DEF IInv, AtLoop
<1>2. CASE Return("fewer", Nil) /\ UNCHANGED <<stack, target, nodes>>
  <2>1. Good(stack', target', nodes', lastID')
    BY <1>1, <1>2
  <2>2. /\ reading' \in BOOLEAN
        /\ reply' \in [res : Results, node : Nat]
        /\ CallInv'
        /\ NoPanic'
    BY <1>2, Failed DEF Results
  <2>. QED BY <2>1, <2>2, <1>1, Assemble DEF TypeOK
<1>3. CASE /\ UNCHANGED <<reading, reply>>
           /\ Good(stack', target', nodes', lastID)
  <2>1. /\ reading' \in BOOLEAN
        /\ reply' \in [res : Results, node : Nat]
        /\ CallInv'
        /\ NoPanic'
    BY <1>1, <1>3, Continued
  <2>. QED BY <2>1, <1>1, <1>3, Assemble DEF TypeOK
<1>. QED BY <1>1, <1>2, <1>3, SegNextFacts

(* At the end of the input. *)
LEMMA NoMoreSegsStep == IInv /\ NoMoreSegs => IInv'
<1>. SUFFICES ASSUME IInv, NoMoreSegs PROVE IInv'
  OBVIOUS
<1>1. TypeOK /\ AtLoop /\ UNCHANGED <<src, read, unprocessedRawSeg, lastID, delivered>>
      /\ Good(stack, target, nodes, lastID)
  BY IsGood DEF IInv, NoMoreSegs
<1>2. ASSUME NEW res, res \in {"failed", "EOF"}, Return(res, Nil),
             UNCHANGED <<stack, target, nodes>>
      PROVE  IInv'
  <2>1. Good(stack', target', nodes', lastID')
    BY <1>1, <1>2
  <2>2. /\ reading' \in BOOLEAN
        /\ reply' \in [res : Results, node : Nat]
        /\ CallInv'
        /\ NoPanic'
    BY <1>2, Failed DEF Results
  <2>. QED BY <2>1, <2>2, <1>1, Assemble DEF TypeOK
<1>3. CASE tail = "ERR"
  BY <1>2, <1>3 DEF NoMoreSegs
<1>4. CASE tail # "ERR" /\ Len(stack) <= 1
  BY <1>2, <1>4 DEF NoMoreSegs
<1>5. CASE tail # "ERR" /\ ~(Len(stack) <= 1)
  <2>1. SegNext /\ Len(stack) > 1
    BY <1>1, <1>5 DEF NoMoreSegs, TypeOK
  <2>. QED BY <2>1, <1>1, SegNextStep DEF TypeOK
<1>. QED BY <1>3, <1>4, <1>5

(* A segment that is not of the declaration at hand. *)
LEMMA NoMatchStep == IInv /\ NoMatch => IInv'
<1>. SUFFICES ASSUME IInv, NoMatch PROVE IInv'
  OBVIOUS
<1>1. TypeOK /\ AtLoop /\ Unprocessed /\ UNCHANGED <<src, lastID, delivered>>
      /\ Good(stack, target, nodes, lastID)
  BY IsGood DEF IInv, NoMatch
<1>2. read' \in Nat /\ unprocessedRawSeg' \in {Nil, read'}
  BY <1>1, RawSegFacts
<1>3. CASE Len(stack) <= 1
  <2>1. Return("unexpected", Nil) /\ UNCHANGED <<stack, target, nodes>>
    BY <1>3 DEF NoMatch
  <2>2. Good(stack', target', nodes', lastID')
    BY <1>1, <2>1
  <2>3. /\ reading' \in BOOLEAN
        /\ reply' \in [res : Results, node : Nat]
        /\ CallInv'
        /\ NoPanic'
    BY <2>1, Failed DEF Results
  <2>. QED BY <2>2, <2>3, <1>1, <1>2, Assemble DEF TypeOK
<1>4. CASE ~(Len(stack) <= 1)
  <2>1. SegNext /\ Len(stack) > 1
    BY <1>1, <1>4 DEF NoMatch, TypeOK
  <2>. QED BY <2>1, <1>1, <1>2, SegNextStep
<1>. QED BY <1>3, <1>4
(* The stack with another node for its top frame. *)
TopNode(n) == [stack EXCEPT ![Len(stack)].node = n]

(* Only the node of the top frame changes. *)
LEMMA TopNodeFacts ==
    ASSUME TypeOK, PathOf(stack), NEW n \in Nat, NEW s, s = TopNode(n)
    PROVE  /\ s \in Seq(Entries) /\ s # <<>> /\ Len(s) = Len(stack)
           /\ \A i \in 1..(Len(stack) - 1) : s[i] = stack[i]
           /\ s[Len(stack)].node = n
           /\ s[Len(stack)].decl = Top.decl
           /\ s[Len(stack)].curChild = Top.curChild
           /\ PathOf(s)
<1>1. stack \in Seq(Entries) /\ stack # <<>>
  BY DEF TypeOK
<1>2. PICK k : k = Len(stack)
  OBVIOUS
<1>3. k \in Nat /\ k >= 1 /\ k \in DOMAIN stack /\ stack[k] \in Entries
  BY <1>1, <1>2, FrameFacts
<1>4. PICK e : e = [stack[k] EXCEPT !.node = n]
  OBVIOUS
<1>5. /\ e \in Entries /\ e.node = n
      /\ e.decl = stack[k].decl /\ e.curChild = stack[k].curChild
  BY <1>3, <1>4 DEF Entries
<1>6. s = [stack EXCEPT ![k] = e]
  BY <1>2, <1>4 DEF TopNode
<1>7. /\ s \in Seq(Entries) /\ Len(s) = k /\ s # <<>> /\ s[k] = e
      /\ \A i \in 1..(k - 1) : s[i] = stack[i]
  BY <1>1, <1>2, <1>5, <1>6, SetLastType
<1>8. \A i \in 1..k : s[i].decl = stack[i].decl /\ s[i].curChild = stack[i].curChild
  <2>1. \A i \in 1..k : i \in 1..(k - 1) \/ i = k
    BY <1>3
  <2>. QED BY <2>1, <1>5, <1>7
<1>9. PathOf(s)
  <2>1. s[1].decl = Root
    BY <1>3, <1>8 DEF PathOf
  <2>2. \A i \in 1..k, j \in 1..k : i < j => s[i].decl < s[j].decl
    BY <1>2, <1>8 DEF PathOf
  <2>3. \A i \in 1..(k - 1) : i \in 1..k /\ i + 1 \in 1..k
    BY <1>3
  <2>4. \A i \in 1..(k - 1) :
           /\ s[i].curChild \in 1..Len(Children(s[i].decl))
           /\ s[i + 1].decl = Children(s[i].decl)[s[i].curChild]
    BY <2>3, <1>2, <1>8 DEF PathOf
  <2>. QED BY <2>1, <2>2, <2>4, <1>7 DEF PathOf
<1>. QED BY <1>2, <1>5, <1>7, <1>9 DEF Top

(* A segment of the declaration at hand that lacks an element ends the stream. *)
LEMMA MatchFailsStep == IInv /\ MatchFails => IInv'
<1>. SUFFICES ASSUME IInv, MatchFails PROVE IInv'
  OBVIOUS
<1>1. /\ TypeOK /\ AtLoop /\ Unprocessed
      /\ UNCHANGED <<src, target, nodes, lastID, delivered>>
      /\ Good(stack, target, nodes, lastID)
      /\ Return("invalid", Nil)
  BY IsGood DEF IInv, MatchFails
<1>2. read' \in Nat /\ unprocessedRawSeg' \in {Nil, read'}
  BY <1>1, RawSegFacts
<1>3. PICK s : s = stack'
  OBVIOUS
<1>4. s = TopNode(Nil) /\ Nil \in Nat
  BY <1>3 DEF MatchFails, TopNode, Nil
<1>5. /\ stack \in Seq(Entries) /\ stack # <<>>
      /\ PathOf(stack) /\ Top.curChild = 1
      /\ Tree(nodes, lastID)
      /\ Chain(stack, nodes, Len(stack) - 1)
      /\ target \in Nat /\ target = Nil
  BY <1>1 DEF Good, Top, AtLoop
<1>6. /\ s \in Seq(Entries) /\ s # <<>> /\ Len(s) = Len(stack)
      /\ \A i \in 1..(Len(stack) - 1) : s[i] = stack[i]
      /\ s[Len(stack)].curChild = Top.curChild
      /\ PathOf(s)
  BY <1>1, <1>4, <1>5, TopNodeFacts
<1>7. Len(stack) - 1 \in Nat
  BY <1>5
<1>8. Chain(s, nodes, Len(stack) - 1)
  BY <1>5, <1>6, <1>7, ChainSame
<1>9. Good(s, target, nodes, lastID)
  BY <1>5, <1>6, <1>8 DEF Good
<1>10. /\ reading' \in BOOLEAN
       /\ reply' \in [res : Results, node : Nat]
       /\ CallInv'
       /\ NoPanic'
  BY <1>1, Failed DEF Results
<1>. QED BY <1>1, <1>2, <1>3, <1>9, <1>10, Assemble DEF TypeOK

(* A new node is below the frames of the stack, or the root of a new tree. *)
LEMMA GrownFacts ==
    ASSUME TypeOK, PathOf(stack), Chain(stack, nodes, Len(stack) - 1),
           NEW n, n = lastID + 1, NEW s, s = TopNode(n),
           NEW t, t = Grown(n, Top.decl)
    PROVE  n \in Nat /\ Filled(s, t, n)
<1>1. /\ stack \in Seq(Entries) /\ stack # <<>>
      /\ lastID \in Nat /\ Tree(nodes, lastID)
  BY DEF TypeOK
<1>2. n \in Nat /\ n \in 1..n /\ 1..lastID \subseteq 1..n /\ n \notin 1..lastID
  BY <1>1
<1>3. /\ s \in Seq(Entries) /\ s # <<>> /\ Len(s) = Len(stack)
      /\ \A i \in 1..(Len(stack) - 1) : s[i] = stack[i]
      /\ s[Len(stack)].node = n
      /\ s[Len(stack)].decl = Top.decl
      /\ PathOf(s)
  BY <1>2, TopNodeFacts
<1>4. PICK k : k = Len(stack) - 1
  OBVIOUS
<1>5. k \in Nat /\ Len(stack) = k + 1 /\ \A i \in 1..k : i \in 1..Len(stack)
  BY <1>1, <1>4
<1>6. Top.decl \in Decls
  BY <1>1, FrameFacts DEF Top
<1>7. PICK above : above = IF k = 0 THEN {} ELSE nodes[stack[k].node].path
  OBVIOUS
<1>8. /\ above = {stack[j].node : j \in 1..k}
      /\ above \subseteq DOMAIN nodes
      /\ \A p \in above : nodes[p].path \subseteq above
  <2>1. CASE k = 0
    BY <2>1, <1>7
  <2>2. CASE k # 0
    <3>1. k \in 1..k
      BY <2>2, <1>5
    <3>2. /\ stack[k].node \in DOMAIN nodes
          /\ nodes[stack[k].node].path = {stack[j].node : j \in 1..k}
      BY <3>1, <1>4 DEF Chain
    <3>. QED BY <2>2, <3>2, <1>1, <1>7 DEF Tree
  <2>. QED BY <2>1, <2>2
<1>9. PICK new : new = NewNode(n, Top.decl, above)
  OBVIOUS
<1>10. t = Created(n, new)
  <2>1. CASE k = 0
    BY <2>1, <1>5, <1>7, <1>9 DEF Grown, AtRoot, WithRoot
  <2>2. CASE k # 0
    BY <2>2, <1>4, <1>5, <1>7, <1>9 DEF Grown, AtRoot, WithChild, StackTop1
  <2>. QED BY <2>1, <2>2
<1>11. DOMAIN nodes \subseteq 1..lastID /\ n \notin DOMAIN nodes
       /\ \A m \in DOMAIN nodes : m \in Nat
  BY <1>1, <1>2 DEF Tree
<1>12. new \in NodeRecs /\ new.path = above \cup {n} /\ new.decl = Top.decl
  <2>1. above \cup {n} \in SUBSET Nat
    BY <1>2, <1>8, <1>11
  <2>. QED BY <2>1, <1>6, <1>9, ProcessedType DEF NewNode, NodeRecs
<1>13. /\ DOMAIN t = DOMAIN nodes \cup {n} /\ t[n] = new
       /\ \A m \in DOMAIN nodes : t[m] = nodes[m]
       /\ t = [m \in DOMAIN nodes \cup {n} |-> IF m = n THEN new ELSE nodes[m]]
  BY <1>10, <1>11 DEF Created
<1>14. t \in [DOMAIN t -> NodeRecs]
  BY <1>1, <1>12, <1>13 DEF Tree
<1>15. DOMAIN t \subseteq 1..n
  BY <1>2, <1>11, <1>13
<1>16. ASSUME NEW m \in DOMAIN t
       PROVE  /\ m \in t[m].path
              /\ t[m].path \subseteq DOMAIN t
              /\ \A p \in t[m].path : t[p].path \subseteq t[m].path
  <2>1. CASE m = n
    <3>1. t[m].path = above \cup {n}
      BY <2>1, <1>12, <1>13
    <3>2. \A p \in above : t[p].path \subseteq above
      BY <1>8, <1>13
    <3>. QED BY <2>1, <3>1, <3>2, <1>8, <1>13
  <2>2. CASE m # n
    <3>1. m \in DOMAIN nodes /\ t[m] = nodes[m]
      BY <2>2, <1>13
    <3>2. /\ m \in nodes[m].path
          /\ nodes[m].path \subseteq DOMAIN nodes
          /\ \A p \in nodes[m].path : nodes[p].path \subseteq nodes[m].path
      BY <3>1, <1>1 DEF Tree
    <3>. QED BY <3>1, <3>2, <1>13
  <2>. QED BY <2>1, <2>2
<1>17. Tree(t, n)
  BY <1>14, <1>15, <1>16 DEF Tree
<1>18. ASSUME NEW i \in 1..(k + 1)
       PROVE  /\ s[i].node \in DOMAIN t
              /\ t[s[i].node].decl = s[i].decl
              /\ t[s[i].node].path = {s[j].node : j \in 1..i}
  <2>1. \A j \in 1..k : s[j] = stack[j]
    BY <1>3, <1>4
  <2>2. CASE i = k + 1
    <3>1. {s[j].node : j \in 1..i} = {s[j].node : j \in 1..k} \cup {s[k + 1].node}
      BY <2>2, <1>5
    <3>2. {s[j].node : j \in 1..k} = above
      BY <2>1, <1>8
    <3>3. s[i].node = n /\ s[i].decl = Top.decl /\ s[k + 1].node = n
      BY <2>2, <1>3, <1>5
    <3>4. {s[j].node : j \in 1..i} = above \cup {n}
      BY <3>1, <3>2, <3>3
    <3>. QED BY <3>3, <3>4, <1>12, <1>13
  <2>3. CASE i # k + 1
    <3>1. i \in 1..k /\ \A j \in 1..i : j \in 1..k
      BY <2>3, <1>5
    <3>2. /\ stack[i].node \in DOMAIN nodes
          /\ nodes[stack[i].node].decl = stack[i].decl
          /\ nodes[stack[i].node].path = {stack[j].node : j \in 1..i}
      BY <3>1, <1>4 DEF Chain
    <3>3. {s[j].node : j \in 1..i} = {stack[j].node : j \in 1..i}
      BY <3>1, <2>1
    <3>. QED BY <3>1, <3>2, <3>3, <2>1, <1>13
  <2>. QED BY <2>2, <2>3
<1>19. Chain(s, t, Len(s))
  BY <1>18, <1>3, <1>5 DEF Chain
<1>. QED BY <1>2, <1>3, <1>17, <1>19 DEF Filled

(* With a complete node on top, the stack goes on to its first child. *)
LEMMA DescendFacts ==
    ASSUME TypeOK, NEW m \in Nat, NEW s, NEW t, Filled(s, t, m),
           NEW d, d = s[Len(s)].decl, s[Len(s)].curChild = 1, Children(d) # <<>>,
           NEW s2, s2 = Append(s, Entry(Children(d)[1]))
    PROVE  Good(s2, Nil, t, m)
<1>1. /\ s \in Seq(Entries) /\ s # <<>> /\ PathOf(s)
      /\ Tree(t, m) /\ Chain(s, t, Len(s))
  BY DEF Filled
<1>2. PICK k : k = Len(s)
  OBVIOUS
<1>3. k \in Nat /\ k >= 1 /\ \A i \in 1..k : s[i] \in Entries /\ s[i].decl \in Decls
  BY <1>1, <1>2, FrameFacts
<1>4. d \in Decls /\ Decls \subseteq Nat
  BY <1>2, <1>3, EdiAssumption
<1>5. PICK c : c = Children(d)[1]
  OBVIOUS
<1>6. c \in Decls /\ d < c /\ 1 \in 1..Len(Children(d)) /\ c \in Nat /\ d \in Nat
  BY <1>4, <1>5, DeclFacts
<1>7. PICK e : e = Entry(c)
  OBVIOUS
<1>8. e \in Entries /\ e.decl = c /\ e.curChild = 1
  BY <1>6, <1>7, EntryFacts
<1>9. /\ s2 \in Seq(Entries) /\ Len(s2) = k + 1 /\ s2[k + 1] = e
      /\ \A i \in 1..k : s2[i] = s[i]
  BY <1>1, <1>2, <1>5, <1>7, <1>8, AppendProperties
<1>10. s2[1].decl = Root
  BY <1>1, <1>3, <1>9 DEF PathOf
<1>11. \A i \in 1..k, j \in 1..k : i < j => s[i].decl < s[j].decl
  BY <1>1, <1>2 DEF PathOf
<1>12. \A i \in 1..k : s[i].decl < c
  <2>1. SUFFICES ASSUME NEW i \in 1..k PROVE s[i].decl < c
    OBVIOUS
  <2>2. k \in 1..k /\ (i = k \/ i < k) /\ s[k].decl = d
    BY <1>2, <1>3
  <2>3. s[i].decl \in Nat /\ (s[i].decl = d \/ s[i].decl < d)
    BY <2>2, <1>3, <1>4, <1>11
  <2>. QED BY <2>3, <1>6
<1>13. ASSUME NEW i \in 1..(k + 1), NEW j \in 1..(k + 1), i < j
       PROVE  s2[i].decl < s2[j].decl
  <2>1. i \in 1..k /\ (j \in 1..k \/ j = k + 1)
    BY <1>13, <1>3
  <2>. QED BY <2>1, <1>8, <1>9, <1>11, <1>12, <1>13
<1>14. ASSUME NEW i \in 1..k
       PROVE  /\ s2[i].curChild \in 1..Len(Children(s2[i].decl))
              /\ s2[i + 1].decl = Children(s2[i].decl)[s2[i].curChild]
  <2>1. CASE i = k
    BY <2>1, <1>2, <1>5, <1>6, <1>8, <1>9
  <2>2. CASE i # k
    <3>1. i \in 1..(k - 1) /\ i + 1 \in 1..k
      BY <2>2, <1>3
    <3>. QED BY <3>1, <1>1, <1>2, <1>9 DEF PathOf
  <2>. QED BY <2>1, <2>2
<1>15. Len(s2) - 1 = k /\ s2 # <<>> /\ s2[Len(s2)].curChild = 1
  BY <1>3, <1>8, <1>9
<1>16. PathOf(s2)
  BY <1>9, <1>10, <1>13, <1>14, <1>15 DEF PathOf
<1>17. Chain(s2, t, k)
  <2>1. \A i \in 1..k : s2[i].node = s[i].node /\ s2[i].decl = s[i].decl
    BY <1>9
  <2>2. Chain(s, t, k) /\ k <= k
    BY <1>1, <1>2, <1>3
  <2>. QED BY <2>1, <2>2, <1>3, ChainSame
<1>. QED BY <1>1, <1>9, <1>15, <1>16, <1>17 DEF Good, Nil

(* A segment of the declaration at hand, or the first segment of a group. *)
LEMMA MatchStep == IInv /\ Match => IInv'
<1>. SUFFICES ASSUME IInv, Match PROVE IInv'
  OBVIOUS
<1>1. /\ TypeOK /\ StackInv /\ Good(stack, target, nodes, lastID)
  BY IsGood DEF IInv
<1>2. PICK d : d = Top.decl
  OBVIOUS
<1>3. PICK n : n = lastID + 1
  OBVIOUS
<1>4. PICK s : s = TopNode(n)
  OBVIOUS
<1>5. PICK t : t = Grown(n, d)
  OBVIOUS
<1>6. /\ AtLoop
      /\ Unprocessed \/ ResetRawSeg
      /\ lastID' = n
      /\ IF Children(d) = <<>>
         THEN SegDone(s, t)
         ELSE /\ stack' = Append(s, Entry(Children(d)[1]))
              /\ nodes' = t
              /\ UNCHANGED <<target, reading, reply>>
      /\ UNCHANGED <<src, delivered>>
  BY <1>2, <1>3, <1>4, <1>5 DEF Match, TopNode
<1>7. reading /\ target = Nil
  BY <1>6 DEF AtLoop
<1>8. read' \in Nat /\ unprocessedRawSeg' \in {Nil, read'}
  BY <1>1, <1>6, RawSegFacts
<1>9. PathOf(stack) /\ Top.curChild = 1 /\ Chain(stack, nodes, Len(stack) - 1)
  BY <1>1 DEF StackInv
<1>10. n \in Nat /\ Filled(s, t, n)
  BY <1>1, <1>2, <1>3, <1>4, <1>5, <1>9, GrownFacts
<1>11. s[Len(s)].decl = d /\ s[Len(s)].curChild = 1
  BY <1>1, <1>2, <1>4, <1>9, <1>10, TopNodeFacts
<1>12. UNCHANGED <<reading, reply>> /\ Good(stack', target', nodes', n)
  <2>1. CASE Children(d) = <<>>
    BY <2>1, <1>1, <1>6, <1>7, <1>10, SegDoneFacts
  <2>2. CASE Children(d) # <<>>
    <3>1. PICK s2 : s2 = stack'
      OBVIOUS
    <3>2. Good(s2, Nil, t, n)
      BY <2>2, <3>1, <1>1, <1>6, <1>10, <1>11, DescendFacts
    <3>. QED BY <2>2, <3>1, <3>2, <1>6, <1>7
  <2>. QED BY <2>1, <2>2
<1>13. /\ reading' \in BOOLEAN
       /\ reply' \in [res : Results, node : Nat]
       /\ CallInv'
       /\ NoPanic'
  BY <1>7, <1>12, Continued
<1>. QED BY <1>1, <1>6, <1>8, <1>10, <1>12, <1>13, Assemble DEF TypeOK

(* Every step preserves the inductive invariant. *)
LEMMA NextInv == IInv /\ [Next]_vars => IInv'
<1>. SUFFICES ASSUME IInv, [Next]_vars PROVE IInv'
  OBVIOUS
<1>1. CASE UNCHANGED vars
  <2>1. /\ UNCHANGED <<src, read, unprocessedRawSeg, stack, target, nodes, lastID>>
        /\ UNCHANGED <<reading, reply, delivered>>
    BY <1>1 DEF vars
  <2>2. TypeOK /\ CallInv /\ NoPanic /\ Good(stack, target, nodes, lastID)
    BY IsGood DEF IInv
  <2>3. CallInv' /\ NoPanic'
    BY <2>1, <2>2 DEF CallInv, NoPanic
  <2>4. Good(stack', target', nodes', lastID')
    BY <2>1, <2>2
  <2>. QED BY <2>1, <2>2, <2>3, <2>4, Assemble DEF TypeOK
<1>2. CASE Release
  BY <1>2, ReleaseStep
<1>3. CASE Read
  BY <1>3, ReadCall
<1>4. CASE ReturnTarget
  BY <1>4, ReturnStep
<1>5. CASE NoMoreSegs
  BY <1>5, NoMoreSegsStep
<1>6. CASE NoMatch
  BY <1>6, NoMatchStep
<1>7. CASE MatchFails
  BY <1>7, MatchFailsStep
<1>8. CASE Match
  BY <1>8, MatchStep
<1>9. CASE Ended
  BY <1>1, <1>9 DEF Ended
<1>. QED BY <1>1, <1>2, <1>3, <1>4, <1>5, <1>6, <1>7, <1>8, <1>9 DEF Next, ReadStep

-----------------------------------------------------------------------------
(***************************************************************************)
(* The inductive invariant holds in every reachable state, for all schemas *)
(* that pass validation and all inputs (edi/reader.go).                    *)
(***************************************************************************)
THEOREM Invariance == Spec => []IInv
<1>. QED BY InitInv, NextInv, PTL DEF Spec

(***************************************************************************)
(* The two panics of segDone are unreachable (edi/reader.go:149-154).      *)
(***************************************************************************)
THEOREM PanicFree == Spec => []NoPanic
<1>1. IInv => NoPanic
  BY DEF IInv
<1>. QED BY <1>1, Invariance, PTL

(***************************************************************************)
(* The stack never leads the reader to a recycled node: AddChild always    *)
(* attaches to a live node of the right declaration, in the current tree.  *)
(***************************************************************************)
THEOREM LiveChain == Spec => []OpenChainLive
<1>1. IInv => OpenChainLive
  BY DEF IInv, StackInv, Chain, OpenChainLive
<1>. QED BY <1>1, Invariance, PTL

(***************************************************************************)
(* What Read() hands out is a complete target that passed the filter, none *)
(* of whose nodes is still being filled and all of whose ancestors live.   *)
(***************************************************************************)
THEOREM TargetIntact == Spec => []ReturnedTargetIntact
<1>1. IInv => ReturnedTargetIntact
  <2>. SUFFICES ASSUME IInv, reply.node # Nil PROVE ReturnedTargetIntact
    BY DEF ReturnedTargetIntact
  <2>1. /\ stack \in Seq(Entries)
        /\ Tree(nodes, lastID)
        /\ Chain(stack, nodes, Len(stack) - 1)
        /\ reply.node = target
        /\ Waiting(target, stack, nodes, Len(stack) - 1)
    BY DEF IInv, TypeOK, StackInv, CallInv, TargetInv
  <2>2. target \in DOMAIN nodes /\ Target(nodes[target].decl) /\ PassesFilter(nodes, target)
    BY <2>1 DEF Waiting
  <2>3. nodes[target].path \subseteq DOMAIN nodes
    BY <2>1, <2>2 DEF Tree
  <2>4. ASSUME NEW i \in 1..(Len(stack) - 1), stack[i].node \in Subtree(target)
        PROVE  FALSE
    <3>1. target \in nodes[stack[i].node].path
      BY <2>4 DEF Subtree
    <3>2. nodes[stack[i].node].path = {stack[j].node : j \in 1..i}
      BY <2>1 DEF Chain
    <3>3. PICK j \in 1..i : target = stack[j].node
      BY <3>1, <3>2
    <3>4. j \in 1..(Len(stack) - 1)
      BY <2>1
    <3>. QED BY <3>3, <3>4, <2>1 DEF Waiting
  <2>5. Subtree(target) \cap OpenNodes = {}
    BY <2>4 DEF OpenNodes
  <2>. QED BY <2>1, <2>2, <2>3, <2>5 DEF ReturnedTargetIntact
<1>. QED BY <1>1, Invariance, PTL
=============================================================================
