------------------------ MODULE HierarchyReaderProofs ------------------------
(***************************************************************************)
(* Theorems about flatfile.HierarchyReader, for every set of schemas that  *)
(* pass validation, every input and every way the input may end.           *)
(*                                                                         *)
(* The safety invariants of HierarchyReader are not inductive: that counts *)
(* stay in range when an instance is completed depends on what the stack   *)
(* says about every open instance, that recDone finds no target waiting    *)
(* depends on nothing being done between a target's completion and its     *)
(* delivery but completing its ancestors.  IInv says all that.             *)
(***************************************************************************)
EXTENDS HierarchyReader, SequenceTheorems, WellFoundedInduction, TLAPS

(* Popping a stack drops its last entry and keeps the others. *)
LEMMA FrontType ==
    ASSUME NEW S, NEW s \in Seq(S), s # <<>>
    PROVE  /\ Front(s) \in Seq(S)
           /\ Len(Front(s)) = Len(s) - 1
           /\ \A i \in 1..(Len(s) - 1) : Front(s)[i] = s[i]
<1>. DEFINE n == Len(s) - 1
<1>1. Len(s) \in Nat /\ Len(s) >= 1 /\ n \in Nat
  BY EmptySeq
<1>2. \A i \in 1..n : s[i] \in S
  BY <1>1, ElementOfSeq
<1>. HIDE DEF n
<1>3. /\ SubSeq(s, 1, n) \in Seq(S)
      /\ Len(SubSeq(s, 1, n)) = IF 1 <= n THEN n-1+1 ELSE 0
      /\ \A i \in 1 .. n-1+1 : SubSeq(s, 1, n)[i] = s[1+i-1]
  BY <1>1, <1>2, SubSeqProperties
<1>4. Front(s) = SubSeq(s, 1, n)
  BY DEF Front, n
<1>5. ASSUME NEW i \in 1..n PROVE Front(s)[i] = s[i]
  <2>1. i \in 1 .. n-1+1 /\ 1+i-1 = i
    BY <1>1
  <2>. QED BY <2>1, <1>3, <1>4
<1>6. Len(Front(s)) = n
  BY <1>1, <1>3, <1>4
<1>. QED BY <1>3, <1>4, <1>5, <1>6 DEF n

(* Changing the top entry of a stack leaves the entries below it alone. *)
LEMMA SetLastType ==
    ASSUME NEW S, NEW s \in Seq(S), s # <<>>, NEW e \in S
    PROVE  /\ [s EXCEPT ![Len(s)] = e] \in Seq(S)
           /\ Len([s EXCEPT ![Len(s)] = e]) = Len(s)
           /\ [s EXCEPT ![Len(s)] = e] # <<>>
           /\ [s EXCEPT ![Len(s)] = e][Len(s)] = e
           /\ \A i \in 1..(Len(s) - 1) : [s EXCEPT ![Len(s)] = e][i] = s[i]
  BY EmptySeq, ExceptSeq

(* A set of natural numbers that is not empty has a least one. *)
LEMMA MinFacts ==
    ASSUME NEW S \in SUBSET Nat, S # {}
    PROVE  Min(S) \in S /\ \A k \in S : Min(S) <= k
<1>. DEFINE less == {ss \in Nat \X Nat : ss[1] < ss[2]}
<1>1. IsWellFoundedOn(less, Nat)
  BY NatLessThanWellFounded DEF OpToRel
<1>. HIDE DEF less
<1>2. PICK m \in S : \A k \in S : <<k, m>> \notin less
  BY <1>1, WFMin
<1>3. ASSUME NEW k \in S PROVE m <= k
  <2>1. k < m => <<k, m>> \in less
    BY DEF less
  <2>. QED BY <2>1, <1>2
<1>. QED BY <1>2, <1>3 DEF Min
-----------------------------------------------------------------------------

KidsInRange(n, c) ==
    /\ MinOccurs(c) <= nodes[n].kids[c]
    /\ nodes[n].kids[c] <= MaxEffective(c)

(* The caller's node is the target; a waiting target's ancestors are not targets. *)
CallInv ==
    /\ pc # "idle" => reply.node = Nil
    /\ reply.node # Nil => target = reply.node
    /\ pc \in {"recDone", "recNext"} /\ target # Nil =>
          \A i \in 1..Len(stack) : Open(i) => ~Target(stack[i].decl)

(* The stack is a path of declarations from the root down. *)
StackInv ==
    /\ stack[1].decl = Root
    /\ \A i \in 1..Len(stack), j \in 1..Len(stack) :
          i < j => stack[i].decl < stack[j].decl
    /\ \A i \in 1..(Len(stack) - 1) :
          /\ stack[i].curChild \in 1..Len(ChildDecls(stack[i].decl))
          /\ stack[i+1].decl = ChildDecls(stack[i].decl)[stack[i].curChild]
    /\ ~Open(Len(stack)) => Top.curChild = 1

(* An instance is only started when there is room for it. *)
OccurredInv ==
    /\ \A i \in 2..Len(stack) :
          Open(i) \/ pc # "recNext" =>
             stack[i].occurred = 0 \/ stack[i].occurred < MaxOccurs(stack[i].decl)
    /\ pc = "recNext" /\ Len(stack) > 1 => Top.occurred <= MaxEffective(Top.decl)
    /\ RecDoneNeverFails

(* Every node knows its ancestors, and they are live. *)
TreeInv ==
    /\ 1 \in DOMAIN nodes
    /\ nodes[1].decl = Root
    /\ nodes[1].path = {1}
    /\ \A n \in DOMAIN nodes \ {1} :
          /\ nodes[n].parent \in DOMAIN nodes
          /\ nodes[n].parent < n
          /\ nodes[n].path = nodes[nodes[n].parent].path \cup {n}

(* The open entries hold the path of the innermost open node. *)
ChainInv ==
    \A i \in 1..Len(stack) : Open(i) =>
        /\ stack[i].node \in DOMAIN nodes
        /\ nodes[stack[i].node].decl = stack[i].decl
        /\ nodes[stack[i].node].parent = IF i = 1 THEN Nil ELSE stack[i-1].node
        /\ nodes[stack[i].node].path = {stack[j].node : j \in 1..i}

TargetInv ==
    target # Nil =>
        /\ Target(nodes[target].decl)
        /\ PassesFilter(target)
        /\ target \notin OpenNodes

(* All the child instances of a record are there, and not too many of them. *)
AllKidsInRange(n, d) ==
    \A j \in 1..Len(ChildDecls(d)) : KidsInRange(n, ChildDecls(d)[j])

(***************************************************************************)
(* Node n of an open entry e has its children in range up to declaration   *)
(* e.curChild, as many of those as the entry above counts, and none later. *)
(***************************************************************************)
KidsCounted(n, e, count) ==
    /\ \A j \in 1..Len(ChildDecls(e.decl)) :
          /\ j < e.curChild => KidsInRange(n, ChildDecls(e.decl)[j])
          /\ j > e.curChild => nodes[n].kids[ChildDecls(e.decl)[j]] = 0
    /\ nodes[n].kids[ChildDecls(e.decl)[e.curChild]] = count

Count(i) == stack[i].occurred + (IF Open(i) THEN 1 ELSE 0)

KidsInv ==
    /\ \A i \in 1..(Len(stack) - 1) : KidsCounted(stack[i].node, stack[i], Count(i+1))
    /\ pc = "recDone" => AllKidsInRange(Top.node, Top.decl)
    /\ \A n \in DOMAIN nodes \ OpenNodes : AllKidsInRange(n, nodes[n].decl)

IInv ==
    /\ TypeOK
    /\ CallInv
    /\ StackInv
    /\ OccurredInv
    /\ TreeInv
    /\ ChainInv
    /\ TargetInv
    /\ KidsInv
-----------------------------------------------------------------------------
(* What the type invariant says of the parts the proofs look at. *)

(* The stack is never empty and its entries are entries. *)
LEMMA StackFacts ==
    ASSUME TypeOK
    PROVE  /\ Len(stack) \in Nat /\ Len(stack) >= 1
           /\ \A i \in 1..Len(stack) :
                /\ stack[i] \in Entries
                /\ stack[i].decl \in Decls
                /\ stack[i].node \in Nat
                /\ stack[i].curChild \in Nat
                /\ stack[i].curChild >= 1
                /\ stack[i].occurred \in Nat
<1>1. stack \in Seq(Entries) /\ stack # <<>>
  BY DEF TypeOK
<1>2. Len(stack) \in Nat /\ Len(stack) >= 1
  BY <1>1, EmptySeq
<1>3. \A i \in 1..Len(stack) : stack[i] \in Entries
  BY <1>1, ElementOfSeq
<1>. QED BY <1>2, <1>3 DEF Entries

(* A schema that passed validation has sane declarations. *)
LEMMA DeclFacts ==
    ASSUME TypeOK
    PROVE  /\ Valid(fileDecl)
           /\ \A d \in Decls :
                /\ d \in Nat
                /\ ChildDecls(d) \in Seq(Decls)
                /\ Len(ChildDecls(d)) \in Nat
                /\ \A i \in 1..Len(ChildDecls(d)) : ChildDecls(d)[i] \in Decls
                /\ MinOccurs(d) \in Nat
                /\ MaxOccurs(d) \in Nat
                /\ MaxEffective(d) \in Nat
                /\ MinOccurs(d) <= MaxOccurs(d)
                /\ MaxOccurs(d) <= MaxEffective(d)
                /\ 1 <= MaxEffective(d)
                /\ fileDecl.format[d].rows \in Nat
<1>1. fileDecl \in FileDecls /\ Valid(fileDecl) /\ Decls \subseteq Nat
  BY SchemaAssumption DEF TypeOK
<1>2. SUFFICES ASSUME NEW d \in Decls
               PROVE  /\ d \in Nat
                      /\ ChildDecls(d) \in Seq(Decls)
                      /\ Len(ChildDecls(d)) \in Nat
                      /\ \A i \in 1..Len(ChildDecls(d)) : ChildDecls(d)[i] \in Decls
                      /\ MinOccurs(d) \in Nat
                      /\ MaxOccurs(d) \in Nat
                      /\ MaxEffective(d) \in Nat
                      /\ MinOccurs(d) <= MaxOccurs(d)
                      /\ MaxOccurs(d) <= MaxEffective(d)
                      /\ 1 <= MaxEffective(d)
                      /\ fileDecl.format[d].rows \in Nat
  BY <1>1
<1>3. ChildDecls(d) \in Seq(Decls)
  BY <1>1 DEF FileDecls, ChildDecls
<1>4. MinOccurs(d) \in Nat /\ MaxOccurs(d) \in Nat /\ MinOccurs(d) <= MaxOccurs(d)
  BY <1>1 DEF FileDecls, MinOccurs, MaxOccurs, Valid
<1>5. fileDecl.format[d].rows \in Nat
  BY <1>1 DEF FileDecls
<1>6. Len(ChildDecls(d)) \in Nat /\ \A i \in 1..Len(ChildDecls(d)) : ChildDecls(d)[i] \in Decls
  BY <1>3, ElementOfSeq
<1>. QED BY <1>1, <1>3, <1>4, <1>5, <1>6 DEF MaxEffective

(* The children of a declaration are declared after it, and in order. *)
LEMMA ChildOrder ==
    ASSUME TypeOK, NEW d \in Decls
    PROVE  /\ \A i \in 1..Len(ChildDecls(d)) : d < ChildDecls(d)[i]
           /\ \A i \in 1..Len(ChildDecls(d)), j \in 1..Len(ChildDecls(d)) :
                 j < i => ChildDecls(d)[j] < ChildDecls(d)[i]
<1>1. Valid(fileDecl) /\ Len(ChildDecls(d)) \in Nat
      /\ d \in Nat /\ \A i \in 1..Len(ChildDecls(d)) : ChildDecls(d)[i] \in Nat
  BY DeclFacts
<1>2. \A i \in 1..Len(ChildDecls(d)) :
         /\ ChildDecls(d)[i] > d
         /\ \A j \in 1..(i-1) : ChildDecls(d)[j] < ChildDecls(d)[i]
  BY <1>1 DEF Valid, ChildDecls
<1>. QED BY <1>1, <1>2

(* A live node has an ID that was given out, and typed fields. *)
LEMMA NodeFacts ==
    ASSUME TypeOK, NEW n \in DOMAIN nodes
    PROVE  /\ n \in Nat /\ n >= 1 /\ n <= lastID /\ lastID \in Nat
           /\ nodes[n].decl \in Decls
           /\ nodes[n].parent \in Nat
           /\ nodes[n].path \in SUBSET Nat
           /\ nodes[n].from \in Nat
           /\ nodes[n].kids \in [Decls -> Nat]
<1>1. nodes[n] \in NodeRecs /\ lastID \in Nat /\ n \in 1..lastID
  BY DEF TypeOK
<1>. QED BY <1>1 DEF NodeRecs

-----------------------------------------------------------------------------
(* The initial state. *)

(* A freshly pushed stack entry is well-typed. *)
LEMMA InitEntry == ASSUME NEW d \in Decls PROVE Entry(d) \in Entries
  BY DEF Entry, Entries, Nil

(* A new reader satisfies the inductive invariant. *)
LEMMA InitInv == Init => IInv
<1>. SUFFICES ASSUME Init PROVE IInv
  OBVIOUS
<1>. USE DEF Nil
<1>. DEFINE root == [Entry(Root) EXCEPT !.node = 1]
<1>1. /\ fileDecl \in Schemas /\ lines \in Inputs /\ tail \in Tails
      /\ fileDecl \in FileDecls /\ Valid(fileDecl)
      /\ Decls \subseteq Nat /\ Root \in Decls
  BY SchemaAssumption DEF Init
<1>2. ChildDecls(Root) \in Seq(Decls)
  BY <1>1 DEF FileDecls, ChildDecls
<1>3. /\ root \in Entries
      /\ root.decl = Root /\ root.node = 1 /\ root.curChild = 1 /\ root.occurred = 0
  BY <1>1 DEF Entry, Entries
<1>4. /\ pos = 0 /\ target = 0 /\ lastID = 1 /\ pc = "idle" /\ caller = "Read"
      /\ reply = [res |-> "none", node |-> 0] /\ delivered = <<>>
  BY DEF Init
<1>. DEFINE rec == [decl |-> Root, parent |-> 0, path |-> {1}, from |-> 0,
                    kids |-> NoKids]
<1>5. nodes = [n \in {1} |-> rec]
  BY DEF Init
<1>6. rec \in NodeRecs /\ rec.decl = Root /\ rec.path = {1} /\ rec.parent = 0
      /\ rec.kids = NoKids
  BY <1>1 DEF NodeRecs, NoKids
<1>7. /\ DOMAIN nodes = {1} /\ nodes[1] = rec
  BY <1>5
<1>8. \A c \in Decls : nodes[1].kids[c] = 0
  BY <1>6, <1>7 DEF NoKids
<1>. HIDE DEF rec, root
<1>9. TypeOK /\ \/ stack = <<root>> /\ ChildDecls(Root) = <<>>
                \/ /\ ChildDecls(Root) # <<>>
                   /\ ChildDecls(Root)[1] \in Decls
                   /\ Len(ChildDecls(Root)) >= 1
                   /\ stack = <<root, Entry(ChildDecls(Root)[1])>>
  <2>1. stack \in Seq(Entries) /\ stack # <<>>
        /\ \/ stack = <<root>> /\ ChildDecls(Root) = <<>>
           \/ /\ ChildDecls(Root) # <<>>
              /\ ChildDecls(Root)[1] \in Decls
              /\ Len(ChildDecls(Root)) >= 1
              /\ stack = <<root, Entry(ChildDecls(Root)[1])>>
    <3>1. CASE ChildDecls(Root) = <<>>
      <4>1. stack = <<root>>
        BY <3>1 DEF Init, root
      <4>. QED BY <4>1, <3>1, <1>3
    <3>2. CASE ChildDecls(Root) # <<>>
      <4>1. stack = <<root, Entry(ChildDecls(Root)[1])>>
        BY <3>2 DEF Init, root
      <4>2. ChildDecls(Root)[1] \in Decls /\ Len(ChildDecls(Root)) >= 1
        BY <3>2, <1>2, EmptySeq, ElementOfSeq
      <4>3. Entry(ChildDecls(Root)[1]) \in Entries
        BY <4>2, InitEntry
      <4>. QED BY <4>1, <4>2, <4>3, <3>2, <1>3
    <3>. QED BY <3>1, <3>2
  <2>2. delivered \in Seq(Nat \X Nat) /\ reply \in [res : Results, node : {1} \cup {0}]
    BY <1>4 DEF Results
  <2>3. \A n \in DOMAIN nodes : nodes[n] \in NodeRecs
    BY <1>6, <1>7
  <2>. QED BY <1>1, <1>4, <1>7, <2>1, <2>2, <2>3 DEF TypeOK
<1>10. CallInv
  BY <1>4 DEF CallInv
<1>11. TreeInv
  BY <1>6, <1>7 DEF TreeInv
<1>12. TargetInv
  BY <1>4 DEF TargetInv
<1>13. CASE stack = <<root>> /\ ChildDecls(Root) = <<>>
  <2>1. Len(stack) = 1 /\ Top = root /\ stack[1] = root
    BY <1>13 DEF Top
  <2>2. ~Open(1) /\ pc = "idle"
    BY <1>4, <2>1 DEF Open
  <2>3. StackInv
    BY <2>1, <2>2, <1>3 DEF StackInv
  <2>4. OccurredInv
    BY <2>1, <1>4 DEF OccurredInv, RecDoneNeverFails
  <2>5. ChainInv
    BY <2>1, <2>2 DEF ChainInv
  <2>6. KidsInv
    BY <2>1, <2>2, <1>6, <1>7, <1>13 DEF KidsInv, AllKidsInRange
  <2>. QED BY <1>9, <1>10, <1>11, <1>12, <2>3, <2>4, <2>5, <2>6 DEF IInv
<1>14. CASE /\ ChildDecls(Root) # <<>>
            /\ ChildDecls(Root)[1] \in Decls
            /\ Len(ChildDecls(Root)) >= 1
            /\ stack = <<root, Entry(ChildDecls(Root)[1])>>
  <2>. DEFINE c == ChildDecls(Root)[1]
  <2>1. /\ Len(stack) = 2 /\ Top = Entry(c) /\ stack[1] = root /\ stack[2] = Entry(c)
        /\ c \in Decls /\ Len(ChildDecls(Root)) \in Nat
    BY <1>14, <1>2 DEF Top
  <2>2. ~Open(2) /\ Open(1) /\ pc = "idle"
    BY <1>4, <2>1 DEF Open
  <2>3. /\ Entry(c).decl = c /\ Entry(c).curChild = 1 /\ Entry(c).occurred = 0
    BY DEF Entry
  <2>4. Root < c
    BY <1>1, <1>9, <1>14, <2>1, ChildOrder
  <2>. HIDE DEF c
  <2>5. \A i \in 1..Len(stack) : i = 1 \/ i = 2
    BY <2>1
  <2>6. StackInv
    BY <2>1, <2>2, <2>3, <2>4, <2>5, <1>3, <1>14 DEF StackInv, c
  <2>7. OccurredInv
    BY <2>1, <2>3, <1>4 DEF OccurredInv, RecDoneNeverFails
  <2>8. OpenNodes = {1}
    BY <2>1, <2>2, <2>5, <1>3 DEF OpenNodes
  <2>9. ChainInv
    <3>1. {stack[j].node : j \in 1..1} = {1}
      BY <2>1, <1>3
    <3>. QED BY <2>1, <2>2, <2>5, <1>3, <1>6, <1>7, <3>1 DEF ChainInv
  <2>10. KidsInv
    <3>1. \A j \in 1..Len(ChildDecls(Root)) : ChildDecls(Root)[j] \in Decls
      BY <1>2, ElementOfSeq
    <3>. QED BY <2>1, <2>2, <2>3, <2>8, <3>1, <1>3, <1>4, <1>7, <1>8
         DEF KidsInv, KidsCounted, Count, c
  <2>. QED BY <1>9, <1>10, <1>11, <1>12, <2>6, <2>7, <2>9, <2>10 DEF IInv
<1>. QED BY <1>9, <1>13, <1>14

-----------------------------------------------------------------------------
(***************************************************************************)
(* Steps that leave the stack and the tree alone and neither start nor end *)
(* in recDone preserve everything that is said of the stack and the tree.  *)
(***************************************************************************)
LEMMA Quiet ==
    ASSUME IInv,
           UNCHANGED <<fileDecl, lines, stack, target, nodes>>,
           pc # "recDone", pc' # "recDone"
    PROVE  StackInv' /\ TreeInv' /\ ChainInv' /\ TargetInv' /\ KidsInv'
<1>1. \A i \in 1..Len(stack) : Open(i)' <=> Open(i)
  BY DEF Open
<1>2. OpenNodes' = OpenNodes
  BY <1>1 DEF OpenNodes
<1>3. Len(stack) \in Nat /\ Len(stack) >= 1
  BY StackFacts DEF IInv
<1>4. StackInv'
  BY <1>1, <1>3 DEF IInv, StackInv, ChildDecls, Top
<1>5. TreeInv'
  BY DEF IInv, TreeInv
<1>6. ChainInv'
  BY <1>1 DEF IInv, ChainInv
<1>7. TargetInv'
  BY <1>2 DEF IInv, TargetInv, Target, PassesFilter
<1>8. KidsInv'
  <2>1. \A n, d : AllKidsInRange(n, d)' <=> AllKidsInRange(n, d)
    BY DEF AllKidsInRange, KidsInRange, ChildDecls, MinOccurs, MaxOccurs, MaxEffective
  <2>2. \A n, e, k : KidsCounted(n, e, k)' <=> KidsCounted(n, e, k)
    BY DEF KidsCounted, KidsInRange, ChildDecls, MinOccurs, MaxOccurs, MaxEffective
  <2>3. \A i \in 1..(Len(stack) - 1) : Count(i+1)' = Count(i+1)
    BY <1>1, <1>3 DEF Count
  <2>4. \A i \in 1..(Len(stack) - 1) :
           KidsCounted(stack[i].node, stack[i], Count(i+1))'
    BY <2>2, <2>3 DEF IInv, KidsInv
  <2>5. \A n \in (DOMAIN nodes \ OpenNodes)' : AllKidsInRange(n, nodes[n].decl)'
    BY <2>1, <1>2 DEF IInv, KidsInv
  <2>. QED BY <2>4, <2>5 DEF KidsInv
<1>. QED BY <1>4, <1>5, <1>6, <1>7, <1>8

(* The steps of Read() that touch neither stack nor tree keep the invariant. *)
LEMMA QuietStep ==
    ASSUME IInv,
           \/ ReturnTarget \/ MoreUnprocessedDataFails \/ NoMoreData
           \/ UnexpectedData \/ ReadRecFails \/ ReadRecNoMatch
           \/ RecNextFails \/ RecNextRoot
    PROVE  IInv'
<1>. USE DEF Nil
<1>1. /\ TypeOK /\ CallInv /\ OccurredInv /\ TargetInv
      /\ Len(stack) \in Nat /\ Len(stack) >= 1
  BY StackFacts DEF IInv
<1>2. UNCHANGED <<src, pos, stack, target, nodes, lastID>> /\ pc # "recDone"
  BY DEF ReturnTarget, MoreUnprocessedDataFails, NoMoreData, UnexpectedData,
         ReadRecFails, ReadRecNoMatch, RecNextFails, RecNextRoot, AtLoop, AtRecord
<1>3. UNCHANGED <<fileDecl, lines, tail>>
  BY <1>2 DEF src
<1>4. (\A d : MaxEffective(d)' = MaxEffective(d) /\ MaxOccurs(d)' = MaxOccurs(d))
      /\ TooFew' = TooFew /\ Top' = Top
  BY <1>2, <1>3 DEF MaxEffective, MaxOccurs, TooFew, Top, MinOccurs
<1>5. TypeOK' /\ CallInv' /\ OccurredInv' /\ pc' # "recDone"
  <2>1. CASE ReturnTarget
    <3>1. /\ pc' = "idle" /\ caller' = caller /\ target # 0
          /\ reply' = [res |-> "node", node |-> target]
          /\ delivered' = Append(delivered, <<nodes[target].from, pos>>)
      BY <2>1 DEF ReturnTarget
    <3>2. target \in DOMAIN nodes
      BY <1>1, <3>1 DEF TypeOK
    <3>3. <<nodes[target].from, pos>> \in Nat \X Nat
      BY <1>1, <3>2, NodeFacts DEF TypeOK
    <3>4. delivered' \in Seq(Nat \X Nat)
      BY <1>1, <3>1, <3>3 DEF TypeOK
    <3>5. TypeOK'
      BY <1>1, <1>2, <1>3, <3>1, <3>2, <3>4 DEF TypeOK, Results
    <3>6. CallInv'
      BY <3>1, <1>2 DEF CallInv
    <3>7. OccurredInv'
      BY <3>1, <1>1, <1>2, <1>4, <2>1 DEF OccurredInv, RecDoneNeverFails, Open, ReturnTarget
    <3>. QED BY <3>1, <3>5, <3>6, <3>7
  <2>2. CASE MoreUnprocessedDataFails \/ UnexpectedData \/ ReadRecFails
    <3>1. /\ pc' = "idle" /\ caller' = caller /\ pc = "loop" /\ target = 0
          /\ delivered' = delivered
          /\ \E r \in Results : reply' = [res |-> r, node |-> 0]
      BY <2>2 DEF MoreUnprocessedDataFails, UnexpectedData, ReadRecFails, Return,
                  AtRecord, AtLoop, Results
    <3>2. TypeOK'
      BY <1>1, <1>2, <1>3, <3>1 DEF TypeOK
    <3>3. CallInv'
      BY <3>1, <1>2 DEF CallInv
    <3>4. OccurredInv'
      BY <3>1, <1>1, <1>2, <1>4 DEF OccurredInv, RecDoneNeverFails, Open
    <3>. QED BY <3>1, <3>2, <3>3, <3>4
  <2>3. CASE NoMoreData \/ ReadRecNoMatch
    <3>1. /\ pc = "loop" /\ target = 0 /\ delivered' = delivered
          /\ \/ pc' = "idle" /\ caller' = caller /\ reply' = [res |-> "EOF", node |-> 0]
             \/ pc' = "recNext" /\ caller' = "Read" /\ reply' = reply
      BY <2>3 DEF NoMoreData, ReadRecNoMatch, Return, AtRecord, AtLoop, CallRecNext
    <3>2. TypeOK'
      BY <1>1, <1>2, <1>3, <3>1 DEF TypeOK, Results
    <3>3. CallInv'
      BY <1>1, <3>1, <1>2 DEF CallInv
    <3>4. Len(stack) > 1 => Top.occurred <= MaxEffective(Top.decl)
      <4>1. SUFFICES ASSUME Len(stack) > 1 PROVE Top.occurred <= MaxEffective(Top.decl)
        OBVIOUS
      <4>2. Top.occurred = 0 \/ Top.occurred < MaxOccurs(Top.decl)
        BY <1>1, <3>1, <4>1 DEF OccurredInv, Top
      <4>3. Top.decl \in Decls /\ Top.occurred \in Nat
        BY <1>1, StackFacts DEF Top
      <4>. QED BY <1>1, <4>2, <4>3, DeclFacts
    <3>5. OccurredInv'
      BY <3>1, <3>4, <1>1, <1>2, <1>4 DEF OccurredInv, RecDoneNeverFails, Open
    <3>. QED BY <3>1, <3>2, <3>3, <3>5
  <2>4. CASE RecNextFails
    <3>1. caller = "Read"
      BY <2>4, <1>1 DEF RecNextFails, OccurredInv, RecDoneNeverFails, TypeOK
    <3>2. /\ pc' = "idle" /\ caller' = caller /\ delivered' = delivered
          /\ reply' = [res |-> "fewer", node |-> 0]
      BY <2>4, <3>1 DEF RecNextFails, Return
    <3>3. TypeOK'
      BY <1>1, <1>2, <1>3, <3>2 DEF TypeOK, Results
    <3>4. CallInv'
      BY <3>2, <1>2 DEF CallInv
    <3>5. Top.occurred < MaxOccurs(Top.decl)
      <4>1. Top.decl \in Decls /\ Top.occurred \in Nat
        BY <1>1, StackFacts DEF Top
      <4>2. Top.occurred < MinOccurs(Top.decl)
        BY <2>4 DEF RecNextFails, TooFew
      <4>. QED BY <1>1, <4>1, <4>2, DeclFacts
    <3>6. \A i \in 1..Len(stack) : i = Len(stack) \/ Open(i)
      BY <1>1 DEF Open
    <3>7. OccurredInv'
      BY <3>2, <3>5, <3>6, <1>1, <1>2, <1>4 DEF OccurredInv, RecDoneNeverFails, Top
    <3>. QED BY <3>2, <3>3, <3>4, <3>7
  <2>5. CASE RecNextRoot
    <3>1. /\ pc = "recNext" /\ pc' = "loop" /\ caller' = caller /\ reply' = reply
          /\ delivered' = delivered /\ Len(stack) = 1
      <4>1. /\ pc = "recNext" /\ pc' = "loop" /\ caller' = caller /\ reply' = reply
            /\ delivered' = delivered /\ Len(stack) <= 1
        BY <2>5 DEF RecNextRoot
      <4>2. Len(stack) = 1
        BY <1>1, <4>1
      <4>. QED BY <4>1, <4>2
    <3>2. TypeOK'
      BY <1>1, <1>2, <1>3, <3>1 DEF TypeOK
    <3>3. CallInv'
      BY <3>1, <1>1, <1>2 DEF CallInv
    <3>4. OccurredInv'
      <4>1. stack' = stack /\ pc' # "recNext" /\ 2..Len(stack) = {}
        BY <3>1, <1>2
      <4>. QED BY <4>1 DEF OccurredInv, RecDoneNeverFails
    <3>. QED BY <3>1, <3>2, <3>3, <3>4
  <2>. QED BY <2>1, <2>2, <2>3, <2>4, <2>5
<1>. QED BY <1>2, <1>3, <1>5, Quiet DEF IInv

-----------------------------------------------------------------------------
(* Releasing a subtree that is not the whole tree leaves a tree behind. *)
LEMMA ReleaseTree ==
    ASSUME TypeOK, TreeInv, NEW t \in Nat, t # 1, nodes' = Released(t)
    PROVE  /\ DOMAIN nodes' \subseteq DOMAIN nodes
           /\ \A m \in DOMAIN nodes : t \notin nodes[m].path => m \in DOMAIN nodes'
           /\ \A m \in DOMAIN nodes' : nodes'[m] = nodes[m] /\ nodes'[m] \in NodeRecs
           /\ t \notin DOMAIN nodes'
           /\ TreeInv'
<1>1. nodes' = [m \in DOMAIN nodes \ Subtree(t) |-> nodes[m]]
  BY DEF Released, Restrict
<1>2. /\ DOMAIN nodes' = DOMAIN nodes \ Subtree(t)
      /\ \A m \in DOMAIN nodes' : nodes'[m] = nodes[m] /\ nodes'[m] \in NodeRecs
  BY <1>1 DEF TypeOK
<1>3. \A m \in DOMAIN nodes : m \in DOMAIN nodes' <=> t \notin nodes[m].path
  BY <1>2 DEF Subtree
<1>4. 1 \in DOMAIN nodes'
  BY <1>3 DEF TreeInv
<1>5. ASSUME NEW n \in DOMAIN nodes' \ {1}
      PROVE  /\ nodes[n].parent \in DOMAIN nodes'
             /\ n \in DOMAIN nodes
             /\ nodes[n].parent < n
             /\ nodes[n].path = nodes[nodes[n].parent].path \cup {n}
  <2>1. /\ n \in DOMAIN nodes /\ nodes[n].parent \in DOMAIN nodes
        /\ nodes[n].parent < n
        /\ nodes[n].path = nodes[nodes[n].parent].path \cup {n}
    BY <1>2 DEF TreeInv
  <2>2. t \notin nodes[n].path
    BY <1>3, <2>1
  <2>. QED BY <1>3, <2>1, <2>2
<1>6. TreeInv'
  BY <1>2, <1>4, <1>5 DEF TreeInv
<1>7. t \notin DOMAIN nodes'
  <2>1. \A m \in DOMAIN nodes : m \in nodes[m].path
    BY DEF TreeInv
  <2>. QED BY <1>2, <1>3, <2>1
<1>. QED BY <1>2, <1>3, <1>6, <1>7

(* A release outside the open chain disturbs nothing that is said of the stack. *)
LEMMA ReleaseStep ==
    ASSUME IInv, Release \/ Read
    PROVE  IInv'
<1>. USE DEF Nil
<1>1. /\ TypeOK /\ CallInv /\ StackInv /\ OccurredInv /\ TreeInv /\ ChainInv
      /\ TargetInv /\ KidsInv /\ Len(stack) \in Nat /\ Len(stack) >= 1
  BY StackFacts DEF IInv
<1>2. /\ UNCHANGED <<fileDecl, lines, tail, pos, stack, lastID, caller, delivered>>
      /\ pc = "idle" /\ pc' \in {"idle", "loop"} /\ target' = 0
      /\ reply' = [reply EXCEPT !.node = 0]
      /\ \/ target # 0 /\ nodes' = Released(target)
         \/ nodes' = nodes
  <2>1. CASE Release
    BY <2>1, <1>1 DEF Release, CallInv, src
  <2>2. CASE Read
    BY <2>2 DEF Read, src
  <2>. QED BY <2>1, <2>2
<1>3. /\ \A i \in 1..Len(stack) : Open(i)' <=> Open(i)
      /\ OpenNodes' = OpenNodes
  BY <1>2 DEF Open, OpenNodes
<1>4. /\ DOMAIN nodes' \subseteq DOMAIN nodes
      /\ \A n \in OpenNodes : n \in DOMAIN nodes'
      /\ \A m \in DOMAIN nodes' : nodes'[m] = nodes[m] /\ nodes'[m] \in NodeRecs
      /\ TreeInv'
  <2>1. CASE target # 0 /\ nodes' = Released(target)
    <3>1. target \in DOMAIN nodes /\ Target(nodes[target].decl) /\ target \notin OpenNodes
      BY <2>1, <1>1 DEF TypeOK, TargetInv
    <3>2. target # 1
      BY <3>1, <1>1, DeclFacts DEF TreeInv, Target, Valid
    <3>3. target \in Nat
      BY <3>1, <1>1, NodeFacts
    <3>4. ASSUME NEW n \in OpenNodes PROVE n \in DOMAIN nodes /\ target \notin nodes[n].path
      <4>1. PICK i \in 1..Len(stack) : Open(i) /\ n = stack[i].node
        BY DEF OpenNodes
      <4>2. n \in DOMAIN nodes /\ nodes[n].path = {stack[j].node : j \in 1..i}
        BY <4>1, <1>1 DEF ChainInv
      <4>3. ASSUME NEW j \in 1..i PROVE stack[j].node \in OpenNodes
        <5>1. j \in 1..Len(stack) /\ Open(j)
          BY <4>1, <1>1 DEF Open
        <5>. QED BY <5>1 DEF OpenNodes
      <4>. QED BY <4>2, <4>3, <3>1
    <3>. QED BY <2>1, <3>2, <3>3, <3>4, <1>1, ReleaseTree
  <2>2. CASE nodes' = nodes
    <3>1. TreeInv'
      BY <2>2, <1>1 DEF TreeInv
    <3>2. \A n \in OpenNodes : n \in DOMAIN nodes
      BY <1>1 DEF OpenNodes, ChainInv
    <3>. QED BY <2>2, <3>1, <3>2, <1>1 DEF TypeOK
  <2>. QED BY <1>2, <2>1, <2>2
<1>5. \A i \in 1..Len(stack) : Open(i) => stack[i].node \in OpenNodes
  BY DEF OpenNodes
<1>6. TypeOK'
  <2>1. \A n \in DOMAIN nodes' : nodes'[n] \in NodeRecs
    BY <1>4
  <2>2. reply' \in [res : Results, node : {0}]
    BY <1>1, <1>2 DEF TypeOK
  <2>. QED BY <1>1, <1>2, <1>4, <2>1, <2>2 DEF TypeOK
<1>7. CallInv'
  BY <1>1, <1>2 DEF CallInv, TypeOK
<1>8. StackInv'
  BY <1>1, <1>2, <1>3 DEF StackInv, ChildDecls, Top
<1>9. OccurredInv'
  BY <1>1, <1>2, <1>3 DEF OccurredInv, MaxOccurs, RecDoneNeverFails
<1>10. ChainInv'
  BY <1>1, <1>2, <1>3, <1>4, <1>5 DEF ChainInv
<1>11. TargetInv'
  BY <1>2 DEF TargetInv
<1>12. KidsInv'
  <2>1. \A n \in DOMAIN nodes' : \A c : KidsInRange(n, c)' <=> KidsInRange(n, c)
    BY <1>2, <1>4 DEF KidsInRange, MinOccurs, MaxOccurs, MaxEffective
  <2>2. \A d : ChildDecls(d)' = ChildDecls(d)
    BY <1>2 DEF ChildDecls
  <2>3. \A n \in DOMAIN nodes' : \A d : AllKidsInRange(n, d)' <=> AllKidsInRange(n, d)
    BY <2>1, <2>2 DEF AllKidsInRange
  <2>4. \A n \in DOMAIN nodes' : \A e, k : KidsCounted(n, e, k)' <=> KidsCounted(n, e, k)
    BY <1>4, <2>1, <2>2 DEF KidsCounted
  <2>5. \A i \in 1..(Len(stack) - 1) : Count(i+1)' = Count(i+1) /\ Open(i)
    <3>1. \A i \in 1..(Len(stack) - 1) : Count(i+1)' = Count(i+1)
      BY <1>2, <1>3 DEF Count, Open
    <3>2. \A i \in 1..(Len(stack) - 1) : Open(i)
      BY <1>1 DEF Open
    <3>. QED BY <3>1, <3>2
  <2>6. \A i \in 1..(Len(stack) - 1) :
           KidsCounted(stack[i].node, stack[i], Count(i+1))'
    BY <2>4, <2>5, <1>1, <1>2, <1>4, <1>5 DEF KidsInv
  <2>7. \A n \in (DOMAIN nodes \ OpenNodes)' : AllKidsInRange(n, nodes[n].decl)'
    BY <2>3, <1>1, <1>3, <1>4 DEF KidsInv
  <2>. QED BY <2>6, <2>7, <1>2 DEF KidsInv
<1>. QED BY <1>4, <1>6, <1>7, <1>8, <1>9, <1>10, <1>11, <1>12 DEF IInv

-----------------------------------------------------------------------------
(* A new node is the child of a live one. *)
LEMMA GrowTree ==
    ASSUME TypeOK, TreeInv, NEW d \in Decls, NEW p \in DOMAIN nodes,
           NEW n, n = lastID + 1, lastID' = n, nodes' = WithChild(n, d, p)
    PROVE  /\ n \in Nat /\ n \notin DOMAIN nodes /\ n # p
           /\ DOMAIN nodes' = DOMAIN nodes \cup {n}
           /\ DOMAIN nodes' \subseteq 1..lastID'
           /\ \A m \in DOMAIN nodes' : nodes'[m] \in NodeRecs
           /\ \A m \in DOMAIN nodes :
                 /\ nodes'[m].decl = nodes[m].decl
                 /\ nodes'[m].parent = nodes[m].parent
                 /\ nodes'[m].path = nodes[m].path
                 /\ nodes'[m].from = nodes[m].from
                 /\ m # p => nodes'[m].kids = nodes[m].kids
           /\ nodes'[n].decl = d
           /\ nodes'[n].parent = p
           /\ nodes'[n].path = nodes[p].path \cup {n}
           /\ \A c \in Decls : nodes'[n].kids[c] = 0
           /\ nodes'[p].kids[d] = nodes[p].kids[d] + 1
           /\ \A c \in Decls \ {d} : nodes'[p].kids[c] = nodes[p].kids[c]
           /\ TreeInv'
<1>1. n \in Nat /\ n >= 1 /\ n \notin DOMAIN nodes /\ n # p /\ p < n
      /\ DOMAIN nodes \subseteq 1..n /\ 1 \in DOMAIN nodes
      /\ p \in Nat
  BY DEF TypeOK, TreeInv
<1>2. /\ DOMAIN nodes' = DOMAIN nodes \cup {n}
      /\ nodes'[n] = NewNode(n, d, p)
      /\ nodes'[p] = [nodes[p] EXCEPT !.kids[d] = @ + 1]
      /\ \A m \in DOMAIN nodes : m # p => nodes'[m] = nodes[m]
  BY <1>1 DEF WithChild
<1>3. /\ nodes[p] \in NodeRecs /\ nodes[p].kids \in [Decls -> Nat]
      /\ nodes[p].path \in SUBSET Nat /\ pos \in Nat
  BY NodeFacts DEF TypeOK
<1>4. /\ nodes'[n] \in NodeRecs
      /\ nodes'[n].decl = d /\ nodes'[n].parent = p
      /\ nodes'[n].path = nodes[p].path \cup {n}
      /\ nodes'[n].kids = NoKids
  BY <1>1, <1>2, <1>3 DEF NewNode, NodeRecs, NoKids
<1>5. /\ nodes'[p] \in NodeRecs
      /\ nodes'[p].decl = nodes[p].decl /\ nodes'[p].parent = nodes[p].parent
      /\ nodes'[p].path = nodes[p].path /\ nodes'[p].from = nodes[p].from
      /\ nodes'[p].kids[d] = nodes[p].kids[d] + 1
      /\ \A c \in Decls \ {d} : nodes'[p].kids[c] = nodes[p].kids[c]
  BY <1>2, <1>3 DEF NodeRecs
<1>6. \A m \in DOMAIN nodes :
         /\ nodes'[m] \in NodeRecs
         /\ nodes'[m].decl = nodes[m].decl
         /\ nodes'[m].parent = nodes[m].parent
         /\ nodes'[m].path = nodes[m].path
         /\ nodes'[m].from = nodes[m].from
         /\ m # p => nodes'[m].kids = nodes[m].kids
  BY <1>2, <1>5 DEF TypeOK
<1>7. \A c \in Decls : nodes'[n].kids[c] = 0
  BY <1>4 DEF NoKids
<1>8. TreeInv'
  <2>1. 1 \in DOMAIN nodes' /\ nodes'[1].decl = Root /\ nodes'[1].path = {1}
    BY <1>1, <1>2, <1>6 DEF TreeInv
  <2>2. ASSUME NEW m \in DOMAIN nodes' \ {1}
        PROVE  /\ nodes'[m].parent \in DOMAIN nodes'
               /\ nodes'[m].parent < m
               /\ nodes'[m].path = nodes'[nodes'[m].parent].path \cup {m}
    <3>1. CASE m = n
      BY <3>1, <1>1, <1>2, <1>4, <1>6
    <3>2. CASE m # n
      BY <3>2, <1>2, <1>6 DEF TreeInv
    <3>. QED BY <3>1, <3>2
  <2>. QED BY <2>1, <2>2 DEF TreeInv
<1>9. DOMAIN nodes' \subseteq 1..lastID' /\ \A m \in DOMAIN nodes' : nodes'[m] \in NodeRecs
  BY <1>1, <1>2, <1>4, <1>6
<1>. QED BY <1>1, <1>2, <1>4, <1>5, <1>6, <1>7, <1>8, <1>9

(* A record takes a number of lines. *)
LEMMA MatchedLinesType ==
    ASSUME NEW f, f.rows \in Nat, NEW rest, Len(rest) \in Nat
    PROVE  MatchedLines(f, rest) \in Nat
<1>. DEFINE ends == FooterLines(f, rest)
<1>1. CASE ends # {}
  <2>1. ends \in SUBSET Nat
    BY DEF FooterLines
  <2>2. Min(ends) \in ends
    BY <1>1, <2>1, MinFacts
  <2>. QED BY <2>1, <2>2 DEF MatchedLines, RowsBased
<1>2. CASE ends = {}
  BY <1>2 DEF MatchedLines, RowsBased
<1>. QED BY <1>1, <1>2

(***************************************************************************)
(* A matched record keeps the invariant: its node hangs below the parent   *)
(* entry's node, which counts it, and it becomes the innermost open node.  *)
(***************************************************************************)
LEMMA MatchStep ==
    ASSUME IInv, ReadRecMatch
    PROVE  IInv'
<1>. USE DEF Nil
<1>. DEFINE L == Len(stack)
            d == Top.decl
            n == lastID + 1
            p == StackTop1.node
            e == [Top EXCEPT !.node = n]
            matched == [stack EXCEPT ![L] = e]
            c == ChildDecls(d)[1]
<1>1. /\ TypeOK /\ CallInv /\ StackInv /\ OccurredInv /\ TreeInv /\ ChainInv
      /\ TargetInv /\ KidsInv /\ L \in Nat /\ L >= 1
  BY StackFacts DEF IInv
<1>2. /\ pc = "loop" /\ target = 0 /\ L > 1
      /\ UNCHANGED <<fileDecl, lines, tail, target, caller, reply, delivered>>
      /\ pos' = IF Group(d) THEN pos ELSE pos + MatchedLines(FormatOf(d), Rest)
      /\ MatchedLines(FormatOf(d), Rest) > 0
      /\ lastID' = n /\ nodes' = WithChild(n, d, p)
      /\ \/ /\ ChildDecls(d) # <<>> /\ pc' = "loop"
            /\ stack' = Append(matched, Entry(c))
         \/ /\ ChildDecls(d) = <<>> /\ pc' = "recDone"
            /\ stack' = matched
  BY DEF ReadRecMatch, AtRecord, AtLoop, src, Top
<1>3. /\ Top \in Entries /\ d \in Decls /\ Top.node \in Nat /\ Top.curChild = 1
      /\ Top.occurred \in Nat /\ Top = stack[L] /\ StackTop1 = stack[L-1]
      /\ ~Open(L) /\ Open(L-1) /\ L \in 1..L /\ L-1 \in 1..L
  BY <1>1, <1>2, StackFacts DEF Top, StackTop1, Open, StackInv
<1>4. /\ p \in DOMAIN nodes
      /\ nodes[p].decl = StackTop1.decl
      /\ nodes[p].path = {stack[j].node : j \in 1..(L-1)}
  BY <1>1, <1>3 DEF ChainInv
<1>. HIDE DEF L, d, n, p
<1>5. /\ n \in Nat /\ n # 0 /\ n \notin DOMAIN nodes /\ n # p
      /\ DOMAIN nodes' = DOMAIN nodes \cup {n}
      /\ DOMAIN nodes' \subseteq 1..lastID' /\ lastID' \in Nat \ {0}
      /\ \A m \in DOMAIN nodes' : nodes'[m] \in NodeRecs
      /\ \A m \in DOMAIN nodes :
            /\ nodes'[m].decl = nodes[m].decl
            /\ nodes'[m].parent = nodes[m].parent
            /\ nodes'[m].path = nodes[m].path
            /\ nodes'[m].from = nodes[m].from
            /\ m # p => nodes'[m].kids = nodes[m].kids
      /\ nodes'[n].decl = d
      /\ nodes'[n].parent = p
      /\ nodes'[n].path = nodes[p].path \cup {n}
      /\ \A k \in Decls : nodes'[n].kids[k] = 0
      /\ nodes'[p].kids[d] = nodes[p].kids[d] + 1
      /\ \A k \in Decls \ {d} : nodes'[p].kids[k] = nodes[p].kids[k]
      /\ TreeInv'
  <2>1. n # 0 /\ lastID' \in Nat \ {0}
    BY <1>1, <1>2 DEF n, TypeOK
  <2>2. n = lastID + 1 /\ lastID' = n /\ nodes' = WithChild(n, d, p)
    BY <1>2 DEF n
  <2>3. TypeOK /\ TreeInv /\ d \in Decls /\ p \in DOMAIN nodes
    BY <1>1, <1>3, <1>4
  <2>. QED BY <2>1, <2>2, <2>3, GrowTree
<1>6. /\ e \in Entries /\ e.decl = d /\ e.node = n /\ e.curChild = 1
      /\ e.occurred = Top.occurred
  BY <1>3, <1>5 DEF Entries, d
<1>. HIDE DEF e
<1>7. /\ matched \in Seq(Entries) /\ Len(matched) = L /\ matched # <<>>
      /\ matched[L] = e
      /\ \A i \in 1..(L-1) : matched[i] = stack[i]
  BY <1>1, <1>6, SetLastType DEF TypeOK, L
<1>. HIDE DEF matched
<1>8. ChildDecls(d) # <<>> =>
         /\ c \in Decls /\ d < c /\ Len(ChildDecls(d)) >= 1
         /\ Entry(c) \in Entries /\ Entry(c).decl = c /\ Entry(c).curChild = 1
         /\ Entry(c).occurred = 0
  <2>1. SUFFICES ASSUME ChildDecls(d) # <<>>
                 PROVE  /\ c \in Decls /\ d < c /\ Len(ChildDecls(d)) >= 1
                        /\ Entry(c) \in Entries /\ Entry(c).decl = c
                        /\ Entry(c).curChild = 1 /\ Entry(c).occurred = 0
    OBVIOUS
  <2>2. ChildDecls(d) \in Seq(Decls) /\ Len(ChildDecls(d)) \in Nat
    BY <1>1, <1>3, DeclFacts
  <2>3. Len(ChildDecls(d)) >= 1
    BY <2>1, <2>2, EmptySeq
  <2>4. c \in Decls /\ d < c
    <3>1. TypeOK /\ d \in Decls
      BY <1>1, <1>3
    <3>2. 1 \in 1..Len(ChildDecls(d))
      BY <2>2, <2>3
    <3>3. c \in Decls
      BY <3>1, <3>2, DeclFacts
    <3>4. d < c
      BY <3>1, <3>2, ChildOrder
    <3>. QED BY <3>3, <3>4
  <2>5. Entry(c) \in Entries
    BY <2>4, InitEntry
  <2>. QED BY <2>3, <2>4, <2>5 DEF Entry
<1>. HIDE DEF c
<1>9. /\ stack' \in Seq(Entries) /\ stack' # <<>>
      /\ \A i \in 1..L : stack'[i] = matched[i]
      /\ \/ /\ ChildDecls(d) # <<>> /\ pc' = "loop" /\ Len(stack') = L + 1
            /\ stack'[L+1] = Entry(c)
         \/ ChildDecls(d) = <<>> /\ pc' = "recDone" /\ Len(stack') = L
  <2>1. CASE ChildDecls(d) # <<>>
    BY <2>1, <1>1, <1>2, <1>7, <1>8, AppendProperties
  <2>2. CASE ChildDecls(d) = <<>>
    BY <2>2, <1>2, <1>7
  <2>. QED BY <2>1, <2>2
<1>10. /\ Len(stack') \in Nat /\ L <= Len(stack') /\ 1..L \subseteq 1..Len(stack')
       /\ \A i \in 1..L : Open(i)'
       /\ \A i \in 1..Len(stack') : i \in 1..L \/ (i = L+1 /\ ChildDecls(d) # <<>> /\ ~Open(i)')
       /\ \A i \in 1..Len(stack') : i = L+1 => ~Open(i)'
  <2>1. CASE ChildDecls(d) # <<>>
    <3>1. pc' = "loop" /\ Len(stack') = L + 1 /\ L \in Nat
      BY <2>1, <1>1, <1>9
    <3>2. \A i \in 1..(L+1) : Open(i)' <=> i < L + 1
      BY <3>1 DEF Open
    <3>3. \A i \in 1..Len(stack') : i \in 1..L \/ i = L + 1
      BY <3>1
    <3>. QED BY <3>1, <3>2, <3>3, <2>1
  <2>2. CASE ChildDecls(d) = <<>>
    <3>1. pc' = "recDone" /\ Len(stack') = L /\ L \in Nat
      BY <2>2, <1>1, <1>9
    <3>. QED BY <2>2, <3>1 DEF Open
  <2>. QED BY <2>1, <2>2
<1>11. \A i \in 1..L : i = L \/ (i \in 1..(L-1) /\ Open(i) /\ stack'[i] = stack[i])
  BY <1>1, <1>2, <1>7, <1>9 DEF Open, L
<1>12. stack'[L] = e
  BY <1>1, <1>7, <1>9
<1>13. OpenNodes' = OpenNodes \cup {n}
  <2>1. OpenNodes' = {stack'[i].node : i \in 1..L}
    BY <1>10 DEF OpenNodes
  <2>2. OpenNodes = {stack[i].node : i \in 1..(L-1)}
    <3>1. \A i \in 1..L : Open(i) <=> i \in 1..(L-1)
      BY <1>1, <1>3, <1>11
    <3>. QED BY <3>1, <1>1 DEF OpenNodes, L
  <2>3. {stack'[i].node : i \in 1..L} = {stack[i].node : i \in 1..(L-1)} \cup {n}
    BY <1>1, <1>3, <1>6, <1>11, <1>12
  <2>. QED BY <2>1, <2>2, <2>3
<1>14. /\ \A i \in 1..L : /\ stack'[i].decl = stack[i].decl
                         /\ stack'[i].curChild = stack[i].curChild
                         /\ stack'[i].occurred = stack[i].occurred
       /\ \A i \in 1..(L-1) : stack'[i].node = stack[i].node
       /\ stack'[L].node = n /\ stack[L].decl = d
  BY <1>3, <1>6, <1>11, <1>12 DEF d
<1>15. /\ \A x : ChildDecls(x)' = ChildDecls(x)
       /\ \A x : MinOccurs(x)' = MinOccurs(x) /\ MaxOccurs(x)' = MaxOccurs(x)
       /\ \A x : MaxEffective(x)' = MaxEffective(x)
  BY <1>2 DEF ChildDecls, MinOccurs, MaxOccurs, MaxEffective
<1>16. TypeOK'
  <2>1. pos' \in Nat
    <3>1. CASE Group(d)
      BY <3>1, <1>1, <1>2 DEF TypeOK
    <3>2. CASE ~Group(d)
      <4>1. FormatOf(d) = fileDecl.format[d]
        BY <3>2 DEF FormatOf, NonGroupDecl
      <4>2. fileDecl.format[d].rows \in Nat
        BY <1>1, <1>3, DeclFacts
      <4>3. lines \in Seq(Lines) /\ pos \in Nat
        BY <1>1, SchemaAssumption DEF TypeOK
      <4>4. Len(Rest) \in Nat
        BY <4>3 DEF Rest
      <4>5. MatchedLines(FormatOf(d), Rest) \in Nat
        BY <4>1, <4>2, <4>4, MatchedLinesType
      <4>. QED BY <4>3, <4>5, <3>2, <1>2
    <3>. QED BY <3>1, <3>2
  <2>2. pc' \in {"idle", "loop", "recDone", "recNext"}
    BY <1>9
  <2>3. reply' \in [res : Results, node : DOMAIN nodes' \cup {0}]
        /\ target' \in DOMAIN nodes' \cup {0}
    BY <1>1, <1>2, <1>5 DEF TypeOK
  <2>. QED BY <2>1, <2>2, <2>3, <1>1, <1>2, <1>5, <1>9 DEF TypeOK
<1>17. CallInv'
  BY <1>1, <1>2, <1>9 DEF CallInv
<1>18. StackInv'
  <2>1. stack'[1].decl = Root
    BY <1>1, <1>14 DEF StackInv
  <2>2. ASSUME NEW i \in 1..Len(stack'), NEW j \in 1..Len(stack'), i < j
        PROVE  stack'[i].decl < stack'[j].decl
    <3>1. CASE j \in 1..L
      <4>1. i \in 1..L
        BY <2>2, <3>1, <1>1
      <4>. QED BY <3>1, <4>1, <2>2, <1>1, <1>14 DEF StackInv, L
    <3>2. CASE j = L + 1 /\ ChildDecls(d) # <<>>
      <4>1. i \in 1..L /\ stack'[j].decl = c /\ d < c
        BY <2>2, <3>2, <1>1, <1>8, <1>9
      <4>2. stack[i].decl = d \/ stack[i].decl < d
        <5>1. stack[L].decl = d /\ Len(stack) = L
          BY <1>14 DEF L
        <5>2. i < L => stack[i].decl < stack[L].decl
          BY <5>1, <4>1, <1>1, <1>3 DEF StackInv
        <5>. QED BY <5>1, <5>2, <4>1, <1>1
      <4>3. stack[i].decl \in Nat /\ d \in Nat /\ c \in Nat
        BY <4>1, <3>2, <1>1, <1>3, <1>8, StackFacts, DeclFacts DEF L
      <4>. QED BY <4>1, <4>2, <4>3, <1>14
    <3>. QED BY <3>1, <3>2, <1>10
  <2>3. ASSUME NEW i \in 1..(Len(stack') - 1)
        PROVE  /\ stack'[i].curChild \in 1..Len(ChildDecls(stack'[i].decl))
               /\ stack'[i+1].decl = ChildDecls(stack'[i].decl)[stack'[i].curChild]
    <3>1. CASE i < L
      <4>1. i \in 1..(L-1) /\ i \in 1..L /\ i+1 \in 1..L
        BY <3>1, <1>1, <1>10
      <4>. QED BY <4>1, <1>1, <1>14 DEF StackInv, L
    <3>2. CASE i >= L
      <4>1. i = L /\ ChildDecls(d) # <<>> /\ stack'[L+1] = Entry(c) /\ L \in 1..L
        BY <3>2, <1>1, <1>9
      <4>2. stack'[L].curChild = 1 /\ stack'[L].decl = d
        BY <4>1, <1>6, <1>12
      <4>3. Len(ChildDecls(d)) \in Nat /\ 1 \in 1..Len(ChildDecls(d))
        BY <4>1, <1>1, <1>3, <1>8, DeclFacts
      <4>. QED BY <4>1, <4>2, <4>3, <1>8 DEF c
    <3>. QED BY <3>1, <3>2, <1>1, <1>10
  <2>4. pc' = "recDone" \/ stack'[Len(stack')].curChild = 1
    BY <1>8, <1>9
  <2>5. (~Open(Len(stack)) => Top.curChild = 1)'
    BY <2>4 DEF Open, Top
  <2>. QED BY <2>1, <2>2, <2>3, <2>5, <1>15 DEF StackInv
<1>19. OccurredInv'
  <2>1. ASSUME NEW i \in 2..Len(stack')
        PROVE  stack'[i].occurred = 0 \/ stack'[i].occurred < MaxOccurs(stack'[i].decl)
    <3>1. CASE i \in 1..L
      <4>1. i \in 2..Len(stack) /\ pc # "recNext"
        BY <3>1, <1>1, <1>2 DEF L
      <4>. QED BY <4>1, <3>1, <1>1, <1>14 DEF OccurredInv
    <3>2. CASE i = L + 1 /\ ChildDecls(d) # <<>>
      <4>1. stack'[i] = Entry(c)
        BY <3>2, <1>9
      <4>. QED BY <4>1, <3>2, <1>8
    <3>3. i \in 1..Len(stack')
      BY <1>10
    <3>. QED BY <3>1, <3>2, <3>3, <1>10
  <2>. QED BY <2>1, <1>9, <1>15 DEF OccurredInv, RecDoneNeverFails
<1>20. ChainInv'
  <2>1. ASSUME NEW i \in 1..Len(stack'), i \in 1..L
        PROVE  /\ stack'[i].node \in DOMAIN nodes'
               /\ nodes'[stack'[i].node].decl = stack'[i].decl
               /\ nodes'[stack'[i].node].parent = IF i = 1 THEN 0 ELSE stack'[i-1].node
               /\ nodes'[stack'[i].node].path = {stack'[j].node : j \in 1..i}
    <3>1. CASE i \in 1..(L-1) /\ Open(i)
      <4>1. /\ stack[i].node \in DOMAIN nodes
            /\ nodes[stack[i].node].decl = stack[i].decl
            /\ nodes[stack[i].node].parent = IF i = 1 THEN 0 ELSE stack[i-1].node
            /\ nodes[stack[i].node].path = {stack[j].node : j \in 1..i}
        BY <3>1, <2>1, <1>1 DEF ChainInv, L
      <4>2. \A j \in 1..i : stack'[j].node = stack[j].node
        BY <3>1, <1>1, <1>14
      <4>3. stack'[i].node = stack[i].node /\ (i # 1 => stack'[i-1].node = stack[i-1].node)
        BY <3>1, <1>1, <4>2
      <4>4. stack'[i].decl = stack[i].decl
        BY <2>1, <1>14
      <4>5. /\ stack'[i].node \in DOMAIN nodes'
            /\ nodes'[stack'[i].node].decl = stack'[i].decl
        BY <4>1, <4>3, <4>4, <1>5
      <4>6. nodes'[stack'[i].node].parent = IF i = 1 THEN 0 ELSE stack'[i-1].node
        BY <4>1, <4>3, <1>5
      <4>7. nodes'[stack'[i].node].path = {stack'[j].node : j \in 1..i}
        BY <4>1, <4>2, <4>3, <1>5
      <4>. QED BY <4>5, <4>6, <4>7
    <3>2. CASE i = L
      <4>1. stack'[L].node = n /\ stack'[L].decl = d
        BY <1>6, <1>12
      <4>2. stack'[L-1].node = p /\ L # 1
        BY <1>1, <1>2, <1>3, <1>14 DEF p
      <4>3. {stack[j].node : j \in 1..(L-1)} \cup {n} = {stack'[j].node : j \in 1..L}
        BY <1>1, <1>14, <4>1
      <4>. QED BY <4>1, <4>2, <4>3, <3>2, <1>4, <1>5
    <3>. QED BY <2>1, <3>1, <3>2, <1>11
  <2>2. \A i \in 1..Len(stack') : Open(i)' => i \in 1..L
    BY <1>10
  <2>. QED BY <2>1, <2>2 DEF ChainInv
<1>21. TargetInv'
  BY <1>2 DEF TargetInv
<1>22. KidsInv'
  <2>1. \A i \in 1..(L-2) : stack[i].node # p /\ stack[i].node \in DOMAIN nodes
    <3>1. SUFFICES ASSUME NEW i \in 1..(L-2)
                   PROVE  stack[i].node # p /\ stack[i].node \in DOMAIN nodes
      OBVIOUS
    <3>2. i \in 1..Len(stack) /\ L-1 \in 1..Len(stack) /\ i < L-1 /\ Open(i)
      BY <1>1, <1>2 DEF L, Open
    <3>3. stack[i].node \in DOMAIN nodes /\ nodes[stack[i].node].decl = stack[i].decl
      BY <3>2, <1>1 DEF ChainInv
    <3>4. stack[i].decl < stack[L-1].decl
      BY <3>2, <1>1 DEF StackInv
    <3>5. stack[i].decl \in Nat /\ stack[L-1].decl \in Nat
      BY <3>2, <1>1, StackFacts, DeclFacts
    <3>. QED BY <3>3, <3>4, <3>5, <1>3, <1>4
  <2>2. ASSUME NEW i \in 1..(Len(stack') - 1)
        PROVE  KidsCounted(stack[i].node, stack[i], Count(i+1))'
    <3>1. CASE i \in 1..(L-2)
      <4>1. KidsCounted(stack[i].node, stack[i], Count(i+1))
        BY <3>1, <1>1, <1>2 DEF KidsInv, L
      <4>2. Count(i+1)' = Count(i+1)
        <5>1. Open(i+1) /\ Open(i+1)'
          BY <3>1, <1>1, <1>2, <1>10, <1>11
        <5>2. stack'[i+1].occurred = stack[i+1].occurred
          BY <3>1, <1>1, <1>14
        <5>. QED BY <5>1, <5>2 DEF Count
      <4>3. /\ stack'[i].node = stack[i].node /\ stack'[i].decl = stack[i].decl
            /\ stack'[i].curChild = stack[i].curChild
            /\ nodes'[stack[i].node].kids = nodes[stack[i].node].kids
        BY <3>1, <2>1, <1>1, <1>5, <1>14
      <4>. QED BY <4>1, <4>2, <4>3, <1>15 DEF KidsCounted, KidsInRange
    <3>2. CASE i = L - 1
      <4>. DEFINE pd == StackTop1.decl
                  k == StackTop1.curChild
      <4>1. KidsCounted(p, StackTop1, Count(L))
        <5>1. L-1 \in 1..(Len(stack)-1) /\ (L-1)+1 = L
          BY <1>1, <1>2 DEF L
        <5>. QED BY <5>1, <1>1, <1>3 DEF KidsInv, p
      <4>2. Count(L) = Top.occurred
        BY <1>1, <1>3 DEF Count
      <4>3. Count(i+1)' = Top.occurred + 1
        <5>1. i+1 = L /\ Open(i+1)' /\ stack'[L].occurred = Top.occurred
          BY <3>2, <1>1, <1>6, <1>10, <1>12, <1>3
        <5>. QED BY <5>1 DEF Count
      <4>4. stack'[i].node = p /\ stack'[i] = StackTop1
        BY <3>2, <1>3, <1>11 DEF p
      <4>5. /\ pd \in Decls /\ k \in 1..Len(ChildDecls(pd)) /\ d = ChildDecls(pd)[k]
        <5>1. L-1 \in 1..(Len(stack)-1) /\ (L-1)+1 = L /\ L-1 \in 1..Len(stack)
          BY <1>1, <1>2 DEF L
        <5>. QED BY <5>1, <1>1, <1>3, <1>14, StackFacts DEF StackInv
      <4>. HIDE DEF pd, k
      <4>6. /\ \A j \in 1..Len(ChildDecls(pd)) : ChildDecls(pd)[j] \in Decls
            /\ \A j \in 1..Len(ChildDecls(pd)) : j # k => ChildDecls(pd)[j] # d
        <5>1. Len(ChildDecls(pd)) \in Nat
              /\ \A j \in 1..Len(ChildDecls(pd)) : ChildDecls(pd)[j] \in Decls
                                                 /\ ChildDecls(pd)[j] \in Nat
          BY <4>5, <1>1, DeclFacts
        <5>. QED BY <4>5, <5>1, <1>1, ChildOrder
      <4>7. nodes[p].kids[d] = Top.occurred
        BY <4>1, <4>2, <4>5 DEF KidsCounted, pd, k
      <4>8. nodes'[p].kids[d] = Top.occurred + 1
        BY <4>7, <1>5
      <4>9. \A j \in 1..Len(ChildDecls(pd)) : j # k =>
               nodes'[p].kids[ChildDecls(pd)[j]] = nodes[p].kids[ChildDecls(pd)[j]]
        BY <4>6, <1>5
      <4>10. \A j \in 1..Len(ChildDecls(pd)) :
                /\ j < k => /\ MinOccurs(ChildDecls(pd)[j]) <= nodes'[p].kids[ChildDecls(pd)[j]]
                            /\ nodes'[p].kids[ChildDecls(pd)[j]] <= MaxEffective(ChildDecls(pd)[j])
                /\ j > k => nodes'[p].kids[ChildDecls(pd)[j]] = 0
        <5>1. k \in Nat
          BY <4>5
        <5>. QED BY <5>1, <4>1, <4>9 DEF KidsCounted, KidsInRange, pd, k
      <4>11. stack'[i].decl = pd /\ stack'[i].curChild = k
        BY <4>4 DEF pd, k
      <4>. QED BY <4>3, <4>4, <4>5, <4>8, <4>10, <4>11, <1>15 DEF KidsCounted, KidsInRange
    <3>3. CASE i = L /\ ChildDecls(d) # <<>>
      <4>1. Count(i+1)' = 0
        <5>1. i+1 = L+1 /\ i+1 \in 1..Len(stack') /\ stack'[L+1] = Entry(c)
          BY <3>3, <1>1, <1>9
        <5>. QED BY <5>1, <3>3, <1>8, <1>10 DEF Count
      <4>2. stack'[i].node = n /\ stack'[i].decl = d /\ stack'[i].curChild = 1
        BY <3>3, <1>6, <1>12
      <4>3. \A j \in 1..Len(ChildDecls(d)) :
               ~(j < 1) /\ nodes'[n].kids[ChildDecls(d)[j]] = 0
        <5>1. \A j \in 1..Len(ChildDecls(d)) : ChildDecls(d)[j] \in Decls
          BY <1>1, <1>3, DeclFacts
        <5>2. \A j \in 1..Len(ChildDecls(d)) : ~(j < 1)
          OBVIOUS
        <5>. QED BY <5>1, <5>2, <1>5
      <4>4. 1 \in 1..Len(ChildDecls(d))
        BY <3>3, <1>1, <1>3, <1>8, DeclFacts
      <4>. QED BY <4>1, <4>2, <4>3, <4>4, <1>15 DEF KidsCounted, KidsInRange
    <3>. QED BY <3>1, <3>2, <3>3, <1>1, <1>2, <1>9
  <2>3. pc' = "recDone" => AllKidsInRange(Top.node, Top.decl)'
    <3>1. SUFFICES ASSUME pc' = "recDone" PROVE AllKidsInRange(Top.node, Top.decl)'
      OBVIOUS
    <3>2. ChildDecls(d) = <<>> /\ Top' = e
      BY <3>1, <1>9, <1>12 DEF Top
    <3>3. \A j \in 1..Len(ChildDecls(d)) : FALSE
      BY <3>2
    <3>. QED BY <3>2, <3>3, <1>6, <1>15 DEF AllKidsInRange
  <2>4. ASSUME NEW m \in DOMAIN nodes' \ OpenNodes'
        PROVE  AllKidsInRange(m, nodes[m].decl)'
    <3>1. p \in OpenNodes
      BY <1>3, <1>1 DEF OpenNodes, p, L
    <3>2. m \in DOMAIN nodes \ OpenNodes /\ m # p
      BY <2>4, <3>1, <1>5, <1>13
    <3>3. AllKidsInRange(m, nodes[m].decl)
      BY <3>2, <1>1 DEF KidsInv
    <3>. QED BY <3>2, <3>3, <1>5, <1>15 DEF AllKidsInRange, KidsInRange
  <2>. QED BY <2>2, <2>3, <2>4 DEF KidsInv
<1>. QED BY <1>5, <1>16, <1>17, <1>18, <1>19, <1>20, <1>21, <1>22 DEF IInv

-----------------------------------------------------------------------------
(* The open entries have nodes of their own. *)
LEMMA ChainDistinct ==
    ASSUME TypeOK, StackInv, ChainInv,
           NEW i \in 1..Len(stack), NEW j \in 1..Len(stack), i < j, Open(i), Open(j)
    PROVE  stack[i].node # stack[j].node
<1>1. stack[i].decl \in Nat /\ stack[j].decl \in Nat
  BY StackFacts, DeclFacts
<1>2. stack[i].decl < stack[j].decl
  BY DEF StackInv
<1>. QED BY <1>1, <1>2 DEF ChainInv

(***************************************************************************)
(* recDone keeps the invariant: the instance on top is closed, marked as   *)
(* the target or dropped, and counted.                                     *)
(***************************************************************************)
LEMMA DoneStep ==
    ASSUME IInv, RecDone
    PROVE  IInv'
<1>. USE DEF Nil
<1>. DEFINE L == Len(stack)
            cur == Top
            drop == Target(cur.decl) /\ ~PassesFilter(cur.node)
            e == [cur EXCEPT !.curChild = 1, !.occurred = @ + 1,
                             !.node = IF drop THEN 0 ELSE @]
<1>1. /\ TypeOK /\ CallInv /\ StackInv /\ OccurredInv /\ TreeInv /\ ChainInv
      /\ TargetInv /\ KidsInv /\ L \in Nat /\ L >= 1 /\ L \in 1..L
  BY StackFacts DEF IInv
<1>2. /\ pc = "recDone" /\ ~RecDonePanics
      /\ UNCHANGED <<fileDecl, lines, tail, pos, lastID, reply, delivered>>
      /\ stack' = [stack EXCEPT ![L] = e]
      /\ target' = IF Target(cur.decl) /\ ~drop THEN cur.node ELSE target
      /\ nodes' = IF drop THEN Released(cur.node) ELSE nodes
      /\ \/ MoreOccurs(cur) /\ pc' = "loop" /\ caller' = caller
         \/ ~MoreOccurs(cur) /\ pc' = "recNext" /\ caller' = "recDone"
  BY DEF RecDone, src, Top
<1>3. /\ cur \in Entries /\ cur.decl \in Decls /\ cur.node \in Nat
      /\ cur.curChild \in Nat /\ cur.occurred \in Nat
      /\ cur = stack[L] /\ \A i \in 1..L : Open(i)
  BY <1>1, <1>2, StackFacts DEF Top, Open
<1>4. /\ cur.node \in DOMAIN nodes /\ nodes[cur.node].decl = cur.decl
      /\ cur.node # 0
      /\ \A i \in 1..(L-1) : stack[i].node # cur.node
  <2>1. \A i \in 1..(L-1) : stack[i].node # cur.node
    BY <1>1, <1>3, ChainDistinct
  <2>2. cur.node \in DOMAIN nodes /\ nodes[cur.node].decl = cur.decl
    BY <1>1, <1>3 DEF ChainInv
  <2>. QED BY <2>1, <2>2, <1>1, NodeFacts
<1>5. e \in Entries /\ e.decl = cur.decl /\ e.curChild = 1
      /\ e.occurred = cur.occurred + 1
  <2>. HIDE DEF drop
  <2>1. cur \in [decl : Decls, node : Nat, curChild : Nat \ {0}, occurred : Nat]
    BY <1>3 DEF Entries
  <2>. HIDE DEF cur
  <2>2. cur.occurred + 1 \in Nat /\ (IF drop THEN 0 ELSE cur.node) \in Nat
    BY <1>3
  <2>. DEFINE nd == IF drop THEN 0 ELSE cur.node
              oc == cur.occurred + 1
  <2>3. e = [cur EXCEPT !.curChild = 1, !.occurred = oc, !.node = nd]
    OBVIOUS
  <2>. HIDE DEF e, nd, oc
  <2>4. e = [decl |-> cur.decl, node |-> nd, curChild |-> 1, occurred |-> oc]
    BY <2>1, <2>3
  <2>5. nd \in Nat /\ oc \in Nat /\ cur.decl \in Decls
    BY <2>2, <1>3 DEF nd, oc
  <2>6. e \in Entries
    BY <2>4, <2>5 DEF Entries
  <2>. QED BY <2>4, <2>6 DEF oc
<1>6. Target(cur.decl) => target = 0
  BY <1>2, <1>4 DEF RecDonePanics
<1>7. drop => Target(cur.decl) /\ target' = 0
  BY <1>2, <1>6
<1>8. ~drop /\ Target(cur.decl) => target' = cur.node /\ PassesFilter(cur.node)
  BY <1>2
<1>9. ~Target(cur.decl) => target' = target /\ nodes' = nodes
  BY <1>2
<1>10. ~drop => nodes' = nodes
  BY <1>2
<1>11. drop => nodes' = Released(cur.node)
  BY <1>2
<1>. HIDE DEF e, drop, L, cur
<1>12. /\ stack' \in Seq(Entries) /\ stack' # <<>> /\ Len(stack') = L
       /\ stack'[L] = e
       /\ \A i \in 1..(L-1) : stack'[i] = stack[i]
  BY <1>1, <1>2, <1>5, SetLastType DEF L, TypeOK
<1>13. /\ \A i \in 1..L : i = L \/ i \in 1..(L-1)
       /\ 1..(L-1) \subseteq 1..L
  BY <1>1
<1>14. /\ \A i \in 1..(L-1) : Open(i)'
       /\ \A i \in 1..L : Open(i)' => i \in 1..(L-1)
  BY <1>1, <1>2, <1>12 DEF Open
<1>15. /\ OpenNodes = {stack[i].node : i \in 1..L}
       /\ OpenNodes' = {stack[i].node : i \in 1..(L-1)}
       /\ OpenNodes = OpenNodes' \cup {cur.node}
       /\ cur.node \notin OpenNodes'
  <2>1. OpenNodes = {stack[i].node : i \in 1..L}
    BY <1>3 DEF OpenNodes, L
  <2>2. OpenNodes' = {stack'[i].node : i \in 1..(L-1)}
    BY <1>12, <1>13, <1>14 DEF OpenNodes
  <2>3. OpenNodes' = {stack[i].node : i \in 1..(L-1)}
    BY <2>2, <1>12
  <2>. QED BY <2>1, <2>3, <1>1, <1>3, <1>4, <1>13
<1>16. /\ DOMAIN nodes' \subseteq DOMAIN nodes
       /\ \A i \in 1..(L-1) : stack[i].node \in DOMAIN nodes'
       /\ \A m \in DOMAIN nodes' : nodes'[m] = nodes[m] /\ nodes'[m] \in NodeRecs
       /\ TreeInv'
  <2>1. CASE drop
    <3>1. cur.node # 1
      BY <2>1, <1>1, <1>4, <1>7, DeclFacts DEF TreeInv, Target, Valid
    <3>2. ASSUME NEW i \in 1..(L-1)
          PROVE  stack[i].node \in DOMAIN nodes /\ cur.node \notin nodes[stack[i].node].path
      <4>1. /\ stack[i].node \in DOMAIN nodes
            /\ nodes[stack[i].node].path = {stack[j].node : j \in 1..i}
        BY <1>1, <1>3, <1>13 DEF ChainInv, L
      <4>2. \A j \in 1..i : j \in 1..(L-1)
        BY <1>1
      <4>. QED BY <4>1, <4>2, <1>4
    <3>. QED BY <2>1, <3>1, <3>2, <1>1, <1>3, <1>11, ReleaseTree
  <2>2. CASE ~drop
    <3>1. TreeInv'
      BY <2>2, <1>1, <1>10 DEF TreeInv
    <3>2. \A i \in 1..(L-1) : stack[i].node \in DOMAIN nodes
      BY <1>1, <1>3, <1>13 DEF ChainInv, L
    <3>. QED BY <2>2, <3>1, <3>2, <1>1, <1>10 DEF TypeOK
  <2>. QED BY <2>1, <2>2
<1>17. /\ \A x : ChildDecls(x)' = ChildDecls(x) /\ (Target(x)' <=> Target(x))
       /\ \A x : MinOccurs(x)' = MinOccurs(x) /\ MaxOccurs(x)' = MaxOccurs(x)
       /\ \A x : MaxEffective(x)' = MaxEffective(x)
  BY <1>2 DEF ChildDecls, MinOccurs, MaxOccurs, MaxEffective, Target
<1>18. /\ \A i \in 1..L : stack'[i].decl = stack[i].decl
  BY <1>3, <1>5, <1>12, <1>13
<1>19. TypeOK'
  <2>1. target' \in DOMAIN nodes' \cup {0}
    BY <1>1, <1>4, <1>7, <1>8, <1>9, <1>10 DEF TypeOK
  <2>2. reply' \in [res : Results, node : {0}]
    BY <1>1, <1>2 DEF TypeOK, CallInv
  <2>3. pc' \in {"idle", "loop", "recDone", "recNext"} /\ caller' \in {"Read", "recDone"}
    BY <1>1, <1>2 DEF TypeOK
  <2>4. DOMAIN nodes' \subseteq 1..lastID' /\ \A m \in DOMAIN nodes' : nodes'[m] \in NodeRecs
    BY <1>1, <1>2, <1>16 DEF TypeOK
  <2>. QED BY <2>1, <2>2, <2>3, <2>4, <1>1, <1>2, <1>12 DEF TypeOK
<1>20. CallInv'
  <2>1. reply.node = 0 /\ reply' = reply
    BY <1>1, <1>2 DEF CallInv
  <2>2. ASSUME NEW i \in 1..(L-1), target' # 0 PROVE ~Target(stack[i].decl)
    <3>1. CASE Target(cur.decl)
      <4>1. i \in 1..Len(stack) /\ L \in 1..Len(stack) /\ i < L
        BY <1>1 DEF L
      <4>2. stack[i].decl < cur.decl
        BY <4>1, <1>1, <1>3 DEF StackInv
      <4>3. stack[i].decl \in Nat /\ cur.decl \in Nat
        BY <4>1, <1>1, <1>3, StackFacts, DeclFacts
      <4>. QED BY <3>1, <4>2, <4>3 DEF Target
    <3>2. CASE ~Target(cur.decl)
      <4>1. target # 0 /\ i \in 1..Len(stack) /\ Open(i)
        BY <2>2, <3>2, <1>3, <1>9, <1>13 DEF L
      <4>. QED BY <4>1, <1>1, <1>2 DEF CallInv
    <3>. QED BY <3>1, <3>2
  <2>3. ASSUME NEW i \in 1..Len(stack'), Open(i)', target' # 0
        PROVE  ~Target(stack[i].decl)'
    BY <2>2, <2>3, <1>12, <1>14, <1>17
  <2>. QED BY <2>1, <2>3 DEF CallInv
<1>21. StackInv'
  <2>1. stack'[1].decl = Root
    BY <1>1, <1>18 DEF StackInv
  <2>2. \A i \in 1..Len(stack'), j \in 1..Len(stack') :
           i < j => stack'[i].decl < stack'[j].decl
    BY <1>1, <1>12, <1>18 DEF StackInv, L
  <2>3. \A i \in 1..(Len(stack') - 1) :
           /\ stack'[i].curChild \in 1..Len(ChildDecls(stack'[i].decl))
           /\ stack'[i+1].decl = ChildDecls(stack'[i].decl)[stack'[i].curChild]
    <3>1. \A i \in 1..(L-1) : i+1 \in 1..L
      BY <1>1
    <3>2. \A i \in 1..(L-1) :
             /\ stack[i].curChild \in 1..Len(ChildDecls(stack[i].decl))
             /\ stack[i+1].decl = ChildDecls(stack[i].decl)[stack[i].curChild]
      BY <1>1 DEF StackInv, L
    <3>. QED BY <3>1, <3>2, <1>12, <1>18
  <2>4. Top'.curChild = 1
    BY <1>5, <1>12 DEF Top
  <2>. QED BY <2>1, <2>2, <2>3, <2>4, <1>17 DEF StackInv
<1>22. MinOccurs(cur.decl) \in Nat /\ MaxOccurs(cur.decl) \in Nat
       /\ MaxEffective(cur.decl) \in Nat /\ MinOccurs(cur.decl) <= MaxOccurs(cur.decl)
       /\ MaxOccurs(cur.decl) <= MaxEffective(cur.decl) /\ 1 <= MaxEffective(cur.decl)
  BY <1>1, <1>3, DeclFacts
<1>23. OccurredInv'
  <2>1. \A i \in 2..L : stack[i].occurred = 0
                        \/ stack[i].occurred < MaxOccurs(stack[i].decl)
    <3>1. \A i \in 2..L : i \in 1..L
      BY <1>1
    <3>. QED BY <3>1, <1>1, <1>3 DEF OccurredInv, L
  <2>2. ASSUME NEW i \in 2..Len(stack'), Open(i)' \/ pc' # "recNext"
        PROVE  stack'[i].occurred = 0 \/ stack'[i].occurred < MaxOccurs(stack'[i].decl)
    <3>1. CASE i \in 1..(L-1)
      BY <3>1, <2>1, <2>2, <1>12
    <3>2. CASE i = L
      <4>1. pc' # "recNext"
        BY <3>2, <2>2, <1>1, <1>14
      <4>2. cur.occurred + 1 < MaxOccurs(cur.decl)
        BY <4>1, <1>2 DEF MoreOccurs
      <4>. QED BY <3>2, <4>2, <1>5, <1>12
    <3>. QED BY <3>1, <3>2, <1>1, <1>12
  <2>3. Len(stack') > 1 => Top'.occurred <= MaxEffective(Top'.decl)
    <3>1. SUFFICES ASSUME L > 1 PROVE Top'.occurred <= MaxEffective(Top'.decl)
      BY <1>12
    <3>2. L \in 2..L /\ Top' = e
      BY <3>1, <1>1, <1>12 DEF Top
    <3>3. cur.occurred = 0 \/ cur.occurred < MaxOccurs(cur.decl)
      BY <3>2, <2>1, <1>3
    <3>4. cur.occurred + 1 <= MaxEffective(cur.decl)
      BY <3>3, <1>3, <1>22
    <3>. QED BY <3>2, <3>4, <1>5
  <2>4. pc' = "recNext" => ~TooFew'
    <3>1. SUFFICES ASSUME pc' = "recNext" PROVE ~TooFew'
      OBVIOUS
    <3>2. ~(cur.occurred + 1 < MaxOccurs(cur.decl))
      BY <3>1, <1>2 DEF MoreOccurs
    <3>3. Top' = e
      BY <1>12 DEF Top
    <3>4. ~(e.occurred < MinOccurs(e.decl))
      BY <3>2, <1>3, <1>5, <1>22
    <3>. QED BY <3>3, <3>4, <1>17 DEF TooFew
  <2>. QED BY <2>2, <2>3, <2>4, <1>17 DEF OccurredInv, RecDoneNeverFails
<1>24. ChainInv'
  <2>1. ASSUME NEW i \in 1..(L-1)
        PROVE  /\ stack'[i].node \in DOMAIN nodes'
               /\ nodes'[stack'[i].node].decl = stack'[i].decl
               /\ nodes'[stack'[i].node].parent = IF i = 1 THEN 0 ELSE stack'[i-1].node
               /\ nodes'[stack'[i].node].path = {stack'[j].node : j \in 1..i}
    <3>1. /\ nodes[stack[i].node].decl = stack[i].decl
          /\ nodes[stack[i].node].parent = IF i = 1 THEN 0 ELSE stack[i-1].node
          /\ nodes[stack[i].node].path = {stack[j].node : j \in 1..i}
      BY <1>1, <1>3, <1>13 DEF ChainInv, L
    <3>2. \A j \in 1..i : stack'[j] = stack[j]
      BY <1>1, <1>12
    <3>3. stack'[i] = stack[i] /\ (i # 1 => stack'[i-1] = stack[i-1])
      BY <1>1, <1>12
    <3>. QED BY <3>1, <3>2, <3>3, <1>16
  <2>. QED BY <2>1, <1>12, <1>14 DEF ChainInv
<1>25. TargetInv'
  <2>1. SUFFICES ASSUME target' # 0
                 PROVE  /\ Target(nodes'[target'].decl)
                        /\ PassesFilter(target)'
                        /\ target' \notin OpenNodes'
    BY <1>17 DEF TargetInv
  <2>2. nodes' = nodes
    BY <2>1, <1>7, <1>10
  <2>3. PassesFilter(target)' <=> lines[nodes[target'].from + 1] \in fileDecl.filter
    BY <2>2, <1>2 DEF PassesFilter
  <2>4. CASE Target(cur.decl)
    <3>1. target' = cur.node /\ PassesFilter(cur.node)
      BY <2>1, <2>4, <1>7, <1>8
    <3>. QED BY <3>1, <2>2, <2>3, <2>4, <1>4, <1>15 DEF PassesFilter
  <2>5. CASE ~Target(cur.decl)
    <3>1. target' = target
      BY <2>5, <1>9
    <3>. QED BY <3>1, <2>1, <2>2, <2>3, <1>1, <1>15 DEF TargetInv, PassesFilter
  <2>. QED BY <2>4, <2>5
<1>26. KidsInv'
  <2>1. ASSUME NEW i \in 1..(L-1)
        PROVE  KidsCounted(stack[i].node, stack[i], Count(i+1))'
    <3>1. KidsCounted(stack[i].node, stack[i], Count(i+1))
      BY <1>1 DEF KidsInv, L
    <3>2. stack'[i] = stack[i] /\ stack[i].node \in DOMAIN nodes'
          /\ nodes'[stack[i].node] = nodes[stack[i].node]
      BY <1>12, <1>16
    <3>3. Count(i+1)' = Count(i+1)
      <4>1. CASE i+1 = L
        <5>1. ~Open(i+1)' /\ Open(i+1)
          BY <4>1, <1>1, <1>3, <1>14
        <5>2. stack'[i+1].occurred = stack[i+1].occurred + 1
          BY <4>1, <1>3, <1>5, <1>12
        <5>3. stack[i+1].occurred \in Nat
          BY <4>1, <1>3
        <5>. QED BY <5>1, <5>2, <5>3 DEF Count
      <4>2. CASE i+1 \in 1..(L-1)
        <5>1. Open(i+1)' /\ Open(i+1) /\ stack'[i+1] = stack[i+1]
          BY <4>2, <1>3, <1>12, <1>13, <1>14
        <5>. QED BY <5>1 DEF Count
      <4>. QED BY <4>1, <4>2, <1>1
    <3>. QED BY <3>1, <3>2, <3>3, <1>17 DEF KidsCounted, KidsInRange
  <2>2. ASSUME NEW m \in DOMAIN nodes' \ OpenNodes'
        PROVE  AllKidsInRange(m, nodes[m].decl)'
    <3>1. AllKidsInRange(m, nodes[m].decl)
      <4>1. CASE m = cur.node
        BY <4>1, <1>1, <1>2, <1>4 DEF KidsInv, cur
      <4>2. CASE m # cur.node
        BY <2>2, <4>2, <1>1, <1>15, <1>16 DEF KidsInv
      <4>. QED BY <4>1, <4>2
    <3>2. nodes'[m] = nodes[m]
      BY <2>2, <1>16
    <3>. QED BY <3>1, <3>2, <1>17 DEF AllKidsInRange, KidsInRange
  <2>3. pc' # "recDone"
    BY <1>2
  <2>. QED BY <2>1, <2>2, <2>3, <1>12 DEF KidsInv
<1>. QED BY <1>16, <1>19, <1>20, <1>21, <1>23, <1>24, <1>25, <1>26 DEF IInv

-----------------------------------------------------------------------------
(***************************************************************************)
(* recNext keeps the invariant: the declaration on top has its minimum, so *)
(* the parent moves on to the next one, or is complete itself.             *)
(***************************************************************************)
LEMMA UpStep ==
    ASSUME IInv, RecNextUp
    PROVE  IInv'
<1>. USE DEF Nil
<1>. DEFINE L == Len(stack)
            up == Front(stack)
            par == StackTop1
            k == par.curChild
            adv == Advanced(par)
            moved == [up EXCEPT ![L-1] = adv]
            c == ChildDecls(par.decl)[k + 1]
<1>1. /\ TypeOK /\ CallInv /\ StackInv /\ OccurredInv /\ TreeInv /\ ChainInv
      /\ TargetInv /\ KidsInv /\ L \in Nat /\ L >= 1
  BY StackFacts DEF IInv
<1>2. stack \in Seq(Entries) /\ stack # <<>>
  BY <1>1 DEF TypeOK
<1>3. /\ up \in Seq(Entries) /\ Len(up) = L - 1
      /\ \A i \in 1..(L-1) : up[i] = stack[i]
  BY <1>2, FrontType
<1>4. /\ pc = "recNext" /\ ~TooFew /\ L > 1
      /\ UNCHANGED <<fileDecl, lines, tail, pos, target, nodes, lastID, caller,
                     reply, delivered>>
      /\ \/ /\ MoreSiblings(par) /\ pc' = "loop"
            /\ stack' = Append([up EXCEPT ![Len(up)] = adv], Entry(c))
         \/ ~MoreSiblings(par) /\ pc' = "recDone" /\ stack' = up
  BY DEF RecNextUp, src
<1>5. /\ par = stack[L-1] /\ Top = stack[L] /\ L-1 \in 1..Len(stack) /\ L \in 1..Len(stack)
      /\ par \in Entries /\ par.decl \in Decls /\ par.node \in Nat
      /\ k \in Nat /\ k >= 1 /\ par.occurred \in Nat
      /\ Top.decl \in Decls /\ Top.occurred \in Nat
      /\ ~Open(L) /\ \A i \in 1..(L-1) : Open(i)
  BY <1>1, <1>4, StackFacts DEF Top, StackTop1, Open
<1>6. /\ k \in 1..Len(ChildDecls(par.decl))
      /\ Top.decl = ChildDecls(par.decl)[k]
      /\ KidsCounted(par.node, par, Count(L))
  <2>1. L-1 \in 1..(Len(stack)-1) /\ (L-1)+1 = L
    BY <1>1, <1>4
  <2>. QED BY <2>1, <1>1, <1>5 DEF StackInv, KidsInv
<1>7. Count(L) = Top.occurred
  BY <1>1, <1>5 DEF Count
<1>8. /\ Len(ChildDecls(par.decl)) \in Nat
      /\ \A j \in 1..Len(ChildDecls(par.decl)) : ChildDecls(par.decl)[j] \in Decls
  BY <1>1, <1>5, DeclFacts
<1>9. \A j \in 1..Len(ChildDecls(par.decl)) :
         j <= k => KidsInRange(par.node, ChildDecls(par.decl)[j])
  <2>1. /\ MinOccurs(Top.decl) \in Nat /\ MinOccurs(Top.decl) <= Top.occurred
        /\ Top.occurred <= MaxEffective(Top.decl)
    <3>1. MinOccurs(Top.decl) \in Nat
      BY <1>1, <1>5, DeclFacts
    <3>2. ~(Top.occurred < MinOccurs(Top.decl))
      BY <1>4 DEF TooFew
    <3>3. Top.occurred <= MaxEffective(Top.decl)
      BY <1>1, <1>4 DEF OccurredInv
    <3>. QED BY <3>1, <3>2, <3>3, <1>5
  <2>2. nodes[par.node].kids[Top.decl] = Top.occurred
    BY <1>6, <1>7 DEF KidsCounted
  <2>3. KidsInRange(par.node, Top.decl)
    BY <2>1, <2>2 DEF KidsInRange
  <2>4. \A j \in 1..Len(ChildDecls(par.decl)) :
           j < k => KidsInRange(par.node, ChildDecls(par.decl)[j])
    BY <1>6 DEF KidsCounted
  <2>5. \A j \in 1..Len(ChildDecls(par.decl)) : j <= k => j = k \/ j < k
    BY <1>5
  <2>. QED BY <2>3, <2>4, <2>5, <1>6
<1>10. \A j \in 1..Len(ChildDecls(par.decl)) :
          j > k => nodes[par.node].kids[ChildDecls(par.decl)[j]] = 0
  BY <1>6 DEF KidsCounted
<1>11. /\ adv \in Entries /\ adv.decl = par.decl /\ adv.node = par.node
       /\ adv.curChild = k + 1 /\ adv.occurred = par.occurred
  BY <1>5 DEF Advanced, Entries
<1>12. /\ \A x : ChildDecls(x)' = ChildDecls(x) /\ (Target(x)' <=> Target(x))
       /\ \A x : MinOccurs(x)' = MinOccurs(x) /\ MaxOccurs(x)' = MaxOccurs(x)
       /\ \A x : MaxEffective(x)' = MaxEffective(x)
  BY <1>4 DEF ChildDecls, MinOccurs, MaxOccurs, MaxEffective, Target
<1>13. TreeInv'
  BY <1>1, <1>4 DEF TreeInv
<1>. HIDE DEF L, up, par, k, adv
<1>14. MoreSiblings(par) =>
          /\ k + 1 \in 1..Len(ChildDecls(par.decl))
          /\ c \in Decls /\ par.decl < c
          /\ Entry(c) \in Entries /\ Entry(c).decl = c /\ Entry(c).curChild = 1
          /\ Entry(c).occurred = 0
  <2>1. SUFFICES ASSUME MoreSiblings(par)
                 PROVE  /\ k + 1 \in 1..Len(ChildDecls(par.decl))
                        /\ c \in Decls /\ par.decl < c
                        /\ Entry(c) \in Entries /\ Entry(c).decl = c
                        /\ Entry(c).curChild = 1 /\ Entry(c).occurred = 0
    OBVIOUS
  <2>2. k + 1 \in 1..Len(ChildDecls(par.decl))
    BY <2>1, <1>5, <1>8 DEF MoreSiblings, k
  <2>3. c \in Decls /\ par.decl < c
    BY <2>2, <1>1, <1>5, <1>8, ChildOrder
  <2>4. Entry(c) \in Entries
    BY <2>3, InitEntry
  <2>. QED BY <2>2, <2>3, <2>4 DEF Entry
<1>15. /\ moved \in Seq(Entries) /\ Len(moved) = L - 1 /\ moved # <<>>
       /\ moved[L-1] = adv
       /\ \A i \in 1..(L-2) : moved[i] = stack[i]
  <2>1. up # <<>>
    BY <1>1, <1>3, <1>4
  <2>2. /\ [up EXCEPT ![Len(up)] = adv] \in Seq(Entries)
        /\ Len([up EXCEPT ![Len(up)] = adv]) = Len(up)
        /\ [up EXCEPT ![Len(up)] = adv] # <<>>
        /\ [up EXCEPT ![Len(up)] = adv][Len(up)] = adv
        /\ \A i \in 1..(Len(up) - 1) : [up EXCEPT ![Len(up)] = adv][i] = up[i]
    BY <2>1, <1>3, <1>11, SetLastType
  <2>3. \A i \in 1..(L-2) : i \in 1..(Len(up) - 1) /\ i \in 1..(L-1)
    BY <1>1, <1>3
  <2>. QED BY <2>2, <2>3, <1>3
<1>. HIDE DEF moved, c
<1>16. /\ stack' \in Seq(Entries) /\ stack' # <<>>
       /\ \/ /\ MoreSiblings(par) /\ pc' = "loop" /\ Len(stack') = L
             /\ stack'[L] = Entry(c) /\ stack'[L-1] = adv
          \/ /\ ~MoreSiblings(par) /\ pc' = "recDone" /\ Len(stack') = L-1
             /\ stack'[L-1] = par
       /\ \A i \in 1..(L-2) : stack'[i] = stack[i]
  <2>1. CASE MoreSiblings(par)
    <3>1. stack' = Append(moved, Entry(c)) /\ pc' = "loop"
      BY <2>1, <1>3, <1>4 DEF moved
    <3>2. Entry(c) \in Entries
      BY <2>1, <1>14
    <3>3. /\ stack' \in Seq(Entries) /\ Len(stack') = (L-1) + 1
          /\ stack'[(L-1) + 1] = Entry(c)
          /\ \A i \in 1..(L-1) : stack'[i] = moved[i]
      BY <3>1, <3>2, <1>15, AppendProperties
    <3>4. stack' # <<>> /\ (L-1) + 1 = L /\ L-1 \in 1..(L-1)
          /\ \A i \in 1..(L-2) : i \in 1..(L-1)
      BY <3>3, <1>1, <1>4
    <3>. QED BY <3>1, <3>3, <3>4, <2>1, <1>15
  <2>2. CASE ~MoreSiblings(par)
    <3>1. stack' = up /\ pc' = "recDone"
      BY <2>2, <1>4
    <3>2. up # <<>> /\ L-1 \in 1..(L-1) /\ \A i \in 1..(L-2) : i \in 1..(L-1)
      BY <1>1, <1>3, <1>4
    <3>. QED BY <3>1, <3>2, <2>2, <1>3, <1>5
  <2>. QED BY <2>1, <2>2
<1>17. /\ \A i \in 1..(L-1) : i = L-1 \/ i \in 1..(L-2)
       /\ 1..(L-1) \subseteq 1..Len(stack') /\ 1..(L-1) \subseteq 1..Len(stack)
       /\ \A i \in 1..Len(stack') : i \in 1..(L-1) \/ (i = L /\ Len(stack') = L)
  BY <1>1, <1>4, <1>16 DEF L
<1>18. \A i \in 1..(L-1) : /\ stack'[i].decl = stack[i].decl
                           /\ stack'[i].node = stack[i].node
                           /\ stack'[i].occurred = stack[i].occurred
  BY <1>5, <1>11, <1>16, <1>17
<1>19. /\ \A i \in 1..(L-1) : Open(i)'
       /\ \A i \in 1..Len(stack') : Open(i)' => i \in 1..(L-1)
  BY <1>1, <1>16, <1>17 DEF Open
<1>20. OpenNodes' = OpenNodes
  <2>1. OpenNodes = {stack[i].node : i \in 1..(L-1)}
    <3>1. \A i \in 1..Len(stack) : Open(i) <=> i \in 1..(L-1)
      BY <1>1, <1>5 DEF L
    <3>. QED BY <3>1, <1>17 DEF OpenNodes
  <2>2. OpenNodes' = {stack'[i].node : i \in 1..(L-1)}
    BY <1>17, <1>19 DEF OpenNodes
  <2>. QED BY <2>1, <2>2, <1>18
<1>21. TypeOK'
  <2>1. pc' \in {"idle", "loop", "recDone", "recNext"}
    BY <1>16
  <2>. QED BY <2>1, <1>1, <1>4, <1>16 DEF TypeOK
<1>22. CallInv'
  <2>1. reply.node = 0 /\ reply' = reply /\ target' = target
    BY <1>1, <1>4 DEF CallInv
  <2>2. ASSUME NEW i \in 1..Len(stack'), Open(i)', target # 0
        PROVE  ~Target(stack'[i].decl)
    <3>1. i \in 1..(L-1) /\ i \in 1..Len(stack) /\ Open(i)
      BY <2>2, <1>5, <1>17, <1>19
    <3>. QED BY <3>1, <2>2, <1>1, <1>4, <1>18 DEF CallInv
  <2>. QED BY <2>1, <2>2, <1>12 DEF CallInv
<1>23. StackInv'
  <2>1. stack'[1].decl = Root
    <3>1. 1 \in 1..(L-1)
      BY <1>1, <1>4
    <3>. QED BY <3>1, <1>1, <1>18 DEF StackInv
  <2>2. ASSUME NEW i \in 1..Len(stack'), NEW j \in 1..Len(stack'), i < j
        PROVE  stack'[i].decl < stack'[j].decl
    <3>1. CASE j \in 1..(L-1)
      <4>1. i \in 1..(L-1)
        BY <2>2, <3>1, <1>1
      <4>. QED BY <4>1, <3>1, <2>2, <1>1, <1>17, <1>18 DEF StackInv
    <3>2. CASE j = L /\ Len(stack') = L
      <4>1. MoreSiblings(par) /\ stack'[j].decl = c /\ c \in Decls /\ par.decl < c
        BY <3>2, <1>1, <1>14, <1>16
      <4>2. i \in 1..(L-1) /\ i \in 1..Len(stack)
        BY <2>2, <3>2, <1>1, <1>17
      <4>3. i < L-1 => stack[i].decl < par.decl
        BY <4>2, <1>1, <1>5 DEF StackInv
      <4>4. stack[i].decl \in Nat /\ par.decl \in Nat /\ c \in Nat
        BY <4>1, <4>2, <1>1, <1>5, StackFacts, DeclFacts
      <4>5. i < L-1 \/ i = L-1
        BY <4>2, <1>1
      <4>. QED BY <4>1, <4>2, <4>3, <4>4, <4>5, <1>5, <1>18
    <3>. QED BY <3>1, <3>2, <1>17
  <2>3. ASSUME NEW i \in 1..(Len(stack') - 1)
        PROVE  /\ stack'[i].curChild \in 1..Len(ChildDecls(stack'[i].decl))
               /\ stack'[i+1].decl = ChildDecls(stack'[i].decl)[stack'[i].curChild]
    <3>1. CASE i \in 1..(L-2)
      <4>1. i \in 1..(Len(stack)-1) /\ i \in 1..(L-1) /\ i+1 \in 1..(L-1)
        BY <3>1, <1>1, <1>4 DEF L
      <4>2. stack'[i] = stack[i] /\ stack'[i+1].decl = stack[i+1].decl
        BY <3>1, <4>1, <1>16, <1>18
      <4>. QED BY <4>1, <4>2, <1>1 DEF StackInv
    <3>2. CASE i = L - 1
      <4>1. MoreSiblings(par) /\ stack'[L] = Entry(c) /\ stack'[L-1] = adv /\ i+1 = L
        BY <3>2, <1>1, <1>4, <1>16
      <4>2. Entry(c).decl = c /\ k+1 \in 1..Len(ChildDecls(par.decl))
        BY <4>1, <1>14
      <4>. QED BY <3>2, <4>1, <4>2, <1>11 DEF c
    <3>. QED BY <3>1, <3>2, <1>1, <1>4, <1>16
  <2>4. pc' = "recDone" \/ stack'[Len(stack')].curChild = 1
    BY <1>14, <1>16
  <2>5. (~Open(Len(stack)) => Top.curChild = 1)'
    BY <2>4 DEF Open, Top
  <2>. QED BY <2>1, <2>2, <2>3, <2>5, <1>12 DEF StackInv
<1>24. OccurredInv'
  <2>1. ASSUME NEW i \in 2..Len(stack')
        PROVE  stack'[i].occurred = 0 \/ stack'[i].occurred < MaxOccurs(stack'[i].decl)
    <3>1. i \in 1..Len(stack')
      BY <1>16
    <3>2. CASE i \in 1..(L-1)
      <4>1. i \in 2..Len(stack) /\ Open(i)
        BY <3>1, <3>2, <1>1, <1>5, <1>17
      <4>. QED BY <4>1, <3>2, <1>1, <1>18 DEF OccurredInv
    <3>3. CASE i = L /\ Len(stack') = L
      BY <3>3, <1>1, <1>14, <1>16
    <3>. QED BY <3>1, <3>2, <3>3, <1>17
  <2>2. pc' # "recNext"
    BY <1>16
  <2>. QED BY <2>1, <2>2, <1>12 DEF OccurredInv, RecDoneNeverFails
<1>25. ChainInv'
  <2>1. ASSUME NEW i \in 1..(L-1)
        PROVE  /\ stack'[i].node \in DOMAIN nodes'
               /\ nodes'[stack'[i].node].decl = stack'[i].decl
               /\ nodes'[stack'[i].node].parent = IF i = 1 THEN 0 ELSE stack'[i-1].node
               /\ nodes'[stack'[i].node].path = {stack'[j].node : j \in 1..i}
    <3>1. /\ stack[i].node \in DOMAIN nodes
          /\ nodes[stack[i].node].decl = stack[i].decl
          /\ nodes[stack[i].node].parent = IF i = 1 THEN 0 ELSE stack[i-1].node
          /\ nodes[stack[i].node].path = {stack[j].node : j \in 1..i}
      BY <1>1, <1>5, <1>17 DEF ChainInv
    <3>2. \A j \in 1..i : stack'[j].node = stack[j].node
      BY <1>1, <1>18
    <3>3. i # 1 => stack'[i-1].node = stack[i-1].node
      BY <1>1, <1>18
    <3>. QED BY <3>1, <3>2, <3>3, <1>4, <1>18
  <2>. QED BY <2>1, <1>19 DEF ChainInv
<1>26. TargetInv'
  BY <1>1, <1>4, <1>20 DEF TargetInv, Target, PassesFilter
<1>27. KidsInv'
  <2>1. ASSUME NEW i \in 1..(Len(stack') - 1)
        PROVE  KidsCounted(stack[i].node, stack[i], Count(i+1))'
    <3>1. CASE i \in 1..(L-2)
      <4>1. i \in 1..(Len(stack)-1) /\ i \in 1..(L-1) /\ i+1 \in 1..(L-1)
        BY <3>1, <1>1, <1>4 DEF L
      <4>2. Count(i+1)' = Count(i+1)
        BY <4>1, <1>5, <1>18, <1>19 DEF Count
      <4>3. KidsCounted(stack[i].node, stack[i], Count(i+1)) /\ stack'[i] = stack[i]
        BY <4>1, <3>1, <1>1, <1>16 DEF KidsInv
      <4>. QED BY <4>2, <4>3, <1>4, <1>12 DEF KidsCounted, KidsInRange
    <3>2. CASE i = L - 1
      <4>1. MoreSiblings(par) /\ stack'[L] = Entry(c) /\ stack'[i] = adv /\ i+1 = L
            /\ L \in 1..Len(stack') /\ L \notin 1..(L-1)
        BY <3>2, <1>1, <1>4, <1>16
      <4>2. Count(i+1)' = 0
        BY <4>1, <1>14, <1>19 DEF Count
      <4>3. k+1 \in 1..Len(ChildDecls(par.decl))
        BY <4>1, <1>14
      <4>4. k \in Nat
        BY <1>5 DEF k
      <4>5. \A j \in 1..Len(ChildDecls(par.decl)) :
               /\ j < k+1 => KidsInRange(par.node, ChildDecls(par.decl)[j])
               /\ j > k+1 => nodes[par.node].kids[ChildDecls(par.decl)[j]] = 0
        <5>1. \A j \in 1..Len(ChildDecls(par.decl)) :
                 (j < k+1 => j <= k) /\ (j > k+1 => j > k)
          BY <4>4
        <5>. QED BY <5>1, <1>9, <1>10
      <4>6. nodes[par.node].kids[ChildDecls(par.decl)[k+1]] = 0
        <5>1. k+1 > k
          BY <4>4
        <5>. QED BY <5>1, <4>3, <1>10
      <4>. QED BY <4>1, <4>2, <4>5, <4>6, <1>4, <1>11, <1>12 DEF KidsCounted, KidsInRange
    <3>. QED BY <3>1, <3>2, <1>1, <1>4, <1>16
  <2>2. pc' = "recDone" => AllKidsInRange(Top.node, Top.decl)'
    <3>1. SUFFICES ASSUME pc' = "recDone" PROVE AllKidsInRange(Top.node, Top.decl)'
      OBVIOUS
    <3>2. ~MoreSiblings(par) /\ Top' = par
      BY <3>1, <1>16 DEF Top
    <3>3. \A j \in 1..Len(ChildDecls(par.decl)) : j <= k
      BY <3>2, <1>5, <1>6, <1>8 DEF MoreSiblings, k
    <3>. QED BY <3>2, <3>3, <1>4, <1>9, <1>12 DEF AllKidsInRange, KidsInRange
  <2>3. ASSUME NEW m \in DOMAIN nodes' \ OpenNodes'
        PROVE  AllKidsInRange(m, nodes[m].decl)'
    BY <2>3, <1>1, <1>4, <1>12, <1>20 DEF KidsInv, AllKidsInRange, KidsInRange
  <2>. QED BY <2>1, <2>2, <2>3 DEF KidsInv
<1>. QED BY <1>13, <1>21, <1>22, <1>23, <1>24, <1>25, <1>26, <1>27 DEF IInv

-----------------------------------------------------------------------------
(* Every step of the reader and of its caller keeps the invariant. *)
LEMMA NextInv == IInv /\ [Next]_vars => IInv'
<1>. SUFFICES ASSUME IInv, [Next]_vars PROVE IInv'
  OBVIOUS
<1>1. CASE Release \/ Read
  BY <1>1, ReleaseStep
<1>2. CASE \/ ReturnTarget \/ MoreUnprocessedDataFails \/ NoMoreData
           \/ UnexpectedData \/ ReadRecFails \/ ReadRecNoMatch
           \/ RecNextFails \/ RecNextRoot
  BY <1>2, QuietStep
<1>3. CASE ReadRecMatch
  BY <1>3, MatchStep
<1>4. CASE RecDone
  BY <1>4, DoneStep
<1>5. CASE RecNextUp
  BY <1>5, UpStep
<1>6. CASE Ended \/ UNCHANGED vars
  <2>1. UNCHANGED vars
    BY <1>6 DEF Ended
  <2>2. UNCHANGED <<fileDecl, lines, tail, pos, stack, target, nodes, lastID,
                    pc, caller, reply, delivered>>
    BY <2>1 DEF vars
  <2>3. /\ \A i \in 1..Len(stack) : Open(i)' <=> Open(i)
        /\ OpenNodes' = OpenNodes /\ Top' = Top
    BY <2>2 DEF Open, OpenNodes, Top
  <2>4. TypeOK'
    BY <2>2 DEF IInv, TypeOK
  <2>5. CallInv'
    BY <2>2, <2>3 DEF IInv, CallInv, Target
  <2>6. StackInv'
    BY <2>2, <2>3, StackFacts DEF IInv, StackInv, ChildDecls, Open
  <2>7. OccurredInv'
    BY <2>2, <2>3 DEF IInv, OccurredInv, RecDoneNeverFails, TooFew, Open,
                      MinOccurs, MaxOccurs, MaxEffective
  <2>8. TreeInv'
    BY <2>2 DEF IInv, TreeInv
  <2>9. ChainInv'
    BY <2>2, <2>3 DEF IInv, ChainInv
  <2>10. TargetInv'
    BY <2>2, <2>3 DEF IInv, TargetInv, Target, PassesFilter
  <2>11. KidsInv'
    <3>1. \A n, d : AllKidsInRange(n, d)' <=> AllKidsInRange(n, d)
      BY <2>2 DEF AllKidsInRange, KidsInRange, ChildDecls, MinOccurs, MaxOccurs, MaxEffective
    <3>2. \A n, e, k : KidsCounted(n, e, k)' <=> KidsCounted(n, e, k)
      BY <2>2 DEF KidsCounted, KidsInRange, ChildDecls, MinOccurs, MaxOccurs, MaxEffective
    <3>3. \A i \in 1..(Len(stack) - 1) : Count(i+1)' = Count(i+1)
      BY <2>2 DEF Count, Open
    <3>4. \A i \in 1..(Len(stack) - 1) :
             KidsCounted(stack[i].node, stack[i], Count(i+1))'
      BY <2>2, <3>2, <3>3 DEF IInv, KidsInv
    <3>. QED BY <2>2, <2>3, <3>1, <3>4 DEF IInv, KidsInv
  <2>. QED BY <2>4, <2>5, <2>6, <2>7, <2>8, <2>9, <2>10, <2>11 DEF IInv
<1>. QED BY <1>1, <1>2, <1>3, <1>4, <1>5, <1>6 DEF Next, ReadStep

(***************************************************************************)
(* IInv is inductive: whatever the schema, the input and the way it ends,  *)
(* it holds whenever Read() is at the head of its loop, in recDone, in     *)
(* recNext, or between two calls.                                          *)
(***************************************************************************)
THEOREM Invariance == Spec => []IInv
<1>1. Init => IInv
  BY InitInv
<1>2. IInv /\ [Next]_vars => IInv'
  BY NextInv
<1>. QED BY <1>1, <1>2, PTL DEF Spec

(* Every variable of the reader stays within its type. *)
THEOREM TypeCorrect == Spec => []TypeOK
<1>1. IInv => TypeOK
  BY DEF IInv
<1>. QED BY <1>1, Invariance, PTL

(***************************************************************************)
(* Neither of the two panics of recDone can happen: no second target is    *)
(* ever completed while one waits, and a completed record has its node     *)
(* (hierarchyReader.go:223-229).                                           *)
(***************************************************************************)
THEOREM PanicFree == Spec => []NoPanic
<1>1. IInv => NoPanic
  <2>. SUFFICES ASSUME IInv, pc = "recDone", Target(Top.decl)
                PROVE  target = Nil /\ Top.node # Nil
    BY DEF NoPanic, RecDonePanics
  <2>1. Len(stack) \in 1..Len(stack) /\ Open(Len(stack)) /\ Top = stack[Len(stack)]
    BY StackFacts DEF IInv, Open, Top
  <2>2. target = Nil
    BY <2>1 DEF IInv, CallInv
  <2>3. Top.node \in DOMAIN nodes
    BY <2>1 DEF IInv, ChainInv
  <2>4. Top.node # Nil
    BY <2>3, NodeFacts DEF IInv, Nil
  <2>. QED BY <2>2, <2>4
<1>. QED BY <1>1, Invariance, PTL

(***************************************************************************)
(* recDone may ignore what recNext returns: when it calls recNext, the     *)
(* minimum is always reached (hierarchyReader.go:240-245).                 *)
(***************************************************************************)
THEOREM RecNextOfRecDone == Spec => []RecDoneNeverFails
<1>1. IInv => RecDoneNeverFails
  BY DEF IInv, OccurredInv
<1>. QED BY <1>1, Invariance, PTL

(***************************************************************************)
(* The stack never reaches a recycled node where the reader would use it:  *)
(* AddChild always attaches to a live node of the right declaration.       *)
(***************************************************************************)
THEOREM LiveChain == Spec => []OpenChainLive
<1>1. IInv => OpenChainLive
  BY DEF IInv, ChainInv, OpenChainLive
<1>. QED BY <1>1, Invariance, PTL

(* Releases take whole subtrees and never the root. *)
THEOREM ReleasesWholeSubtrees == Spec => []TreeClosed
<1>1. IInv => TreeClosed
  BY DEF IInv, TreeInv, TreeClosed
<1>. QED BY <1>1, Invariance, PTL

(***************************************************************************)
(* A complete record instance has between min and max (0 counting as 1)    *)
(* instances of every child declaration, including those released after    *)
(* they were transformed.                                                  *)
(***************************************************************************)
THEOREM OccursInRange == Spec => []OccursHonoured
<1>1. IInv => OccursHonoured
  <2>. SUFFICES ASSUME IInv, NEW n \in DOMAIN nodes \ OpenNodes, NEW c \in Kids(n)
                PROVE  Enough(n, c) /\ NotMore(n, c)
    BY DEF OccursHonoured
  <2>. DEFINE d == nodes[n].decl
  <2>1. TypeOK /\ d \in Decls
    BY NodeFacts DEF IInv
  <2>. HIDE DEF d
  <2>2. AllKidsInRange(n, d)
    BY DEF IInv, KidsInv, d
  <2>3. ChildDecls(d) \in Seq(Decls)
    BY <2>1, DeclFacts
  <2>4. PICK j \in 1..Len(ChildDecls(d)) : c = ChildDecls(d)[j]
    BY <2>3 DEF Kids, Range, d
  <2>5. c \in Decls /\ nodes[n].kids[c] \in Nat
    BY <2>1, <2>4, DeclFacts, NodeFacts
  <2>6. KidsInRange(n, c)
    BY <2>2, <2>4 DEF AllKidsInRange
  <2>7. MinOccurs(c) \in Nat /\ MaxOccurs(c) \in Nat
    BY <2>1, <2>5, DeclFacts
  <2>. QED BY <2>5, <2>6, <2>7 DEF KidsInRange, Enough, NotMore, MaxEffective
<1>. QED BY <1>1, Invariance, PTL

(***************************************************************************)
(* The node that Read() returned is a complete target record that passed   *)
(* the filter: no part of its subtree is still on the stack's open path.   *)
(***************************************************************************)
THEOREM TargetIntact == Spec => []ReturnedTargetIntact
<1>1. IInv => ReturnedTargetIntact
  <2>. SUFFICES ASSUME IInv, reply.node # Nil PROVE
                /\ Target(nodes[reply.node].decl)
                /\ PassesFilter(reply.node)
                /\ Subtree(reply.node) \cap OpenNodes = {}
                /\ reply.node = target
    BY DEF ReturnedTargetIntact
  <2>1. target = reply.node /\ target # Nil
    BY DEF IInv, CallInv
  <2>2. Target(nodes[target].decl) /\ PassesFilter(target) /\ target \notin OpenNodes
    BY <2>1 DEF IInv, TargetInv
  <2>3. ASSUME NEW m \in OpenNodes PROVE target \notin nodes[m].path
    <3>1. PICK i \in 1..Len(stack) : Open(i) /\ m = stack[i].node
      BY DEF OpenNodes
    <3>2. nodes[m].path = {stack[j].node : j \in 1..i}
      BY <3>1 DEF IInv, ChainInv
    <3>3. ASSUME NEW j \in 1..i PROVE stack[j].node \in OpenNodes
      <4>1. j \in 1..Len(stack) /\ Open(j)
        BY <3>1, StackFacts DEF Open, IInv
      <4>. QED BY <4>1 DEF OpenNodes
    <3>. QED BY <3>2, <3>3, <2>2
  <2>4. Subtree(target) \cap OpenNodes = {}
    BY <2>3 DEF Subtree
  <2>. QED BY <2>1, <2>2, <2>4
<1>. QED BY <1>1, Invariance, PTL
==============================================================================
