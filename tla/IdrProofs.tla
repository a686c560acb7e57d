------------------------------ MODULE IdrProofs ------------------------------
(***************************************************************************)
(* Theorems about the links and the pool of IDR nodes, for any number of   *)
(* nodes and goroutines and every interleaving of them.                    *)
(*                                                                         *)
(* The invariants of Idr are not inductive.  What recycle gives away is    *)
(* its own because every node it has still to reach hangs below one of its *)
(* frames, once, and is linked as it was in the tree; and it forgets none  *)
(* because nodes do not hang below each other in a circle.  IInv says so.  *)
(***************************************************************************)
EXTENDS Idr, SequenceTheorems, TLAPS

(* Popping a stack drops its last entry and keeps the others. *)
LEMMA FrontType ==
    ASSUME NEW S, NEW s \in Seq(S), s # <<>>
    PROVE  /\ Front(s) \in Seq(S)
           /\ Len(Front(s)) = Len(s) - 1
           /\ \A i \in 1..(Len(s) - 1) : Front(s)[i] = s[i]
<1>. DEFINE n == Len(s) - 1
<1>1. Len(s) \in Nat /\ Len(s) >= 1 /\ n \in Nat
  BY EmptySeq
<1>2. \A i \in 1..n : s[i] \in S
  BY <1>1, ElementOfSeq
<1>. HIDE DEF n
<1>3. /\ SubSeq(s, 1, n) \in Seq(S)
      /\ Len(SubSeq(s, 1, n)) = IF 1 <= n THEN n-1+1 ELSE 0
      /\ \A i \in 1 .. n-1+1 : SubSeq(s, 1, n)[i] = s[1+i-1]
  BY <1>1, <1>2, SubSeqProperties
<1>4. Front(s) = SubSeq(s, 1, n)
  BY DEF Front, n
<1>5. ASSUME NEW i \in 1..n PROVE Front(s)[i] = s[i]
  <2>1. i \in 1 .. n-1+1 /\ 1+i-1 = i
    BY <1>1
  <2>. QED BY <2>1, <1>3, <1>4
<1>6. Len(Front(s)) = n
  BY <1>1, <1>3, <1>4
<1>. QED BY <1>3, <1>4, <1>5, <1>6 DEF n
-----------------------------------------------------------------------------

IsKid(n) == \E x \in Nodes : n \in ToSet(kids[x])

InFrame(n) == \E i \in DOMAIN frames[owner[n]] : frames[owner[n]][i].node = n

(* A node has one parent at most, and one place among its children. *)
OneParent ==
    \A x, y \in Nodes : \A i \in DOMAIN kids[x], j \in DOMAIN kids[y] :
        kids[x][i] = kids[y][j] => x = y /\ i = j

(* A tree is in use, or is being recycled, as a whole, and by one process. *)
Together ==
    /\ \A x \in Nodes : \A i \in DOMAIN kids[x] :
          /\ where[x] \in {"tree", "dying"}
          /\ where[kids[x][i]] = where[x]
          /\ owner[kids[x][i]] = owner[x]
    /\ \A x \in Nodes : where[x] \in {"tree", "dying"} => owner[x] \in Procs

(* Nodes do not hang below each other in a circle: in every set of nodes *)
(* there is one that is not a child of another.                          *)
NoCircle ==
    \A S \in SUBSET Nodes : S # {} => \E m \in S : \A x \in S : m \notin ToSet(kids[x])

Unlinks ==
    /\ \A n \in Nodes : where[n] \in {"fresh", "pool"} => links[n] = NoLinks
    /\ \A n \in Nodes : where[n] = "tree" /\ ~IsKid(n) =>
          links[n].parent = Nil /\ links[n].prev = Nil /\ links[n].next = Nil

(* Each frame is at the first child that is left; its node is nobody's child. *)
FramesInv ==
    \A p \in Procs : \A i \in DOMAIN frames[p] :
        /\ where[frames[p][i].node] = "dying"
        /\ owner[frames[p][i].node] = p
        /\ ~IsKid(frames[p][i].node)
        /\ frames[p][i].child = Kid(frames[p][i].node, 1)
        /\ \A j \in DOMAIN frames[p] : frames[p][i].node = frames[p][j].node => i = j

(* What is left to recycle is linked as recycle needs it. *)
DyingInv ==
    \A n \in Nodes : where[n] = "dying" =>
        /\ InFrame(n) \/ IsKid(n)
        /\ InFrame(n) \/ links[n].first = Kid(n, 1)
        /\ \A i \in DOMAIN kids[n] : links[kids[n][i]].next = Kid(n, i + 1)

(* The IDs in the pool were never in use, and are distinct. *)
PoolIDs ==
    \A n \in Nodes : where[n] = "pool" =>
        /\ id[n] \in (1..nodeID) \ used
        /\ \A m \in Nodes : where[m] = "pool" /\ id[m] = id[n] => m = n

IInv ==
    /\ TypeOK
    /\ OneParent
    /\ Together
    /\ NoCircle
    /\ Unlinks
    /\ LinksAgree
    /\ FramesInv
    /\ DyingInv
    /\ PoolIDs
-----------------------------------------------------------------------------
(* Sequences and subtrees. *)

LEMMA KidFacts ==
    ASSUME TypeOK, NEW x \in Nodes
    PROVE  /\ Len(kids[x]) \in Nat
           /\ DOMAIN kids[x] = 1..Len(kids[x])
           /\ \A i \in DOMAIN kids[x] : kids[x][i] \in Nodes
           /\ ToSet(kids[x]) = {kids[x][i] : i \in DOMAIN kids[x]}
<1>1. kids[x] \in Seq(Nodes)
  BY DEF TypeOK
<1>. QED BY <1>1, LenProperties, ElementOfSeq DEF ToSet

Link == [parent : Pointers, first : Pointers, last : Pointers, prev : Pointers, next : Pointers]

LEMMA LinkFacts ==
    ASSUME TypeOK
    PROVE  links \in [Nodes -> Link]
BY DEF TypeOK, Link

LEMMA FrameFacts ==
    ASSUME TypeOK, NEW p \in Procs
    PROVE  /\ frames[p] \in Seq([node : Nodes, child : Pointers])
           /\ Len(frames[p]) \in Nat
           /\ DOMAIN frames[p] = 1..Len(frames[p])
           /\ \A i \in DOMAIN frames[p] :
                 frames[p][i].node \in Nodes /\ frames[p][i].child \in Pointers
<1>1. frames[p] \in Seq([node : Nodes, child : Pointers])
  BY DEF TypeOK
<1>2. \A i \in DOMAIN frames[p] : frames[p][i] \in [node : Nodes, child : Pointers]
  BY <1>1, LenProperties, ElementOfSeq
<1>. QED BY <1>1, <1>2, LenProperties

(* What is left of a sequence without its j-th element. *)
LEMMA WithoutFacts ==
    ASSUME NEW S, NEW s \in Seq(S), NEW j \in DOMAIN s,
           \A i \in DOMAIN s : s[i] = s[j] => i = j
    PROVE  /\ Without(s, s[j]) \in Seq(S)
           /\ Len(Without(s, s[j])) = Len(s) - 1
           /\ DOMAIN Without(s, s[j]) = 1..(Len(s) - 1)
           /\ \A i \in 1..(Len(s) - 1) :
                 Without(s, s[j])[i] = IF i < j THEN s[i] ELSE s[i + 1]
           /\ ToSet(Without(s, s[j])) = ToSet(s) \ {s[j]}
<1>1. /\ Len(s) \in Nat
      /\ DOMAIN s = 1..Len(s)
      /\ \A i \in DOMAIN s : s[i] \in S
  BY LenProperties, ElementOfSeq
<1>. DEFINE w == Without(s, s[j])
            front == SubSeq(s, 1, j - 1)
            back  == SubSeq(s, j + 1, Len(s))
<1>2. w = front \o back
  <2>1. (CHOOSE i \in DOMAIN s : s[i] = s[j]) = j
    OBVIOUS
  <2>. QED BY <2>1 DEF Without, RemoveAt
<1>3. /\ front \in Seq(S)
      /\ Len(front) = j - 1
      /\ \A i \in 1..(j - 1) : front[i] = s[i]
  <2>1. j \in Nat /\ j >= 1 /\ j <= Len(s) /\ j - 1 \in Int /\ 1 \in Int
    BY <1>1
  <2>2. \A i \in 1..(j - 1) : s[i] \in S
    BY <1>1, <2>1
  <2>3. /\ front \in Seq(S)
        /\ Len(front) = IF 1 <= j - 1 THEN j - 1 - 1 + 1 ELSE 0
        /\ \A i \in 1..(j - 1 - 1 + 1) : front[i] = s[1 + i - 1]
    BY <2>1, <2>2, SubSeqProperties
  <2>4. Len(front) = j - 1
    BY <2>1, <2>3
  <2>5. ASSUME NEW i \in 1..(j - 1) PROVE front[i] = s[i]
    <3>1. i \in 1..(j - 1 - 1 + 1) /\ 1 + i - 1 = i
      BY <2>1
    <3>. QED BY <3>1, <2>3
  <2>. QED BY <2>3, <2>4, <2>5
<1>4. /\ back \in Seq(S)
      /\ Len(back) = Len(s) - j
      /\ \A i \in 1..(Len(s) - j) : back[i] = s[j + i]
  <2>1. j \in Nat /\ j >= 1 /\ j <= Len(s) /\ j + 1 \in Int /\ Len(s) \in Int
    BY <1>1
  <2>2. \A i \in (j + 1)..Len(s) : s[i] \in S
    BY <1>1, <2>1
  <2>3. /\ back \in Seq(S)
        /\ Len(back) = IF j + 1 <= Len(s) THEN Len(s) - (j + 1) + 1 ELSE 0
        /\ \A i \in 1..(Len(s) - (j + 1) + 1) : back[i] = s[j + 1 + i - 1]
    BY <2>1, <2>2, SubSeqProperties
  <2>4. Len(back) = Len(s) - j
    BY <2>1, <2>3
  <2>5. ASSUME NEW i \in 1..(Len(s) - j) PROVE back[i] = s[j + i]
    <3>1. i \in Int /\ 1 <= i /\ i <= Len(s) - j
      BY <2>1
    <3>2. Len(s) - (j + 1) + 1 = Len(s) - j
      BY <2>1
    <3>3. j + 1 + i - 1 = j + i
      BY <3>1, <2>1
    <3>. QED BY <3>1, <3>2, <3>3, <2>3
  <2>. QED BY <2>3, <2>4, <2>5
<1>. HIDE DEF w, front, back
<1>5. /\ w \in Seq(S)
      /\ Len(w) = Len(s) - 1
      /\ \A i \in 1..(Len(s) - 1) : w[i] = IF i <= j - 1 THEN front[i] ELSE back[i - (j - 1)]
  <2>1. /\ w \in Seq(S)
        /\ Len(w) = Len(front) + Len(back)
        /\ \A i \in 1..(Len(front) + Len(back)) :
              w[i] = IF i <= Len(front) THEN front[i] ELSE back[i - Len(front)]
    BY <1>2, <1>3, <1>4, ConcatProperties
  <2>2. Len(front) + Len(back) = Len(s) - 1
    BY <1>1, <1>3, <1>4
  <2>. QED BY <2>1, <2>2, <1>3
<1>6. ASSUME NEW i \in 1..(Len(s) - 1)
      PROVE  w[i] = IF i < j THEN s[i] ELSE s[i + 1]
  <2>1. CASE i < j
    BY <2>1, <1>1, <1>3, <1>5
  <2>2. CASE ~(i < j)
    <3>1. i - (j - 1) \in 1..(Len(s) - j) /\ j + (i - (j - 1)) = i + 1 /\ ~(i <= j - 1)
      BY <2>2, <1>1
    <3>. QED BY <3>1, <2>2, <1>4, <1>5
  <2>. QED BY <2>1, <2>2
<1>7. DOMAIN w = 1..(Len(s) - 1)
  BY <1>5, LenProperties
<1>8. ToSet(w) = ToSet(s) \ {s[j]}
  <2>1. ASSUME NEW i \in 1..(Len(s) - 1) PROVE w[i] \in ToSet(s) \ {s[j]}
    <3>1. CASE i < j
      BY <3>1, <1>1, <1>6 DEF ToSet
    <3>2. CASE ~(i < j)
      <4>1. i + 1 \in DOMAIN s /\ i + 1 # j
        BY <3>2, <1>1
      <4>. QED BY <4>1, <3>2, <1>6 DEF ToSet
    <3>. QED BY <3>1, <3>2
  <2>2. ASSUME NEW i \in DOMAIN s, i # j PROVE s[i] \in ToSet(w)
    <3>1. CASE i < j
      <4>1. i \in 1..(Len(s) - 1)
        BY <3>1, <1>1
      <4>. QED BY <4>1, <3>1, <1>6, <1>7 DEF ToSet
    <3>2. CASE i > j
      <4>1. i - 1 \in 1..(Len(s) - 1) /\ ~(i - 1 < j) /\ (i - 1) + 1 = i
        BY <3>2, <1>1
      <4>2. w[i - 1] = s[i]
        BY <4>1, <1>6
      <4>. QED BY <4>1, <4>2, <1>7 DEF ToSet
    <3>. QED BY <2>2, <3>1, <3>2, <1>1
  <2>. QED BY <2>1, <2>2, <1>7 DEF ToSet
<1>. QED BY <1>5, <1>6, <1>7, <1>8 DEF w

(* Of the nodes below n, all but n itself have their parent among them. *)
LEMMA SubtreeFacts ==
    ASSUME TypeOK, NEW n \in Nodes
    PROVE  /\ Subtree(n) \subseteq Nodes
           /\ n \in Subtree(n)
           /\ Closed(Subtree(n))
           /\ \A S \in SUBSET Nodes : n \in S /\ Closed(S) => Subtree(n) \subseteq S
           /\ \A m \in Subtree(n) : m # n => \E x \in Subtree(n) : m \in ToSet(kids[x])
<1>1. /\ Subtree(n) \subseteq Nodes
      /\ n \in Subtree(n)
      /\ \A S \in SUBSET Nodes : n \in S /\ Closed(S) => Subtree(n) \subseteq S
  <2>1. Subtree(n) \subseteq Nodes /\ n \in Subtree(n)
    BY DEF Subtree
  <2>2. ASSUME NEW S \in SUBSET Nodes, n \in S, Closed(S), NEW m \in Subtree(n)
        PROVE  m \in S
    BY <2>2 DEF Subtree
  <2>. QED BY <2>1, <2>2
<1>2. \A x \in Nodes : ToSet(kids[x]) \subseteq Nodes
  <2>1. SUFFICES ASSUME NEW x \in Nodes, NEW m \in ToSet(kids[x]) PROVE m \in Nodes
    OBVIOUS
  <2>2. PICK i \in DOMAIN kids[x] : m = kids[x][i]
    BY DEF ToSet
  <2>. QED BY <2>2, KidFacts
<1>3. Closed(Subtree(n))
  <2>. SUFFICES ASSUME NEW x \in Subtree(n), NEW m \in ToSet(kids[x])
                PROVE  m \in Subtree(n)
    BY DEF Closed
  <2>1. m \in Nodes
    BY <1>1, <1>2
  <2>2. ASSUME NEW S \in SUBSET Nodes, n \in S, Closed(S) PROVE m \in S
    BY <2>2, <1>1 DEF Closed
  <2>. QED BY <2>1, <2>2 DEF Subtree
<1>4. ASSUME NEW m \in Subtree(n), m # n, \A x \in Subtree(n) : m \notin ToSet(kids[x])
      PROVE  FALSE
  <2>. DEFINE S == Subtree(n) \ {m}
  <2>1. S \in SUBSET Nodes /\ n \in S
    BY <1>1, <1>4
  <2>2. Closed(S)
    BY <1>3, <1>4 DEF Closed
  <2>. QED BY <2>1, <2>2, <1>1
<1>. QED BY <1>1, <1>3, <1>4
-----------------------------------------------------------------------------
LEMMA InitInv == Init => IInv
<1>. SUFFICES ASSUME Init PROVE IInv
  OBVIOUS
<1>. USE IdrAssumption DEF Init
<1>1. TypeOK
  BY EmptySeq DEF TypeOK, NoLinks, Pointers
<1>2. \A x \in Nodes : kids[x] = <<>> /\ DOMAIN kids[x] = {} /\ ToSet(kids[x]) = {}
  BY EmptySeq, LenProperties DEF ToSet
<1>3. OneParent /\ Together /\ NoCircle /\ Unlinks
  BY <1>2 DEF OneParent, Together, NoCircle, Unlinks
<1>4. LinksAgree
  BY DEF LinksAgree
<1>5. FramesInv /\ DyingInv /\ PoolIDs
  BY DEF FramesInv, DyingInv, PoolIDs
<1>. QED BY <1>1, <1>3, <1>4, <1>5 DEF IInv

(* A node that is in no tree is nobody's child and has none. *)
LEMMA SingleFacts ==
    ASSUME IInv, NEW n \in Nodes, where[n] \notin {"tree", "dying"}
    PROVE  /\ DOMAIN kids[n] = {}
           /\ \A i : Kid(n, i) = Nil
           /\ ~IsKid(n)
           /\ links[n] = NoLinks
<1>1. DOMAIN kids[n] = {}
  BY DEF IInv, Together
<1>2. ~IsKid(n)
  <2>1. \A x \in Nodes : ToSet(kids[x]) = {kids[x][i] : i \in DOMAIN kids[x]}
    BY KidFacts DEF IInv
  <2>. QED BY <2>1 DEF IInv, Together, IsKid
<1>3. links[n] = NoLinks
  BY DEF IInv, Unlinks, TypeOK
<1>. QED BY <1>1, <1>2, <1>3 DEF Kid

LEMMA CreateStep ==
    ASSUME IInv, NEW p \in Procs, CreateNode(p)
    PROVE  IInv'
<1>. USE IdrAssumption
<1>1. PICK n \in Nodes :
        /\ where[n] \in {"fresh", "pool"}
        /\ nodeID' = IF where[n] = "fresh" THEN nodeID + 1 ELSE nodeID
        /\ id' = [id EXCEPT ![n] = IF where[n] = "fresh" THEN nodeID' ELSE @]
        /\ used' = used \cup {id'[n]}
        /\ where' = [where EXCEPT ![n] = "tree"]
        /\ owner' = [owner EXCEPT ![n] = p]
  BY DEF CreateNode
<1>2. UNCHANGED <<links, frames, kids>>
  BY DEF CreateNode
<1>3. TypeOK
  BY DEF IInv
<1>4. /\ DOMAIN kids[n] = {}
      /\ \A i : Kid(n, i) = Nil
      /\ ~IsKid(n)
      /\ links[n] = NoLinks
  BY <1>1, SingleFacts
<1>5. \A x \in Nodes : x # n => where'[x] = where[x] /\ owner'[x] = owner[x] /\ id'[x] = id[x]
  BY <1>1, <1>3 DEF TypeOK
<1>6. where'[n] = "tree" /\ owner'[n] = p
  BY <1>1, <1>3 DEF TypeOK
<1>7. \A x \in Nodes : \A i \in DOMAIN kids[x] : kids[x][i] \in Nodes /\ kids[x][i] # n /\ x # n
  BY <1>3, <1>4, KidFacts DEF IsKid
<1>8. /\ \A x \in Nodes : IsKid(x)' <=> IsKid(x)
      /\ \A x, i : Kid(x, i)' = Kid(x, i)
  BY <1>2 DEF IsKid, Kid
<1>9. TypeOK'
  <2>1. nodeID' \in Nat /\ nodeID' >= nodeID
    BY <1>1, <1>3 DEF TypeOK
  <2>2. id' \in [Nodes -> 0..nodeID']
    BY <1>1, <1>3, <2>1 DEF TypeOK
  <2>3. used' \subseteq 1..nodeID'
    <3>1. CASE where[n] = "fresh"
      <4>1. id'[n] = nodeID + 1 /\ nodeID' = nodeID + 1
        BY <3>1, <1>1, <1>3 DEF TypeOK
      <4>2. used' = used \cup {nodeID + 1}
        BY <4>1, <1>1
      <4>. QED BY <4>1, <4>2, <1>3 DEF TypeOK
    <3>2. CASE where[n] = "pool"
      BY <3>2, <1>1, <1>3, <2>1 DEF TypeOK, IInv, PoolIDs
    <3>. QED BY <3>1, <3>2, <1>1
  <2>. QED BY <1>1, <1>2, <1>3, <2>1, <2>2, <2>3 DEF TypeOK
<1>10. OneParent' /\ NoCircle'
  BY <1>2 DEF IInv, OneParent, NoCircle
<1>11. Together'
  BY <1>2, <1>5, <1>6, <1>7 DEF IInv, Together
<1>12. Unlinks'
  BY <1>2, <1>4, <1>5, <1>6, <1>8 DEF IInv, Unlinks, NoLinks
<1>13. LinksAgree'
  <2>. SUFFICES ASSUME NEW x \in Nodes, where'[x] = "tree"
                PROVE  /\ links[x].first = Kid(x, 1) /\ links[x].last = Kid(x, Len(kids[x]))
                       /\ \A i \in DOMAIN kids[x] :
                             /\ where'[kids[x][i]] = "tree" /\ owner'[kids[x][i]] = owner'[x]
                             /\ links[kids[x][i]].parent = x
                             /\ links[kids[x][i]].prev = Kid(x, i - 1)
                             /\ links[kids[x][i]].next = Kid(x, i + 1)
    BY <1>2, <1>8 DEF LinksAgree
  <2>1. CASE x = n
    BY <2>1, <1>4 DEF NoLinks
  <2>2. CASE x # n
    <3>1. where[x] = "tree"
      BY <2>2, <1>5
    <3>2. /\ links[x].first = Kid(x, 1) /\ links[x].last = Kid(x, Len(kids[x]))
          /\ \A i \in DOMAIN kids[x] :
                /\ where[kids[x][i]] = "tree" /\ owner[kids[x][i]] = owner[x]
                /\ links[kids[x][i]].parent = x
                /\ links[kids[x][i]].prev = Kid(x, i - 1)
                /\ links[kids[x][i]].next = Kid(x, i + 1)
      BY <3>1 DEF IInv, LinksAgree
    <3>3. \A i \in DOMAIN kids[x] :
             where'[kids[x][i]] = where[kids[x][i]] /\ owner'[kids[x][i]] = owner[kids[x][i]]
      BY <1>5, <1>7
    <3>. QED BY <3>2, <3>3, <2>2, <1>5
  <2>. QED BY <2>1, <2>2
<1>14. FramesInv'
  <2>1. \A q \in Procs : \A i \in DOMAIN frames[q] : frames[q][i].node \in Nodes \ {n}
    <3>1. \A q \in Procs : \A i \in DOMAIN frames[q] : frames[q][i].node \in Nodes
      BY <1>3, FrameFacts
    <3>. QED BY <3>1, <1>1 DEF IInv, FramesInv
  <2>. QED BY <2>1, <1>2, <1>5, <1>8 DEF IInv, FramesInv
<1>15. DyingInv'
  BY <1>2, <1>5, <1>6, <1>8 DEF IInv, DyingInv, InFrame
<1>16. PoolIDs'
  <2>. SUFFICES ASSUME NEW m \in Nodes, where'[m] = "pool"
                PROVE  /\ id'[m] \in (1..nodeID') \ used'
                       /\ \A k \in Nodes : where'[k] = "pool" /\ id'[k] = id'[m] => k = m
    BY DEF PoolIDs
  <2>1. m # n /\ where[m] = "pool" /\ id'[m] = id[m]
    BY <1>5, <1>6
  <2>2. /\ id[m] \in (1..nodeID) \ used
        /\ \A k \in Nodes : where[k] = "pool" /\ id[k] = id[m] => k = m
    BY <2>1 DEF IInv, PoolIDs
  <2>3. id[m] # id'[n]
    BY <2>1, <2>2, <1>1, <1>3 DEF TypeOK
  <2>4. id'[m] \in (1..nodeID') \ used'
    BY <2>1, <2>2, <2>3, <1>1, <1>3 DEF TypeOK
  <2>5. \A k \in Nodes : where'[k] = "pool" /\ id'[k] = id'[m] => k = m
    BY <2>1, <2>2, <1>5, <1>6
  <2>. QED BY <2>4, <2>5
<1>. QED BY <1>9, <1>10, <1>11, <1>12, <1>13, <1>14, <1>15, <1>16 DEF IInv

(* A node without parent, that of no node it leads to, hangs below another. *)
LEMMA AddStep ==
    ASSUME IInv, NEW p \in Procs, AddChild(p)
    PROVE  IInv'
<1>. USE IdrAssumption
<1>1. PICK par \in Nodes, n \in Nodes :
        /\ Idle(p) /\ InTree(p, par) /\ InTree(p, n)
        /\ links[n].parent = Nil
        /\ par \notin Subtree(n)
        /\ links' = IF links[par].first = Nil THEN FirstChild(par, n) ELSE AnotherChild(par, n)
        /\ kids' = [kids EXCEPT ![par] = Append(@, n)]
        /\ UNCHANGED <<id, nodeID, where, owner, frames, used>>
  BY DEF AddChild
<1>2. TypeOK
  BY DEF IInv
<1>3. PICK L \in Nat :
         /\ Len(kids[par]) = L
         /\ kids[par] \in Seq(Nodes)
         /\ DOMAIN kids[par] = 1..L
         /\ \A i \in 1..L : kids[par][i] \in Nodes
  <2>1. Len(kids[par]) \in Nat
    BY <1>2, KidFacts
  <2>. QED BY <2>1, <1>2, KidFacts DEF TypeOK
<1>4. where[n] = "tree" /\ where[par] = "tree" /\ owner[n] = p /\ owner[par] = p
  BY <1>1 DEF InTree
<1>5. \A x \in Nodes : ToSet(kids[x]) = {kids[x][i] : i \in DOMAIN kids[x]}
  BY <1>2, KidFacts
<1>6. ~IsKid(n)
  <2>1. ASSUME NEW x \in Nodes, NEW i \in DOMAIN kids[x], kids[x][i] = n PROVE FALSE
    <3>1. where[x] = "tree"
      BY <2>1, <1>4 DEF IInv, Together
    <3>2. links[n].parent = x
      BY <2>1, <3>1 DEF IInv, LinksAgree
    <3>. QED BY <3>2, <1>1
  <2>. QED BY <2>1, <1>5 DEF IsKid
<1>7. n # par
  BY <1>1, <1>2, SubtreeFacts
<1>8. /\ links[par].first = Kid(par, 1)
      /\ links[par].last = Kid(par, L)
      /\ \A i \in 1..L : kids[par][i] # n /\ kids[par][i] # par
      /\ \A i \in 1..L : where[kids[par][i]] = "tree"
  <2>1. links[par].first = Kid(par, 1) /\ links[par].last = Kid(par, L)
    BY <1>3, <1>4 DEF IInv, LinksAgree
  <2>2. par \notin ToSet(kids[par])
    <3>1. {par} \in SUBSET Nodes /\ {par} # {}
      OBVIOUS
    <3>2. \E m \in {par} : \A x \in {par} : m \notin ToSet(kids[x])
      BY <3>1 DEF IInv, NoCircle
    <3>. QED BY <3>2
  <2>3. \A i \in 1..L : where[kids[par][i]] = "tree"
    BY <1>3, <1>4 DEF IInv, Together
  <2>4. \A i \in 1..L : kids[par][i] \in ToSet(kids[par]) /\ n \notin ToSet(kids[par])
    BY <1>3, <1>5, <1>6 DEF IsKid
  <2>. QED BY <2>1, <2>2, <2>3, <2>4
<1>9. /\ kids' \in [Nodes -> Seq(Nodes)]
      /\ \A x \in Nodes : x # par => kids'[x] = kids[x]
      /\ Len(kids'[par]) = L + 1
      /\ DOMAIN kids'[par] = 1..(L + 1)
      /\ \A i \in 1..L : kids'[par][i] = kids[par][i]
      /\ kids'[par][L + 1] = n
  <2>1. kids'[par] = Append(kids[par], n) /\ \A x \in Nodes : x # par => kids'[x] = kids[x]
    BY <1>1, <1>2 DEF TypeOK
  <2>2. /\ kids'[par] \in Seq(Nodes)
        /\ Len(kids'[par]) = L + 1
        /\ \A i \in 1..L : kids'[par][i] = kids[par][i]
        /\ kids'[par][L + 1] = n
    BY <2>1, <1>3, AppendProperties
  <2>3. DOMAIN kids'[par] = 1..(L + 1)
    BY <2>2, LenProperties
  <2>4. kids' \in [Nodes -> Seq(Nodes)]
    BY <2>1, <2>2, <1>1, <1>2 DEF TypeOK
  <2>. QED BY <2>1, <2>2, <2>3, <2>4
<1>10. /\ \A x \in Nodes : \A i : x # par => Kid(x, i)' = Kid(x, i)
       /\ \A i \in Int : Kid(par, i)' = IF i = L + 1 THEN n ELSE Kid(par, i)
       /\ \A i \in Int : Kid(par, i) = IF i \in 1..L THEN kids[par][i] ELSE Nil
  BY <1>3, <1>9 DEF Kid
<1>11. \A x \in Nodes : ToSet(kids'[x]) = IF x = par THEN ToSet(kids[x]) \cup {n} ELSE ToSet(kids[x])
  <2>1. ToSet(kids'[par]) = {kids'[par][i] : i \in 1..(L + 1)}
    BY <1>9 DEF ToSet
  <2>2. \A i \in 1..(L + 1) : i = L + 1 \/ i \in 1..L
    BY <1>3
  <2>3. L + 1 \in 1..(L + 1) /\ 1..L \subseteq 1..(L + 1)
    BY <1>3
  <2>4. ToSet(kids'[par]) = {kids[par][i] : i \in 1..L} \cup {n}
    BY <2>1, <2>2, <2>3, <1>9
  <2>. QED BY <2>4, <1>3, <1>5, <1>9
<1>12. \A x \in Nodes : IsKid(x)' <=> IsKid(x) \/ x = n
  BY <1>11 DEF IsKid
<1>13. \A x \in Nodes :
         /\ links'[x].parent = IF x = n THEN par ELSE links[x].parent
         /\ links'[x].first = IF x = par /\ L = 0 THEN n ELSE links[x].first
         /\ links'[x].last = IF x = par THEN n ELSE links[x].last
         /\ links'[x].prev = IF x = n THEN Kid(par, L) ELSE links[x].prev
         /\ links'[x].next = IF x = n THEN Nil
                             ELSE IF L > 0 /\ x = Kid(par, L) THEN n ELSE links[x].next
         /\ x \notin {n, par, Kid(par, L)} => links'[x] = links[x]
  <2>1. CASE L = 0
    <3>1. links[par].first = Nil /\ Kid(par, L) = Nil
      BY <2>1, <1>3, <1>8, <1>10
    <3>2. links' = FirstChild(par, n)
      BY <3>1, <1>1
    <3>3. /\ links'[n] = [links[n] EXCEPT !.parent = par, !.next = Nil, !.prev = Nil]
          /\ links'[par] = [links[par] EXCEPT !.first = n, !.last = n]
          /\ \A x \in Nodes : x # n /\ x # par => links'[x] = links[x]
      BY <3>2, <1>2, <1>7 DEF FirstChild, TypeOK
    <3>4. /\ links'[n].parent = par /\ links'[n].prev = Nil /\ links'[n].next = Nil
          /\ links'[n].first = links[n].first /\ links'[n].last = links[n].last
          /\ links'[par].first = n /\ links'[par].last = n
          /\ links'[par].parent = links[par].parent
          /\ links'[par].prev = links[par].prev /\ links'[par].next = links[par].next
      <4>1. links[n] \in Link /\ links[par] \in Link
        BY <1>2, LinkFacts
      <4>. QED BY <4>1, <3>3 DEF Link
    <3>5. ASSUME NEW x \in Nodes
          PROVE  /\ links'[x].parent = IF x = n THEN par ELSE links[x].parent
                 /\ links'[x].first = IF x = par THEN n ELSE links[x].first
                 /\ links'[x].last = IF x = par THEN n ELSE links[x].last
                 /\ links'[x].prev = IF x = n THEN Nil ELSE links[x].prev
                 /\ links'[x].next = IF x = n THEN Nil ELSE links[x].next
                 /\ x \notin {n, par} => links'[x] = links[x]
      <4>1. CASE x = n
        BY <4>1, <3>4, <1>7
      <4>2. CASE x = par
        BY <4>2, <3>4, <1>7
      <4>3. CASE x # n /\ x # par
        BY <4>3, <3>3
      <4>. QED BY <4>1, <4>2, <4>3
    <3>6. ~(L > 0)
      BY <2>1
    <3>. QED BY <2>1, <3>1, <3>5, <3>6
  <2>2. CASE L > 0
    <3>1. links[par].first # Nil /\ links[par].last = kids[par][L] /\ Kid(par, L) = kids[par][L]
      BY <2>2, <1>3, <1>8, <1>10
    <3>2. links' = AnotherChild(par, n)
      BY <3>1, <1>1
    <3>3. kids[par][L] \in Nodes /\ kids[par][L] # n /\ kids[par][L] # par
      BY <2>2, <1>3, <1>8
    <3>4. /\ links'[n] = [links[n] EXCEPT !.parent = par, !.next = Nil, !.prev = kids[par][L]]
          /\ links'[kids[par][L]] = [links[kids[par][L]] EXCEPT !.next = n]
          /\ links'[par] = [links[par] EXCEPT !.last = n]
          /\ \A x \in Nodes : x \notin {n, par, kids[par][L]} => links'[x] = links[x]
      BY <3>1, <3>2, <3>3, <1>2, <1>7 DEF AnotherChild, TypeOK
    <3>. DEFINE k == kids[par][L]
    <3>5. /\ links'[n].parent = par /\ links'[n].prev = k /\ links'[n].next = Nil
          /\ links'[n].first = links[n].first /\ links'[n].last = links[n].last
          /\ links'[par].first = links[par].first /\ links'[par].last = n
          /\ links'[par].parent = links[par].parent
          /\ links'[par].prev = links[par].prev /\ links'[par].next = links[par].next
          /\ links'[k].parent = links[k].parent /\ links'[k].prev = links[k].prev
          /\ links'[k].first = links[k].first /\ links'[k].last = links[k].last
          /\ links'[k].next = n
      <4>1. links[n] \in Link /\ links[par] \in Link /\ links[k] \in Link
        BY <3>3, <1>2, LinkFacts
      <4>. QED BY <4>1, <3>4 DEF Link
    <3>6. k \in Nodes /\ k # n /\ k # par /\ Kid(par, L) = k /\ ~(L = 0)
          /\ \A x \in Nodes : x \notin {n, par, k} => links'[x] = links[x]
      BY <2>2, <3>1, <3>3, <3>4
    <3>. HIDE DEF k
    <3>. QED BY ONLY <2>2, <3>5, <3>6, <1>7
  <2>. QED BY <2>1, <2>2, <1>3
<1>14. TypeOK'
  <2>1. \A x \in Nodes : links[x] \in Link
    BY <1>2, LinkFacts
  <2>2. FirstChild(par, n) \in [Nodes -> Link]
    <3>1. [links[n] EXCEPT !.parent = par, !.next = Nil, !.prev = Nil] \in Link
      BY <2>1 DEF Link, Pointers
    <3>2. [links[par] EXCEPT !.first = n, !.last = n] \in Link
      BY <2>1 DEF Link, Pointers
    <3>. QED BY <3>1, <3>2, <1>2, <1>7, LinkFacts DEF FirstChild
  <2>3. ASSUME links[par].first # Nil PROVE AnotherChild(par, n) \in [Nodes -> Link]
    <3>. DEFINE l == links[par].last
    <3>1. l \in Nodes /\ l # n /\ l # par
      BY <2>3, <1>3, <1>8, <1>10
    <3>2. [links[n] EXCEPT !.parent = par, !.next = Nil, !.prev = l] \in Link
      BY <2>1, <3>1 DEF Link, Pointers
    <3>3. [links[l] EXCEPT !.next = n] \in Link
      BY <2>1, <3>1 DEF Link, Pointers
    <3>4. [links[par] EXCEPT !.last = n] \in Link
      BY <2>1 DEF Link, Pointers
    <3>. HIDE DEF l
    <3>5. AnotherChild(par, n) =
             [links EXCEPT ![n] = [links[n] EXCEPT !.parent = par, !.next = Nil, !.prev = l],
                           ![l] = [links[l] EXCEPT !.next = n],
                           ![par] = [links[par] EXCEPT !.last = n]]
      BY <3>1, <1>2, <1>7, LinkFacts DEF AnotherChild, l
    <3>. QED BY <3>1, <3>2, <3>3, <3>4, <3>5, <1>2, LinkFacts
  <2>4. links' \in [Nodes -> Link]
    BY <2>2, <2>3, <1>1
  <2>. QED BY <2>4, <1>1, <1>2, <1>9 DEF TypeOK, Link
<1>15. OneParent'
  <2>. SUFFICES ASSUME NEW x \in Nodes, NEW y \in Nodes,
                       NEW i \in DOMAIN kids'[x], NEW j \in DOMAIN kids'[y],
                       kids'[x][i] = kids'[y][j]
                PROVE  x = y /\ i = j
    BY DEF OneParent
  <2>1. \A z \in Nodes : \A k \in DOMAIN kids'[z] :
          \/ kids'[z][k] = n /\ z = par /\ k = L + 1
          \/ kids'[z][k] # n /\ k \in DOMAIN kids[z] /\ kids'[z][k] = kids[z][k]
    <3>1. \A z \in Nodes : \A k \in DOMAIN kids[z] : kids[z][k] # n
      BY <1>5, <1>6 DEF IsKid
    <3>. SUFFICES ASSUME NEW z \in Nodes, NEW k \in DOMAIN kids'[z]
                  PROVE  \/ kids'[z][k] = n /\ z = par /\ k = L + 1
                         \/ kids'[z][k] # n /\ k \in DOMAIN kids[z] /\ kids'[z][k] = kids[z][k]
      OBVIOUS
    <3>2. CASE z = par
      <4>1. k = L + 1 \/ k \in 1..L
        BY <3>2, <1>3, <1>9
      <4>. QED BY <4>1, <3>1, <3>2, <1>3, <1>9
    <3>3. CASE z # par
      BY <3>1, <3>3, <1>9
    <3>. QED BY <3>2, <3>3
  <2>. QED BY <2>1 DEF IInv, OneParent
<1>16. Together'
  <2>1. ASSUME NEW x \in Nodes, NEW i \in DOMAIN kids'[x]
        PROVE  /\ where[x] \in {"tree", "dying"}
               /\ where[kids'[x][i]] = where[x]
               /\ owner[kids'[x][i]] = owner[x]
    <3>1. CASE x = par /\ i = L + 1
      BY <3>1, <1>4, <1>9
    <3>2. CASE ~(x = par /\ i = L + 1)
      <4>1. i \in DOMAIN kids[x] /\ kids'[x][i] = kids[x][i]
        BY <3>2, <1>3, <1>9
      <4>. QED BY <4>1 DEF IInv, Together
    <3>. QED BY <3>1, <3>2
  <2>. QED BY <2>1, <1>1 DEF IInv, Together
<1>17. NoCircle'
  <2>. SUFFICES ASSUME NEW S \in SUBSET Nodes, S # {},
                       \A m \in S : \E x \in S : m \in ToSet(kids'[x])
                PROVE  FALSE
    BY DEF NoCircle
  <2>. DEFINE T == S \ Subtree(n)
  <2>1. \A m \in S : m # n => \E x \in S : m \in ToSet(kids[x])
    BY <1>11
  <2>2. n \in S
    <3>1. PICK m \in S : \A x \in S : m \notin ToSet(kids[x])
      BY DEF IInv, NoCircle
    <3>. QED BY <3>1, <2>1
  <2>3. par \in S
    BY <2>2, <1>5, <1>6, <1>11 DEF IsKid
  <2>4. T \in SUBSET Nodes /\ T # {}
    BY <2>3, <1>1
  <2>5. PICK m \in T : \A x \in T : m \notin ToSet(kids[x])
    BY <2>4 DEF IInv, NoCircle
  <2>6. m # n
    BY <2>5, <1>2, SubtreeFacts
  <2>7. PICK x \in S : m \in ToSet(kids[x])
    BY <2>5, <2>6, <2>1
  <2>8. x \notin Subtree(n)
    BY <2>5, <2>7, <1>2, SubtreeFacts DEF Closed
  <2>. QED BY <2>5, <2>7, <2>8
<1>18. Unlinks'
  <2>1. ASSUME NEW x \in Nodes, where[x] \in {"fresh", "pool"} PROVE links'[x] = NoLinks
    <3>1. x \notin {n, par, Kid(par, L)}
      BY <2>1, <1>3, <1>4, <1>8, <1>10
    <3>. QED BY <2>1, <3>1, <1>13 DEF IInv, Unlinks
  <2>2. ASSUME NEW x \in Nodes, where[x] = "tree", ~IsKid(x)'
        PROVE  links'[x].parent = Nil /\ links'[x].prev = Nil /\ links'[x].next = Nil
    <3>1. x # n /\ ~IsKid(x)
      BY <2>2, <1>12
    <3>2. ~(L > 0 /\ x = Kid(par, L))
      <4>1. \A i \in 1..L : x # kids[par][i]
        BY <3>1, <1>3, <1>5 DEF IsKid
      <4>. QED BY <4>1, <1>3, <1>10
    <3>. QED BY <2>2, <3>1, <3>2, <1>13 DEF IInv, Unlinks
  <2>. QED BY <2>1, <2>2, <1>1 DEF Unlinks
<1>19. LinksAgree'
  <2>. SUFFICES ASSUME NEW x \in Nodes, where[x] = "tree"
                PROVE  /\ links'[x].first = Kid(x, 1)' /\ links'[x].last = Kid(x, Len(kids[x]))'
                       /\ \A i \in DOMAIN kids'[x] :
                             /\ where[kids'[x][i]] = "tree" /\ owner[kids'[x][i]] = owner[x]
                             /\ links'[kids'[x][i]].parent = x
                             /\ links'[kids'[x][i]].prev = Kid(x, i - 1)'
                             /\ links'[kids'[x][i]].next = Kid(x, i + 1)'
    BY <1>1 DEF LinksAgree
  <2>1. /\ links[x].first = Kid(x, 1) /\ links[x].last = Kid(x, Len(kids[x]))
        /\ \A i \in DOMAIN kids[x] :
              /\ where[kids[x][i]] = "tree" /\ owner[kids[x][i]] = owner[x]
              /\ links[kids[x][i]].parent = x
              /\ links[kids[x][i]].prev = Kid(x, i - 1)
              /\ links[kids[x][i]].next = Kid(x, i + 1)
    BY DEF IInv, LinksAgree
  <2>2. \A i \in DOMAIN kids[x] : kids[x][i] \in Nodes /\ kids[x][i] # n
    BY <1>2, <1>5, <1>6, KidFacts DEF IsKid
  <2>3. CASE x # par
    <3>1. kids'[x] = kids[x] /\ Kid(x, Len(kids[x]))' = Kid(x, Len(kids[x]))
      BY <2>3, <1>9, <1>10 DEF Kid
    <3>2. \A i \in DOMAIN kids[x] : ~(L > 0 /\ kids[x][i] = Kid(par, L))
      BY <2>3, <1>3, <1>10 DEF IInv, OneParent
    <3>. QED BY <2>1, <2>2, <2>3, <3>1, <3>2, <1>10, <1>13
  <2>4. CASE x = par
    <3>1. links'[x].first = Kid(x, 1)'
      BY <2>1, <2>4, <1>3, <1>10, <1>13
    <3>2. links'[x].last = Kid(x, Len(kids[x]))'
      <4>1. Kid(x, Len(kids[x]))' = n
        BY <2>4, <1>3, <1>9 DEF Kid
      <4>. QED BY <4>1, <2>4, <1>13
    <3>3. ASSUME NEW i \in 1..L
          PROVE  /\ where[kids'[x][i]] = "tree" /\ owner[kids'[x][i]] = owner[x]
                 /\ links'[kids'[x][i]].parent = x
                 /\ links'[kids'[x][i]].prev = Kid(x, i - 1)'
                 /\ links'[kids'[x][i]].next = Kid(x, i + 1)'
      <4>1. kids'[x][i] = kids[x][i] /\ i \in DOMAIN kids[x]
        BY <2>4, <1>3, <1>9
      <4>2. Kid(x, i - 1)' = Kid(x, i - 1)
        BY <2>4, <1>3, <1>10
      <4>3. CASE i = L
        <5>1. kids[x][i] = Kid(par, L) /\ L > 0 /\ Kid(x, i + 1)' = n
          BY <4>3, <2>4, <1>3, <1>10
        <5>. QED BY <5>1, <4>1, <4>2, <2>1, <2>2, <1>13
      <4>4. CASE i # L
        <5>1. kids[x][i] # Kid(par, L) /\ Kid(x, i + 1)' = Kid(x, i + 1)
          BY <4>1, <4>4, <2>4, <1>3, <1>10 DEF IInv, OneParent
        <5>. QED BY <5>1, <4>1, <4>2, <2>1, <2>2, <1>13
      <4>. QED BY <4>3, <4>4
    <3>4. /\ where[n] = "tree" /\ owner[n] = owner[x]
          /\ links'[n].parent = x
          /\ links'[n].prev = Kid(x, L + 1 - 1)'
          /\ links'[n].next = Kid(x, L + 1 + 1)'
      <4>1. /\ L + 1 - 1 = L /\ L \in Int /\ L # L + 1
            /\ L + 1 + 1 \in Int /\ L + 1 + 1 # L + 1 /\ L + 1 + 1 \notin 1..L
        BY <1>3
      <4>2. Kid(par, L)' = Kid(par, L) /\ Kid(par, L + 1 + 1)' = Nil
        BY <4>1, <1>10
      <4>3. Kid(x, L + 1 - 1)' = Kid(par, L)
        BY <4>1, <4>2, <2>4
      <4>4. Kid(x, L + 1 + 1)' = Nil
        BY <4>2, <2>4
      <4>. QED BY <4>3, <4>4, <2>4, <1>4, <1>13
    <3>5. ASSUME NEW i \in DOMAIN kids'[x]
          PROVE  /\ where[kids'[x][i]] = "tree" /\ owner[kids'[x][i]] = owner[x]
                 /\ links'[kids'[x][i]].parent = x
                 /\ links'[kids'[x][i]].prev = Kid(x, i - 1)'
                 /\ links'[kids'[x][i]].next = Kid(x, i + 1)'
      <4>1. i \in 1..L \/ i = L + 1
        BY <2>4, <1>3, <1>9
      <4>2. CASE i = L + 1
        <5>1. kids'[x][i] = n
          BY <4>2, <2>4, <1>9
        <5>. QED BY ONLY <5>1, <4>2, <3>4
      <4>. QED BY <4>1, <4>2, <3>3
    <3>. QED BY <3>1, <3>2, <3>5
  <2>. QED BY <2>3, <2>4
<1>20. FramesInv'
  <2>1. \A q \in Procs : \A i \in DOMAIN frames[q] :
          /\ frames[q][i].node \in Nodes /\ where[frames[q][i].node] = "dying"
    BY <1>2, FrameFacts DEF IInv, FramesInv
  <2>2. \A q \in Procs : \A i \in DOMAIN frames[q] :
          frames[q][i].node \in Nodes \ {n, par}
    BY <2>1, <1>4
  <2>. QED BY <2>2, <1>1, <1>10, <1>12 DEF IInv, FramesInv
<1>21. DyingInv'
  <2>. SUFFICES ASSUME NEW x \in Nodes, where[x] = "dying"
                PROVE  /\ InFrame(x) \/ IsKid(x)'
                       /\ InFrame(x) \/ links'[x].first = Kid(x, 1)'
                       /\ \A i \in DOMAIN kids'[x] : links'[kids'[x][i]].next = Kid(x, i + 1)'
    BY <1>1 DEF DyingInv, InFrame
  <2>1. x # n /\ x # par /\ kids'[x] = kids[x]
    BY <1>4, <1>9
  <2>2. \A i \in DOMAIN kids[x] : /\ kids[x][i] \in Nodes
                                  /\ kids[x][i] # n
                                  /\ ~(L > 0 /\ kids[x][i] = Kid(par, L))
    BY <2>1, <1>2, <1>3, <1>4, <1>8, <1>10, KidFacts DEF IInv, Together
  <2>. QED BY <2>1, <2>2, <1>10, <1>12, <1>13 DEF IInv, DyingInv
<1>22. PoolIDs'
  BY <1>1 DEF IInv, PoolIDs
<1>. QED BY <1>14, <1>15, <1>16, <1>17, <1>18, <1>19, <1>20, <1>21, <1>22 DEF IInv

(* The innermost call of recycle, and what is left when it returns. *)
LEMMA TopFrame ==
    ASSUME IInv, NEW p \in Procs, ~Idle(p)
    PROVE  /\ Len(frames[p]) \in DOMAIN frames[p]
           /\ Last(frames[p]).node \in Nodes
           /\ Last(frames[p]).node = frames[p][Len(frames[p])].node
           /\ Last(frames[p]) \in [node : Nodes, child : Pointers]
           /\ where[Last(frames[p]).node] = "dying"
           /\ owner[Last(frames[p]).node] = p
           /\ ~IsKid(Last(frames[p]).node)
           /\ Last(frames[p]).child = Kid(Last(frames[p]).node, 1)
           /\ Front(frames[p]) \in Seq([node : Nodes, child : Pointers])
           /\ DOMAIN Front(frames[p]) = 1..(Len(frames[p]) - 1)
           /\ \A i \in 1..(Len(frames[p]) - 1) :
                 Front(frames[p])[i] = frames[p][i] /\ i \in DOMAIN frames[p]
<1>1. TypeOK
  BY DEF IInv
<1>2. /\ frames[p] \in Seq([node : Nodes, child : Pointers])
      /\ Len(frames[p]) \in Nat
      /\ DOMAIN frames[p] = 1..Len(frames[p])
      /\ frames[p] # <<>>
  BY <1>1, FrameFacts DEF Idle
<1>3. Len(frames[p]) \in DOMAIN frames[p]
  BY <1>2, EmptySeq
<1>4. frames[p][Len(frames[p])] \in [node : Nodes, child : Pointers]
  BY <1>2, <1>3, ElementOfSeq
<1>5. /\ Front(frames[p]) \in Seq([node : Nodes, child : Pointers])
      /\ Len(Front(frames[p])) = Len(frames[p]) - 1
      /\ \A i \in 1..(Len(frames[p]) - 1) : Front(frames[p])[i] = frames[p][i]
  BY <1>2, FrontType
<1>6. DOMAIN Front(frames[p]) = 1..(Len(frames[p]) - 1)
  BY <1>5, LenProperties
<1>7. 1..(Len(frames[p]) - 1) \subseteq DOMAIN frames[p]
  BY <1>2
<1>. QED BY <1>3, <1>4, <1>5, <1>6, <1>7 DEF IInv, FramesInv, Last

(* A node without children that are left goes to the pool, clean. *)
LEMMA RecycleSelfStep ==
    ASSUME IInv, NEW p \in Procs, RecycleSelf(p)
    PROVE  IInv'
<1>. USE IdrAssumption
<1>1. TypeOK /\ ~Idle(p)
  BY DEF IInv, RecycleSelf
<1>2. PICK n \in Nodes : n = Last(frames[p]).node
  BY <1>1, TopFrame
<1>3. /\ Last(frames[p]).child = Nil
      /\ links' = [links EXCEPT ![n] = NoLinks]
      /\ nodeID' = nodeID + 1
      /\ id' = [id EXCEPT ![n] = nodeID + 1]
      /\ where' = [where EXCEPT ![n] = "pool"]
      /\ frames' = [frames EXCEPT ![p] = Front(frames[p])]
      /\ UNCHANGED <<owner, kids, used>>
  BY <1>2 DEF RecycleSelf, ResetLinks, ResetID
<1>4. /\ where[n] = "dying" /\ owner[n] = p /\ ~IsKid(n)
      /\ Kid(n, 1) = Nil
  BY <1>1, <1>2, <1>3, TopFrame
<1>5. DOMAIN kids[n] = {} /\ \A i : Kid(n, i) = Nil
  <2>1. 1 \notin DOMAIN kids[n]
    BY <1>1, <1>4, KidFacts DEF Kid
  <2>2. DOMAIN kids[n] = {}
    BY <2>1, <1>1, KidFacts
  <2>. QED BY <2>2 DEF Kid
<1>6. \A x \in Nodes : \A i \in DOMAIN kids[x] : kids[x][i] \in Nodes /\ kids[x][i] # n /\ x # n
  BY <1>1, <1>4, <1>5, KidFacts DEF IsKid
<1>7. /\ \A x \in Nodes : x # n => where'[x] = where[x] /\ links'[x] = links[x] /\ id'[x] = id[x]
      /\ where'[n] = "pool" /\ links'[n] = NoLinks /\ id'[n] = nodeID + 1
  BY <1>1, <1>3 DEF TypeOK
<1>8. /\ \A x \in Nodes : IsKid(x)' <=> IsKid(x)
      /\ \A x, i : Kid(x, i)' = Kid(x, i)
  BY <1>3 DEF IsKid, Kid
<1>9. /\ \A q \in Procs : q # p => frames'[q] = frames[q]
      /\ frames'[p] = Front(frames[p])
  BY <1>1, <1>3 DEF TypeOK
<1>10. \A q \in Procs : \A i \in DOMAIN frames'[q] :
          /\ i \in DOMAIN frames[q]
          /\ frames'[q][i] = frames[q][i]
          /\ frames[q][i].node \in Nodes /\ frames[q][i].node # n
  <2>. SUFFICES ASSUME NEW q \in Procs, NEW i \in DOMAIN frames'[q]
                PROVE  /\ i \in DOMAIN frames[q]
                       /\ frames'[q][i] = frames[q][i]
                       /\ frames[q][i].node \in Nodes /\ frames[q][i].node # n
    OBVIOUS
  <2>1. CASE q = p
    <3>1. i \in 1..(Len(frames[p]) - 1) /\ Len(frames[p]) \in Nat
      BY <2>1, <1>1, <1>9, TopFrame, FrameFacts
    <3>2. i \in DOMAIN frames[p] /\ frames'[p][i] = frames[p][i] /\ i # Len(frames[p])
      BY <3>1, <1>1, <1>9, TopFrame
    <3>3. n = frames[p][Len(frames[p])].node /\ Len(frames[p]) \in DOMAIN frames[p]
      BY <1>1, <1>2, TopFrame
    <3>4. frames[p][i].node # n
      BY <3>2, <3>3 DEF IInv, FramesInv
    <3>. QED BY <2>1, <3>2, <3>4, <1>1, FrameFacts
  <2>2. CASE q # p
    <3>1. frames'[q] = frames[q] /\ owner[frames[q][i].node] = q
      BY <2>2, <1>9 DEF IInv, FramesInv
    <3>. QED BY <2>2, <3>1, <1>1, <1>4, FrameFacts
  <2>. QED BY <2>1, <2>2
<1>11. \A x \in Nodes : x # n /\ owner[x] \in Procs => (InFrame(x)' <=> InFrame(x))
  <2>. SUFFICES ASSUME NEW x \in Nodes, x # n, owner[x] \in Procs
                PROVE  InFrame(x)' <=> InFrame(x)
    OBVIOUS
  <2>1. InFrame(x)' => InFrame(x)
    BY <1>3, <1>10 DEF InFrame
  <2>2. ASSUME InFrame(x) PROVE InFrame(x)'
    <3>1. PICK i \in DOMAIN frames[owner[x]] : frames[owner[x]][i].node = x
      BY <2>2 DEF InFrame
    <3>2. CASE owner[x] = p
      <4>1. i # Len(frames[p]) /\ i \in 1..Len(frames[p]) /\ Len(frames[p]) \in Nat
        BY <3>1, <3>2, <1>1, <1>2, TopFrame, FrameFacts
      <4>2. i \in 1..(Len(frames[p]) - 1)
        BY <4>1
      <4>3. i \in DOMAIN frames'[p] /\ frames'[p][i] = frames[p][i]
        BY <4>2, <1>1, <1>9, TopFrame
      <4>. QED BY <4>3, <3>1, <3>2, <1>3 DEF InFrame
    <3>3. CASE owner[x] # p
      BY <3>1, <3>3, <1>3, <1>9 DEF InFrame
    <3>. QED BY <3>2, <3>3
  <2>. QED BY <2>1, <2>2
<1>12. TypeOK'
  <2>1. links' \in [Nodes -> Link]
    BY <1>1, <1>3, LinkFacts DEF Link, NoLinks, Pointers
  <2>2. frames' \in [Procs -> Seq([node : Nodes, child : Pointers])]
    BY <1>1, <1>3, TopFrame DEF TypeOK
  <2>3. nodeID' \in Nat /\ id' \in [Nodes -> 0..nodeID']
    BY <1>1, <1>3 DEF TypeOK
  <2>4. where' \in [Nodes -> {"fresh", "pool", "tree", "dying"}]
    BY <1>1, <1>3 DEF TypeOK
  <2>5. owner' \in [Nodes -> Procs \cup {Nil}] /\ kids' \in [Nodes -> Seq(Nodes)]
    BY <1>1, <1>3 DEF TypeOK
  <2>6. used' \subseteq 1..nodeID'
    <3>1. nodeID \in Nat /\ used \subseteq 1..nodeID /\ nodeID' = nodeID + 1 /\ used' = used
      BY <1>1, <1>3 DEF TypeOK
    <3>. QED BY ONLY <3>1
  <2>. QED BY <2>1, <2>2, <2>3, <2>4, <2>5, <2>6 DEF TypeOK, Link
<1>13. OneParent' /\ NoCircle'
  BY <1>3 DEF IInv, OneParent, NoCircle
<1>14. Together'
  BY <1>3, <1>6, <1>7 DEF IInv, Together
<1>15. Unlinks'
  BY <1>7, <1>8 DEF IInv, Unlinks
<1>16. LinksAgree'
  <2>. SUFFICES ASSUME NEW x \in Nodes, where'[x] = "tree"
                PROVE  /\ links'[x].first = Kid(x, 1)' /\ links'[x].last = Kid(x, Len(kids[x]))'
                       /\ \A i \in DOMAIN kids'[x] :
                             /\ where'[kids'[x][i]] = "tree" /\ owner'[kids'[x][i]] = owner'[x]
                             /\ links'[kids'[x][i]].parent = x
                             /\ links'[kids'[x][i]].prev = Kid(x, i - 1)'
                             /\ links'[kids'[x][i]].next = Kid(x, i + 1)'
    BY DEF LinksAgree
  <2>1. x # n /\ where[x] = "tree" /\ links'[x] = links[x] /\ kids'[x] = kids[x]
    BY <1>3, <1>7
  <2>2. Kid(x, Len(kids[x]))' = Kid(x, Len(kids[x]))
    BY <2>1 DEF Kid
  <2>. QED BY <2>1, <2>2, <1>3, <1>6, <1>7, <1>8 DEF IInv, LinksAgree
<1>17. FramesInv'
  BY <1>3, <1>7, <1>8, <1>10 DEF IInv, FramesInv
<1>18. DyingInv'
  <2>. SUFFICES ASSUME NEW x \in Nodes, where'[x] = "dying"
                PROVE  /\ InFrame(x)' \/ IsKid(x)'
                       /\ InFrame(x)' \/ links'[x].first = Kid(x, 1)'
                       /\ \A i \in DOMAIN kids'[x] : links'[kids'[x][i]].next = Kid(x, i + 1)'
    BY DEF DyingInv
  <2>1. x # n /\ where[x] = "dying" /\ owner[x] \in Procs
    BY <1>7 DEF IInv, Together
  <2>. QED BY <2>1, <1>3, <1>6, <1>7, <1>8, <1>11 DEF IInv, DyingInv
<1>19. PoolIDs'
  <2>. SUFFICES ASSUME NEW x \in Nodes, where'[x] = "pool"
                PROVE  /\ id'[x] \in (1..nodeID') \ used'
                       /\ \A m \in Nodes : where'[m] = "pool" /\ id'[m] = id'[x] => m = x
    BY DEF PoolIDs
  <2>1. \A m \in Nodes : where'[m] = "pool" /\ m # n =>
            /\ where[m] = "pool" /\ id'[m] = id[m]
            /\ id[m] \in (1..nodeID) \ used
            /\ \A k \in Nodes : where[k] = "pool" /\ id[k] = id[m] => k = m
    BY <1>7 DEF IInv, PoolIDs
  <2>2. id'[n] = nodeID + 1 /\ nodeID' = nodeID + 1 /\ nodeID \in Nat /\ used' = used
        /\ used \subseteq 1..nodeID
    BY <1>1, <1>3, <1>7 DEF TypeOK
  <2>3. CASE x = n
    BY <2>1, <2>2, <2>3
  <2>4. CASE x # n
    BY <2>1, <2>2, <2>4
  <2>. QED BY <2>3, <2>4
<1>. QED BY <1>12, <1>13, <1>14, <1>15, <1>16, <1>17, <1>18, <1>19 DEF IInv

(* The first child that is left gets a call of its own, and is left no more. *)
LEMMA RecycleChildStep ==
    ASSUME IInv, NEW p \in Procs, RecycleChild(p)
    PROVE  IInv'
<1>. USE IdrAssumption
<1>1. TypeOK /\ ~Idle(p)
  BY DEF IInv, RecycleChild
<1>2. PICK n \in Nodes, c \in Pointers, F \in Nat :
        /\ n = Last(frames[p]).node
        /\ c = Last(frames[p]).child
        /\ F = Len(frames[p])
  <2>1. Last(frames[p]).child \in Pointers /\ Len(frames[p]) \in Nat
    BY <1>1, TopFrame, FrameFacts
  <2>. QED BY <2>1, <1>1, TopFrame
<1>3. /\ c # Nil
      /\ frames' = [frames EXCEPT ![p] =
            Append(Front(frames[p]) \o <<[Last(frames[p]) EXCEPT !.child = After(c)]>>,
                   Frame(c, links))]
      /\ kids' = [kids EXCEPT ![n] = Without(kids[n], c)]
      /\ UNCHANGED <<links, id, nodeID, where, owner, used>>
  BY <1>2 DEF RecycleChild
<1>4. /\ F \in DOMAIN frames[p] /\ frames[p][F].node = n
      /\ where[n] = "dying" /\ owner[n] = p /\ ~IsKid(n)
      /\ c = Kid(n, 1)
  BY <1>1, <1>2, TopFrame
<1>5. PICK L \in Nat :
         /\ L >= 1
         /\ kids[n] \in Seq(Nodes)
         /\ Len(kids[n]) = L
         /\ DOMAIN kids[n] = 1..L
         /\ kids[n][1] = c
         /\ c \in Nodes
  <2>1. 1 \in DOMAIN kids[n] /\ kids[n][1] = c
    BY <1>3, <1>4 DEF Kid
  <2>2. Len(kids[n]) \in Nat /\ DOMAIN kids[n] = 1..Len(kids[n]) /\ kids[n][1] \in Nodes
    BY <2>1, <1>1, KidFacts
  <2>3. Len(kids[n]) >= 1
    BY <2>1, <2>2
  <2>. QED BY <2>1, <2>2, <2>3, <1>1 DEF TypeOK
<1>6. \A x \in Nodes : ToSet(kids[x]) = {kids[x][i] : i \in DOMAIN kids[x]}
  BY <1>1, KidFacts
<1>7. /\ kids' \in [Nodes -> Seq(Nodes)]
      /\ \A x \in Nodes : x # n => kids'[x] = kids[x]
      /\ Len(kids'[n]) = L - 1
      /\ DOMAIN kids'[n] = 1..(L - 1)
      /\ \A i \in 1..(L - 1) : kids'[n][i] = kids[n][i + 1] /\ i + 1 \in DOMAIN kids[n]
      /\ ToSet(kids'[n]) = ToSet(kids[n]) \ {c}
  <2>2. 1 \in DOMAIN kids[n]
    BY <1>5
  <2>1. \A i \in DOMAIN kids[n] : kids[n][i] = kids[n][1] => i = 1
    BY <2>2 DEF IInv, OneParent
  <2>3. /\ Without(kids[n], c) \in Seq(Nodes)
        /\ Len(Without(kids[n], c)) = L - 1
        /\ DOMAIN Without(kids[n], c) = 1..(L - 1)
        /\ \A i \in 1..(L - 1) :
              Without(kids[n], c)[i] = IF i < 1 THEN kids[n][i] ELSE kids[n][i + 1]
        /\ ToSet(Without(kids[n], c)) = ToSet(kids[n]) \ {c}
    <3>1. PICK s \in Seq(Nodes), j \in Nat : s = kids[n] /\ j = 1 /\ j \in DOMAIN s
      BY <2>2, <1>5
    <3>2. j \in DOMAIN s /\ \A i \in DOMAIN s : s[i] = s[j] => i = j
      BY <2>1, <3>1
    <3>3. /\ Without(s, s[j]) \in Seq(Nodes)
          /\ Len(Without(s, s[j])) = Len(s) - 1
          /\ DOMAIN Without(s, s[j]) = 1..(Len(s) - 1)
          /\ \A i \in 1..(Len(s) - 1) :
                Without(s, s[j])[i] = IF i < j THEN s[i] ELSE s[i + 1]
          /\ ToSet(Without(s, s[j])) = ToSet(s) \ {s[j]}
      BY ONLY <3>2, WithoutFacts
    <3>. QED BY ONLY <3>1, <3>3, <1>5
  <2>4. \A i \in 1..(L - 1) : ~(i < 1) /\ i + 1 \in DOMAIN kids[n]
    BY <1>5
  <2>5. kids'[n] = Without(kids[n], c) /\ \A x \in Nodes : x # n => kids'[x] = kids[x]
    BY <1>1, <1>3 DEF TypeOK
  <2>6. kids' \in [Nodes -> Seq(Nodes)]
    BY <2>3, <1>1, <1>3 DEF TypeOK
  <2>. QED BY <2>3, <2>4, <2>5, <2>6
<1>8. \A x \in Nodes, i \in Int :
         /\ x # n => Kid(x, i)' = Kid(x, i)
         /\ x = n /\ i >= 1 => Kid(x, i)' = Kid(x, i + 1)
  <2>. SUFFICES ASSUME NEW x \in Nodes, NEW i \in Int
                PROVE  /\ x # n => Kid(x, i)' = Kid(x, i)
                       /\ x = n /\ i >= 1 => Kid(x, i)' = Kid(x, i + 1)
    OBVIOUS
  <2>1. x # n => Kid(x, i)' = Kid(x, i)
    BY <1>7 DEF Kid
  <2>2. ASSUME i >= 1 PROVE Kid(n, i)' = Kid(n, i + 1)
    <3>1. i \in 1..(L - 1) <=> i + 1 \in 1..L
      BY <2>2, <1>5
    <3>. QED BY <3>1, <1>5, <1>7 DEF Kid
  <2>. QED BY <2>1, <2>2
<1>9. IsKid(c) /\ \A x \in Nodes : x # c => (IsKid(x)' <=> IsKid(x))
  <2>1. c \in ToSet(kids[n])
    <3>1. 1 \in DOMAIN kids[n]
      BY <1>5
    <3>2. ToSet(kids[n]) = {kids[n][i] : i \in DOMAIN kids[n]}
      BY <1>6
    <3>. QED BY <3>1, <3>2, <1>5
  <2>. QED BY <2>1, <1>7 DEF IsKid
<1>10. ~IsKid(c)'
  <2>1. ASSUME NEW x \in Nodes, x # n PROVE c \notin ToSet(kids[x])
    <3>1. 1 \in DOMAIN kids[n]
      BY <1>5
    <3>2. \A i \in DOMAIN kids[x] : kids[x][i] # kids[n][1]
      BY <3>1, <2>1 DEF IInv, OneParent
    <3>3. \A i \in DOMAIN kids[x] : kids[x][i] # c
      BY <3>2, <1>5
    <3>. QED BY <3>3, <1>6
  <2>. QED BY <2>1, <1>7 DEF IsKid
<1>11. /\ where[c] = "dying" /\ owner[c] = p /\ c # n
       /\ links[c].next = Kid(n, 2)
       /\ ~InFrame(c)
       /\ links[c].first = Kid(c, 1)
  <2>1. where[c] = "dying" /\ owner[c] = p
    BY <1>4, <1>5 DEF IInv, Together
  <2>2. c # n
    BY <1>4, <1>9
  <2>3. links[c].next = Kid(n, 2)
    BY <1>4, <1>5 DEF IInv, DyingInv
  <2>4. ~InFrame(c)
    BY <2>1, <1>9 DEF IInv, FramesInv, InFrame
  <2>5. links[c].first = Kid(c, 1)
    BY <2>1, <2>4, <1>5 DEF IInv, DyingInv
  <2>. QED BY <2>1, <2>2, <2>3, <2>4, <2>5
<1>12. /\ frames' \in [Procs -> Seq([node : Nodes, child : Pointers])]
       /\ \A q \in Procs : q # p => frames'[q] = frames[q]
       /\ DOMAIN frames'[p] = 1..(F + 1)
       /\ DOMAIN frames[p] = 1..F
       /\ \A i \in 1..(F - 1) : frames'[p][i] = frames[p][i]
       /\ frames'[p][F].node = n
       /\ frames'[p][F].child = links[c].next
       /\ frames'[p][F + 1].node = c
       /\ frames'[p][F + 1].child = links[c].first
  <2>. DEFINE R == [node : Nodes, child : Pointers]
              top == [Last(frames[p]) EXCEPT !.child = After(c)]
              low == Front(frames[p])
              mid == low \o <<top>>
  <2>1. /\ low \in Seq(R) /\ Len(low) = F - 1
        /\ \A i \in 1..(F - 1) : low[i] = frames[p][i]
    <3>1. frames[p] \in Seq(R) /\ frames[p] # <<>>
      BY <1>1, FrameFacts DEF Idle
    <3>. QED BY <3>1, <1>2, FrontType
  <2>2. links[c] \in Link
    BY <1>1, <1>5, LinkFacts
  <2>3. top \in R /\ top.node = n /\ top.child = links[c].next
    <3>1. Last(frames[p]) \in R
      BY <1>1, TopFrame
    <3>2. links[c].next \in Pointers
      BY <2>2 DEF Link
    <3>. QED BY <3>1, <3>2, <1>2 DEF After
  <2>4. Frame(c, links) \in R /\ Frame(c, links).node = c /\ Frame(c, links).child = links[c].first
    BY <2>2, <1>5 DEF Link, Frame
  <2>. HIDE DEF R, top, low
  <2>5. mid \in Seq(R) /\ Len(mid) = F /\ mid[F] = top /\ \A i \in 1..(F - 1) : mid[i] = low[i]
    <3>1. <<top>> \in Seq(R) /\ Len(<<top>>) = 1 /\ <<top>>[1] = top
      BY <2>3
    <3>2. /\ mid \in Seq(R) /\ Len(mid) = Len(low) + 1
          /\ \A i \in 1..(Len(low) + 1) :
                mid[i] = IF i <= Len(low) THEN low[i] ELSE <<top>>[i - Len(low)]
      BY <2>1, <3>1, ConcatProperties
    <3>3. F >= 1
      BY <1>1, <1>4, FrameFacts
    <3>. HIDE DEF mid
    <3>4. Len(mid) = F /\ F - (F - 1) = 1 /\ ~(F <= F - 1) /\ F \in 1..(F - 1 + 1)
      BY <2>1, <3>2, <3>3
    <3>5. mid[F] = top
      BY <2>1, <3>1, <3>2, <3>4
    <3>6. ASSUME NEW i \in 1..(F - 1) PROVE mid[i] = low[i]
      <4>1. i \in 1..(Len(low) + 1) /\ i <= Len(low)
        BY <2>1, <3>3
      <4>. QED BY <4>1, <3>2
    <3>. QED BY <3>2, <3>4, <3>5, <3>6
  <2>. HIDE DEF mid
  <2>6. frames'[p] = Append(mid, Frame(c, links)) /\ \A q \in Procs : q # p => frames'[q] = frames[q]
    BY <1>1, <1>3 DEF TypeOK, mid, low, top
  <2>7. /\ frames'[p] \in Seq(R) /\ Len(frames'[p]) = F + 1
        /\ frames'[p][F + 1] = Frame(c, links) /\ \A i \in 1..F : frames'[p][i] = mid[i]
    BY <2>4, <2>5, <2>6, AppendProperties
  <2>8. frames' \in [Procs -> Seq(R)]
    BY <2>6, <2>7, <1>1, <1>3 DEF TypeOK, R
  <2>9. DOMAIN frames'[p] = 1..(F + 1) /\ DOMAIN frames[p] = 1..F
    BY <2>7, <1>1, <1>2, FrameFacts, LenProperties
  <2>10. F \in 1..F /\ \A i \in 1..(F - 1) : i \in 1..F
    BY <2>9, <1>4
  <2>. QED BY <2>1, <2>3, <2>4, <2>5, <2>6, <2>7, <2>8, <2>9, <2>10 DEF R
<1>13. \A q \in Procs : \A i \in DOMAIN frames'[q] :
          \/ q = p /\ i = F + 1
          \/ q = p /\ i = F
          \/ i \in DOMAIN frames[q] /\ frames'[q][i] = frames[q][i] /\ ~(q = p /\ i = F)
  <2>. SUFFICES ASSUME NEW q \in Procs, NEW i \in DOMAIN frames'[q],
                       ~(q = p /\ i = F + 1), ~(q = p /\ i = F)
                PROVE  i \in DOMAIN frames[q] /\ frames'[q][i] = frames[q][i]
    OBVIOUS
  <2>1. CASE q = p
    <3>1. i \in 1..(F - 1) /\ i \in 1..F
      BY <2>1, <1>12
    <3>. QED BY <3>1, <2>1, <1>12
  <2>. QED BY <2>1, <1>12
<1>14. TypeOK'
  BY <1>1, <1>3, <1>7, <1>12 DEF TypeOK
<1>15. \A x \in Nodes : \A i \in DOMAIN kids'[x] :
         \E k \in DOMAIN kids[x] : kids'[x][i] = kids[x][k] /\ k = IF x = n THEN i + 1 ELSE i
  BY <1>7
<1>16. OneParent'
  <2>. SUFFICES ASSUME NEW x \in Nodes, NEW y \in Nodes,
                       NEW i \in DOMAIN kids'[x], NEW j \in DOMAIN kids'[y],
                       kids'[x][i] = kids'[y][j]
                PROVE  x = y /\ i = j
    BY DEF OneParent
  <2>1. i \in Int /\ j \in Int
    <3>1. kids'[x] \in Seq(Nodes) /\ kids'[y] \in Seq(Nodes)
      BY <1>7
    <3>. QED BY <3>1, LenProperties
  <2>2. PICK k \in DOMAIN kids[x], l \in DOMAIN kids[y] :
           /\ kids'[x][i] = kids[x][k] /\ k = IF x = n THEN i + 1 ELSE i
           /\ kids'[y][j] = kids[y][l] /\ l = IF y = n THEN j + 1 ELSE j
    BY <1>15
  <2>3. x = y /\ k = l
    <3>1. kids[x][k] = kids[y][l]
      BY <2>2
    <3>. QED BY <3>1 DEF IInv, OneParent
  <2>. QED BY <2>1, <2>2, <2>3
<1>17. Together'
  BY <1>3, <1>15 DEF IInv, Together
<1>18. NoCircle'
  <2>1. \A x \in Nodes : ToSet(kids'[x]) \subseteq ToSet(kids[x])
    BY <1>7
  <2>. QED BY <2>1 DEF IInv, NoCircle
<1>19. Unlinks'
  <2>1. \A x \in Nodes : where[x] = "tree" => x # c
    BY <1>11
  <2>. QED BY <2>1, <1>3, <1>9 DEF IInv, Unlinks
<1>20. LinksAgree'
  <2>. SUFFICES ASSUME NEW x \in Nodes, where[x] = "tree"
                PROVE  /\ links[x].first = Kid(x, 1)' /\ links[x].last = Kid(x, Len(kids[x]))'
                       /\ \A i \in DOMAIN kids'[x] :
                             /\ where[kids'[x][i]] = "tree" /\ owner[kids'[x][i]] = owner[x]
                             /\ links[kids'[x][i]].parent = x
                             /\ links[kids'[x][i]].prev = Kid(x, i - 1)'
                             /\ links[kids'[x][i]].next = Kid(x, i + 1)'
    BY <1>3 DEF LinksAgree
  <2>1. x # n /\ kids'[x] = kids[x]
    BY <1>4, <1>7
  <2>2. \A i : Kid(x, i)' = Kid(x, i)
    BY <2>1 DEF Kid
  <2>3. Kid(x, Len(kids[x]))' = Kid(x, Len(kids[x]))
    BY <2>1 DEF Kid
  <2>. QED BY <2>1, <2>2, <2>3 DEF IInv, LinksAgree
<1>21. FramesInv'
  <2>1. \A q \in Procs : \A i \in DOMAIN frames[q] :
          /\ frames[q][i].node \in Nodes
          /\ where[frames[q][i].node] = "dying" /\ owner[frames[q][i].node] = q
          /\ ~IsKid(frames[q][i].node)
          /\ frames[q][i].child = Kid(frames[q][i].node, 1)
          /\ \A j \in DOMAIN frames[q] : frames[q][i].node = frames[q][j].node => i = j
    BY <1>1, FrameFacts DEF IInv, FramesInv
  <2>2. \A q \in Procs : \A i \in DOMAIN frames[q] : frames[q][i].node # c
    BY <2>1, <1>9
  <2>3. \A q \in Procs : \A i \in DOMAIN frames[q] :
          frames[q][i].node = n => q = p /\ i = F
    BY <2>1, <1>4
  <2>. SUFFICES ASSUME NEW q \in Procs, NEW i \in DOMAIN frames'[q]
                PROVE  /\ where'[frames'[q][i].node] = "dying"
                       /\ owner'[frames'[q][i].node] = q
                       /\ ~IsKid(frames[q][i].node)'
                       /\ frames'[q][i].child = Kid(frames[q][i].node, 1)'
                       /\ \A j \in DOMAIN frames'[q] : frames'[q][i].node = frames'[q][j].node => i = j
    BY DEF FramesInv
  <2>4. Kid(n, 1)' = Kid(n, 2) /\ \A x \in Nodes : x # n => Kid(x, 1)' = Kid(x, 1)
    <3>1. 1 \in Int /\ 1 >= 1 /\ 1 + 1 = 2
      OBVIOUS
    <3>. QED BY <3>1, <1>8
  <2>5. PICK m \in Nodes :
          /\ m = frames'[q][i].node
          /\ where[m] = "dying" /\ owner[m] = q
          /\ ~IsKid(m)'
          /\ frames'[q][i].child = Kid(m, 1)'
    <3>1. CASE q = p /\ i = F + 1
      <4>1. Kid(c, 1)' = links[c].first
        BY <2>4, <1>5, <1>11
      <4>. QED BY <3>1, <4>1, <1>5, <1>10, <1>11, <1>12
    <3>2. CASE q = p /\ i = F
      <4>1. frames'[q][i].node = n /\ frames'[q][i].child = Kid(n, 2)
        BY <3>2, <1>11, <1>12
      <4>2. ~IsKid(n)'
        BY <1>4, <1>9, <1>11
      <4>. QED BY <4>1, <4>2, <2>4, <3>2, <1>4
    <3>3. CASE i \in DOMAIN frames[q] /\ frames'[q][i] = frames[q][i] /\ ~(q = p /\ i = F)
      <4>1. PICK m \in Nodes : m = frames[q][i].node
        BY <3>3, <2>1
      <4>2. m # n /\ m # c
        BY <3>3, <4>1, <2>2, <2>3
      <4>3. ~IsKid(m) /\ frames[q][i].child = Kid(m, 1) /\ where[m] = "dying" /\ owner[m] = q
        BY <3>3, <4>1, <2>1
      <4>4. ~IsKid(m)' /\ Kid(m, 1)' = Kid(m, 1)
        BY <4>2, <4>3, <2>4, <1>9
      <4>. QED BY <4>1, <4>3, <4>4, <3>3
    <3>. QED BY <3>1, <3>2, <3>3, <1>13
  <2>6. \A j \in DOMAIN frames'[q] : frames'[q][i].node = frames'[q][j].node => i = j
    <3>. SUFFICES ASSUME NEW j \in DOMAIN frames'[q], frames'[q][i].node = frames'[q][j].node
                  PROVE  i = j
      OBVIOUS
    <3>1. \A k \in DOMAIN frames'[q] :
            \/ q = p /\ k = F + 1 /\ frames'[q][k].node = c
            \/ q = p /\ k = F /\ frames'[q][k].node = n
            \/ /\ k \in DOMAIN frames[q] /\ frames'[q][k].node = frames[q][k].node
               /\ frames[q][k].node # n /\ frames[q][k].node # c
      BY <2>2, <2>3, <1>12, <1>13
    <3>. QED BY <3>1, <2>1, <1>11
  <2>7. ~IsKid(frames[q][i].node)' /\ Kid(frames[q][i].node, 1)' = Kid(m, 1)'
    BY <2>5 DEF IsKid, Kid
  <2>. QED BY <2>5, <2>6, <2>7, <1>3
<1>22. \A x \in Nodes : owner[x] \in Procs /\ InFrame(x) => InFrame(x)'
  <2>. SUFFICES ASSUME NEW x \in Nodes, owner[x] \in Procs, InFrame(x)
                PROVE  InFrame(x)'
    OBVIOUS
  <2>1. PICK i \in DOMAIN frames[owner[x]] : frames[owner[x]][i].node = x
    BY DEF InFrame
  <2>2. CASE owner[x] = p
    <3>1. i \in DOMAIN frames'[p] /\ frames'[p][i].node = frames[p][i].node
      <4>1. i = F \/ i \in 1..(F - 1)
        BY <2>1, <2>2, <1>12
      <4>2. i \in 1..(F + 1)
        BY <2>1, <2>2, <1>12
      <4>. QED BY <4>1, <4>2, <1>4, <1>12
    <3>. QED BY <3>1, <2>1, <2>2, <1>3 DEF InFrame
  <2>3. CASE owner[x] # p
    BY <2>1, <2>3, <1>3, <1>12 DEF InFrame
  <2>. QED BY <2>2, <2>3
<1>23. InFrame(c)' /\ InFrame(n)'
  <2>1. F + 1 \in DOMAIN frames'[p] /\ F \in DOMAIN frames'[p]
    BY <1>4, <1>12
  <2>. QED BY <2>1, <1>3, <1>4, <1>11, <1>12 DEF InFrame
<1>24. DyingInv'
  <2>. SUFFICES ASSUME NEW x \in Nodes, where[x] = "dying"
                PROVE  /\ InFrame(x)' \/ IsKid(x)'
                       /\ InFrame(x)' \/ links[x].first = Kid(x, 1)'
                       /\ \A i \in DOMAIN kids'[x] : links[kids'[x][i]].next = Kid(x, i + 1)'
    BY <1>3 DEF DyingInv
  <2>1. /\ InFrame(x) \/ IsKid(x)
        /\ InFrame(x) \/ links[x].first = Kid(x, 1)
        /\ \A i \in DOMAIN kids[x] : links[kids[x][i]].next = Kid(x, i + 1)
        /\ owner[x] \in Procs
    BY DEF IInv, DyingInv, Together
  <2>2. InFrame(x)' \/ IsKid(x)'
    BY <2>1, <1>9, <1>22, <1>23
  <2>3. InFrame(x)' \/ links[x].first = Kid(x, 1)'
    BY <2>1, <1>8, <1>22, <1>23
  <2>4. ASSUME NEW i \in DOMAIN kids'[x] PROVE links[kids'[x][i]].next = Kid(x, i + 1)'
    <3>1. CASE x = n
      <4>1. i \in 1..(L - 1) /\ i + 1 \in Int /\ i + 1 >= 1
        BY <3>1, <1>7
      <4>2. kids'[x][i] = kids[x][i + 1] /\ i + 1 \in DOMAIN kids[x]
        BY <4>1, <3>1, <1>7
      <4>3. Kid(x, i + 1)' = Kid(x, i + 1 + 1)
        BY <4>1, <3>1, <1>8
      <4>. QED BY <4>2, <4>3, <2>1
    <3>2. CASE x # n
      <4>1. kids'[x] = kids[x] /\ \A k : Kid(x, k)' = Kid(x, k)
        BY <3>2, <1>7 DEF Kid
      <4>. QED BY <4>1, <2>1
    <3>. QED BY <3>1, <3>2
  <2>. QED BY <2>2, <2>3, <2>4
<1>25. PoolIDs'
  BY <1>3 DEF IInv, PoolIDs
<1>. QED BY <1>14, <1>16, <1>17, <1>18, <1>19, <1>20, <1>21, <1>24, <1>25 DEF IInv

(* All nodes of a tree that is in use are in use by its owner; n is not below itself; *)
(* and a child other than n is below n exactly if its parent is.                      *)
LEMMA BelowFacts ==
    ASSUME IInv, NEW n \in Nodes, where[n] = "tree"
    PROVE  /\ Subtree(n) \subseteq Nodes /\ n \in Subtree(n)
           /\ \A m \in Subtree(n) : where[m] = "tree" /\ owner[m] = owner[n]
           /\ \A x \in Subtree(n) : n \notin ToSet(kids[x])
           /\ \A x \in Nodes : x \notin ToSet(kids[x])
           /\ \A x \in Nodes : \A i \in DOMAIN kids[x] :
                 kids[x][i] # n => (kids[x][i] \in Subtree(n) <=> x \in Subtree(n))
<1>. DEFINE D == Subtree(n)
<1>1. TypeOK
  BY DEF IInv
<1>2. /\ D \subseteq Nodes
      /\ n \in D
      /\ Closed(D)
      /\ \A S \in SUBSET Nodes : n \in S /\ Closed(S) => D \subseteq S
      /\ \A m \in D : m # n => \E x \in D : m \in ToSet(kids[x])
  BY <1>1, SubtreeFacts
<1>. HIDE DEF D
<1>3. \A x \in Nodes : /\ ToSet(kids[x]) = {kids[x][i] : i \in DOMAIN kids[x]}
                       /\ ToSet(kids[x]) \subseteq Nodes
  <2>1. \A x \in Nodes : ToSet(kids[x]) = {kids[x][i] : i \in DOMAIN kids[x]}
    BY <1>1, KidFacts
  <2>2. \A x \in Nodes : \A i \in DOMAIN kids[x] : kids[x][i] \in Nodes
    BY <1>1, KidFacts
  <2>. QED BY <2>1, <2>2
<1>4. \A m \in D : where[m] = "tree" /\ owner[m] = owner[n]
  <2>. DEFINE T == {m \in Nodes : where[m] = "tree" /\ owner[m] = owner[n]}
  <2>1. T \in SUBSET Nodes /\ n \in T
    OBVIOUS
  <2>2. Closed(T)
    BY <1>3 DEF IInv, Together, Closed
  <2>. QED BY <2>1, <2>2, <1>2
<1>5. \A x \in D : n \notin ToSet(kids[x])
  <2>. SUFFICES ASSUME NEW y \in D, n \in ToSet(kids[y]) PROVE FALSE
    OBVIOUS
  <2>1. D \in SUBSET Nodes /\ D # {}
    BY <1>2
  <2>2. PICK m \in D : \A x \in D : m \notin ToSet(kids[x])
    BY <2>1 DEF IInv, NoCircle
  <2>. QED BY <2>2, <1>2
<1>6. ASSUME NEW x \in Nodes PROVE x \notin ToSet(kids[x])
  <2>1. {x} \in SUBSET Nodes /\ {x} # {}
    OBVIOUS
  <2>2. \E m \in {x} : \A y \in {x} : m \notin ToSet(kids[y])
    BY <2>1 DEF IInv, NoCircle
  <2>. QED BY <2>2
<1>7. ASSUME NEW x \in Nodes, NEW i \in DOMAIN kids[x], kids[x][i] # n
      PROVE  kids[x][i] \in D <=> x \in D
  <2>1. kids[x][i] \in ToSet(kids[x])
    BY <1>3
  <2>2. ASSUME kids[x][i] \in D PROVE x \in D
    <3>1. PICK y \in D : kids[x][i] \in ToSet(kids[y])
      BY <2>2, <1>2, <1>7
    <3>2. PICK j \in DOMAIN kids[y] : kids[y][j] = kids[x][i]
      BY <3>1, <1>2, <1>3
    <3>3. y = x
      BY <3>2, <1>2 DEF IInv, OneParent
    <3>. QED BY <3>3
  <2>3. ASSUME x \in D PROVE kids[x][i] \in D
    BY <2>1, <2>3, <1>2 DEF Closed
  <2>. QED BY <2>2, <2>3
<1>. QED BY <1>2, <1>4, <1>5, <1>6, <1>7 DEF D

(***************************************************************************)
(* Unlinking n takes it out of its parent's children and leaves the others *)
(* linked; it changes no link of a node that is not its parent or sibling. *)
(***************************************************************************)
LEMMA Unlink ==
    ASSUME IInv, NEW n \in Nodes, where[n] = "tree",
           links' = Unlinked(n),
           kids' = [m \in Nodes |-> IF n \in ToSet(kids[m]) THEN Without(kids[m], n) ELSE kids[m]]
    PROVE  /\ links' \in [Nodes -> Link] /\ kids' \in [Nodes -> Seq(Nodes)]
           /\ \A x \in Nodes : ToSet(kids'[x]) = ToSet(kids[x]) \ {n}
           /\ OneParent'
           /\ \A x \in Nodes : where[x] = "tree" =>
                 /\ links'[x].first = Kid(x, 1)' /\ links'[x].last = Kid(x, Len(kids[x]))'
                 /\ \A i \in DOMAIN kids'[x] :
                       /\ links'[kids'[x][i]].parent = x
                       /\ links'[kids'[x][i]].prev = Kid(x, i - 1)'
                       /\ links'[kids'[x][i]].next = Kid(x, i + 1)'
           /\ \A x \in Nodes : where[x] # "tree" =>
                 /\ kids'[x] = kids[x] /\ links'[x] = links[x]
                 /\ \A i \in DOMAIN kids[x] : links'[kids[x][i]] = links[kids[x][i]]
           /\ \A x \in Nodes : ~IsKid(x) =>
                 /\ links'[x].parent = links[x].parent
                 /\ links'[x].prev = links[x].prev /\ links'[x].next = links[x].next
<1>. USE IdrAssumption
<1>1. TypeOK
  BY DEF IInv
<1>2. \A x \in Nodes : /\ ToSet(kids[x]) = {kids[x][i] : i \in DOMAIN kids[x]}
                       /\ ToSet(kids[x]) \subseteq Nodes
  <2>1. \A x \in Nodes : ToSet(kids[x]) = {kids[x][i] : i \in DOMAIN kids[x]}
    BY <1>1, KidFacts
  <2>2. \A x \in Nodes : \A i \in DOMAIN kids[x] : kids[x][i] \in Nodes
    BY <1>1, KidFacts
  <2>. QED BY <2>1, <2>2
<1>3. CASE ~IsKid(n)
  <2>1. links[n].parent = Nil
    BY <1>3 DEF IInv, Unlinks
  <2>2. links' = links
    BY <2>1 DEF Unlinked
  <2>3. kids' = kids
    <3>1. kids' = [m \in Nodes |-> kids[m]]
      BY <1>3 DEF IsKid
    <3>. QED BY <3>1, <1>1 DEF TypeOK
  <2>4. /\ \A x, i : Kid(x, i)' = Kid(x, i)
        /\ \A x : Kid(x, Len(kids[x]))' = Kid(x, Len(kids[x]))
    BY <2>3 DEF Kid
  <2>5. \A x \in Nodes : ToSet(kids'[x]) = ToSet(kids[x]) \ {n}
    BY <2>3, <1>3 DEF IsKid
  <2>6. links' \in [Nodes -> Link] /\ kids' \in [Nodes -> Seq(Nodes)] /\ OneParent'
    <3>1. links \in [Nodes -> Link] /\ kids \in [Nodes -> Seq(Nodes)]
      BY <1>1, LinkFacts DEF TypeOK
    <3>2. OneParent'
      BY <2>3 DEF IInv, OneParent
    <3>. QED BY <3>1, <3>2, <2>2, <2>3
  <2>7. \A x \in Nodes : where[x] = "tree" =>
                 /\ links'[x].first = Kid(x, 1)' /\ links'[x].last = Kid(x, Len(kids[x]))'
                 /\ \A i \in DOMAIN kids'[x] :
                       /\ links'[kids'[x][i]].parent = x
                       /\ links'[kids'[x][i]].prev = Kid(x, i - 1)'
                       /\ links'[kids'[x][i]].next = Kid(x, i + 1)'
    BY <2>2, <2>3, <2>4 DEF IInv, LinksAgree
  <2>. QED BY <2>2, <2>3, <2>5, <2>6, <2>7
<1>4. CASE IsKid(n)
  <2>1. PICK P \in Nodes, I \in Nat, L \in Nat :
          /\ kids[P] \in Seq(Nodes) /\ Len(kids[P]) = L /\ DOMAIN kids[P] = 1..L
          /\ I \in 1..L /\ kids[P][I] = n
    <3>1. PICK P \in Nodes : n \in ToSet(kids[P])
      BY <1>4 DEF IsKid
    <3>2. PICK I \in DOMAIN kids[P] : kids[P][I] = n
      BY <3>1, <1>2
    <3>3. kids[P] \in Seq(Nodes) /\ Len(kids[P]) \in Nat /\ DOMAIN kids[P] = 1..Len(kids[P])
      BY <1>1, KidFacts DEF TypeOK
    <3>. QED BY <3>2, <3>3
  <2>2. \A x \in Nodes : \A i \in DOMAIN kids[x], j \in 1..L :
           kids[x][i] = kids[P][j] => x = P /\ i = j
    BY <2>1 DEF IInv, OneParent
  <2>3. /\ \A j \in 1..L : kids[P][j] \in Nodes /\ kids[P][j] # P /\ where[kids[P][j]] = "tree"
        /\ where[P] = "tree"
        /\ \A j \in 1..L : kids[P][j] = n => j = I
    <3>1. P \notin ToSet(kids[P])
      BY BelowFacts
    <3>2. where[P] = "tree"
      BY <2>1 DEF IInv, Together
    <3>3. \A j \in 1..L : where[kids[P][j]] = "tree"
      BY <2>1, <3>2 DEF IInv, Together
    <3>4. \A j \in 1..L : kids[P][j] \in ToSet(kids[P])
      BY <2>1, <1>2
    <3>5. \A j \in 1..L : kids[P][j] = n => j = I
      BY <2>1, <2>2
    <3>. QED BY <3>1, <3>2, <3>3, <3>4, <3>5, <1>2
  <2>4. \A i \in Int : Kid(P, i) = IF i \in 1..L THEN kids[P][i] ELSE Nil
    BY <2>1 DEF Kid
  <2>5. /\ kids' \in [Nodes -> Seq(Nodes)]
        /\ \A x \in Nodes : x # P => kids'[x] = kids[x]
        /\ Len(kids'[P]) = L - 1
        /\ DOMAIN kids'[P] = 1..(L - 1)
        /\ \A i \in 1..(L - 1) : kids'[P][i] = kids[P][IF i < I THEN i ELSE i + 1]
        /\ ToSet(kids'[P]) = ToSet(kids[P]) \ {n}
    <3>1. \A x \in Nodes : n \in ToSet(kids[x]) <=> x = P
      BY <2>1, <2>2, <1>2
    <3>2. kids'[P] = Without(kids[P], n) /\ \A x \in Nodes : x # P => kids'[x] = kids[x]
      BY <3>1
    <3>3. PICK s \in Seq(Nodes) : s = kids[P]
      BY <2>1
    <3>4. I \in DOMAIN s /\ \A i \in DOMAIN s : s[i] = s[I] => i = I
      BY <3>3, <2>1, <2>3
    <3>5. /\ Without(s, s[I]) \in Seq(Nodes)
          /\ Len(Without(s, s[I])) = Len(s) - 1
          /\ DOMAIN Without(s, s[I]) = 1..(Len(s) - 1)
          /\ \A i \in 1..(Len(s) - 1) :
                Without(s, s[I])[i] = IF i < I THEN s[i] ELSE s[i + 1]
          /\ ToSet(Without(s, s[I])) = ToSet(s) \ {s[I]}
      BY ONLY <3>4, WithoutFacts
    <3>6. kids' \in [Nodes -> Seq(Nodes)]
      BY <3>2, <3>3, <3>5, <2>1, <1>1 DEF TypeOK
    <3>. QED BY <3>2, <3>3, <3>5, <3>6, <2>1
  <2>6. /\ \A x \in Nodes : \A i : x # P => Kid(x, i)' = Kid(x, i)
        /\ \A i \in Int : Kid(P, i)' = Kid(P, IF i < I THEN i ELSE i + 1)
    <3>1. \A x \in Nodes : \A i : x # P => Kid(x, i)' = Kid(x, i)
      BY <2>5 DEF Kid
    <3>2. ASSUME NEW i \in Int PROVE Kid(P, i)' = Kid(P, IF i < I THEN i ELSE i + 1)
      <4>1. i \in 1..(L - 1) <=> (IF i < I THEN i ELSE i + 1) \in 1..L
        BY <2>1
      <4>2. Kid(P, i)' = IF i \in 1..(L - 1) THEN kids'[P][i] ELSE Nil
        BY <2>5 DEF Kid
      <4>. QED BY <4>1, <4>2, <2>4, <2>5
    <3>. QED BY <3>1, <3>2
  <2>7. PICK prv \in Pointers, nxt \in Pointers :
           /\ prv = Kid(P, I - 1) /\ nxt = Kid(P, I + 1)
           /\ prv = IF I = 1 THEN Nil ELSE kids[P][I - 1]
           /\ nxt = IF I = L THEN Nil ELSE kids[P][I + 1]
    <3>1. I - 1 \in Int /\ I + 1 \in Int /\ (I - 1 \in 1..L <=> I # 1) /\ (I + 1 \in 1..L <=> I # L)
      BY <2>1
    <3>. QED BY <3>1, <2>3, <2>4 DEF Pointers
  <2>8. /\ links[n].parent = P /\ links[n].prev = prv /\ links[n].next = nxt
        /\ links[P].first = Kid(P, 1) /\ links[P].last = Kid(P, L)
    BY <2>1, <2>3, <2>7 DEF IInv, LinksAgree
  <2>9. /\ links[P].first = n <=> I = 1
        /\ links[P].last = n <=> I = L
    BY <2>1, <2>3, <2>4, <2>8
  <2>10. /\ prv # Nil => prv \in Nodes /\ prv # P /\ prv # n
         /\ nxt # Nil => nxt \in Nodes /\ nxt # P /\ nxt # n
         /\ prv # Nil => prv # nxt
         /\ prv = Nil <=> I = 1
         /\ nxt = Nil <=> I = L
    <3>1. I # 1 => I - 1 \in 1..L /\ I - 1 # I
      BY <2>1
    <3>2. I # L => I + 1 \in 1..L /\ I + 1 # I
      BY <2>1
    <3>3. I # 1 /\ I # L => kids[P][I - 1] # kids[P][I + 1]
      BY <3>1, <3>2, <2>1, <2>2
    <3>. QED BY <3>1, <3>2, <3>3, <2>3, <2>7
  <2>11. /\ links' \in [Nodes -> Link]
         /\ \A x \in Nodes :
              /\ links'[x].parent = links[x].parent
              /\ links'[x].first = IF x = P /\ I = 1 THEN nxt ELSE links[x].first
              /\ links'[x].last = IF x = P /\ I = L THEN prv ELSE links[x].last
              /\ links'[x].prev = IF x = nxt THEN prv ELSE links[x].prev
              /\ links'[x].next = IF x = prv THEN nxt ELSE links[x].next
              /\ x \notin {P, prv, nxt} => links'[x] = links[x]
    <3>1. links' = IF I = 1
                   THEN IF I = L THEN [links EXCEPT ![P] = [@ EXCEPT !.first = Nil, !.last = Nil]]
                        ELSE [links EXCEPT ![P].first = nxt, ![nxt].prev = Nil]
                   ELSE IF I = L THEN [links EXCEPT ![P].last = prv, ![prv].next = Nil]
                        ELSE [links EXCEPT ![prv].next = nxt, ![nxt].prev = prv]
      BY <2>8, <2>9 DEF Unlinked
    <3>2. links \in [Nodes -> Link] /\ prv \in Pointers /\ nxt \in Pointers
      BY <1>1, LinkFacts
    <3>3. \A x \in Nodes : links[x] \in Link
      BY <3>2
    <3>4. CASE I = 1 /\ I = L
      <4>1. links' = [links EXCEPT ![P] = [links[P] EXCEPT !.first = Nil, !.last = Nil]]
        BY <3>1, <3>2, <3>4
      <4>2. [links[P] EXCEPT !.first = Nil, !.last = Nil] \in Link
        BY <3>3 DEF Link, Pointers
      <4>. QED BY <4>1, <4>2, <3>2, <3>3, <3>4, <2>10 DEF Link
    <3>5. CASE I = 1 /\ I # L
      <4>1. nxt \in Nodes /\ nxt # P /\ prv = Nil
        BY <3>5, <2>10
      <4>2. links' = [links EXCEPT ![P] = [links[P] EXCEPT !.first = nxt],
                                   ![nxt] = [links[nxt] EXCEPT !.prev = Nil]]
        BY <3>1, <3>2, <3>5, <4>1
      <4>3. /\ [links[P] EXCEPT !.first = nxt] \in Link
            /\ [links[nxt] EXCEPT !.prev = Nil] \in Link
        BY <4>1, <3>3 DEF Link, Pointers
      <4>. QED BY <4>1, <4>2, <4>3, <3>2, <3>3, <3>5 DEF Link
    <3>6. CASE I # 1 /\ I = L
      <4>1. prv \in Nodes /\ prv # P /\ nxt = Nil
        BY <3>6, <2>10
      <4>2. links' = [links EXCEPT ![P] = [links[P] EXCEPT !.last = prv],
                                   ![prv] = [links[prv] EXCEPT !.next = Nil]]
        BY <3>1, <3>2, <3>6, <4>1
      <4>3. /\ [links[P] EXCEPT !.last = prv] \in Link
            /\ [links[prv] EXCEPT !.next = Nil] \in Link
        BY <4>1, <3>3 DEF Link, Pointers
      <4>. QED BY <4>1, <4>2, <4>3, <3>2, <3>3, <3>6 DEF Link
    <3>7. CASE I # 1 /\ I # L
      <4>1. prv \in Nodes /\ prv # P /\ nxt \in Nodes /\ nxt # P /\ prv # nxt
        BY <3>7, <2>10
      <4>2. links' = [links EXCEPT ![prv] = [links[prv] EXCEPT !.next = nxt],
                                   ![nxt] = [links[nxt] EXCEPT !.prev = prv]]
        BY <3>1, <3>2, <3>7, <4>1
      <4>3. /\ [links[prv] EXCEPT !.next = nxt] \in Link
            /\ [links[nxt] EXCEPT !.prev = prv] \in Link
        BY <4>1, <3>3 DEF Link, Pointers
      <4>. QED BY <4>1, <4>2, <4>3, <3>2, <3>3, <3>7 DEF Link
    <3>. QED BY <3>4, <3>5, <3>6, <3>7
  <2>12. OneParent'
    <3>. SUFFICES ASSUME NEW x \in Nodes, NEW y \in Nodes,
                         NEW i \in DOMAIN kids'[x], NEW j \in DOMAIN kids'[y],
                         kids'[x][i] = kids'[y][j]
                  PROVE  x = y /\ i = j
      BY DEF OneParent
    <3>1. \A z \in Nodes : \A k \in DOMAIN kids'[z] : \E m \in DOMAIN kids[z] :
             kids'[z][k] = kids[z][m] /\ m = IF z = P /\ ~(k < I) THEN k + 1 ELSE k
      <4>. SUFFICES ASSUME NEW z \in Nodes, NEW k \in DOMAIN kids'[z]
                    PROVE  \E m \in DOMAIN kids[z] :
             kids'[z][k] = kids[z][m] /\ m = IF z = P /\ ~(k < I) THEN k + 1 ELSE k
        OBVIOUS
      <4>1. CASE z = P
        <5>1. k \in 1..(L - 1) /\ (IF k < I THEN k ELSE k + 1) \in 1..L
          BY <4>1, <2>1, <2>5
        <5>. QED BY <5>1, <4>1, <2>1, <2>5
      <4>. QED BY <4>1, <2>5
    <3>2. PICK k \in DOMAIN kids[x], l \in DOMAIN kids[y] :
             /\ kids'[x][i] = kids[x][k] /\ k = IF x = P /\ ~(i < I) THEN i + 1 ELSE i
             /\ kids'[y][j] = kids[y][l] /\ l = IF y = P /\ ~(j < I) THEN j + 1 ELSE j
      BY <3>1
    <3>3. kids[x][k] = kids[y][l]
      BY <3>2
    <3>4. x = y /\ k = l
      BY <3>3 DEF IInv, OneParent
    <3>5. i \in Int /\ j \in Int
      <4>1. kids'[x] \in Seq(Nodes) /\ kids'[y] \in Seq(Nodes)
        BY <2>5
      <4>. QED BY <4>1, LenProperties
    <3>. QED BY <3>2, <3>4, <3>5
  <2>13. ASSUME NEW x \in Nodes, x # P
         PROVE  /\ kids'[x] = kids[x]
                /\ \A i : Kid(x, i)' = Kid(x, i)
                /\ Kid(x, Len(kids[x]))' = Kid(x, Len(kids[x]))
                /\ links'[x].first = links[x].first /\ links'[x].last = links[x].last
                /\ \A i \in DOMAIN kids[x] :
                      /\ kids[x][i] \in Nodes
                      /\ links'[kids[x][i]].parent = links[kids[x][i]].parent
                      /\ links'[kids[x][i]].prev = links[kids[x][i]].prev
                      /\ links'[kids[x][i]].next = links[kids[x][i]].next
    <3>1. kids'[x] = kids[x]
      BY <2>5, <2>13
    <3>2. Kid(x, Len(kids[x]))' = Kid(x, Len(kids[x]))
      BY <3>1 DEF Kid
    <3>3. ASSUME NEW i \in DOMAIN kids[x]
          PROVE  kids[x][i] \in Nodes /\ kids[x][i] \notin {prv, nxt}
      <4>1. kids[x][i] \in Nodes
        BY <1>1, KidFacts
      <4>2. \A j \in 1..L : kids[x][i] # kids[P][j]
        BY <2>2, <2>13
      <4>3. I # 1 => I - 1 \in 1..L
        BY <2>1
      <4>4. I # L => I + 1 \in 1..L
        BY <2>1
      <4>. QED BY <4>1, <4>2, <4>3, <4>4, <2>7
    <3>. QED BY <3>1, <3>2, <3>3, <2>6, <2>11, <2>13
  <2>14. ASSUME NEW x \in Nodes, where[x] = "tree"
         PROVE  /\ links'[x].first = Kid(x, 1)' /\ links'[x].last = Kid(x, Len(kids[x]))'
                /\ \A i \in DOMAIN kids'[x] :
                      /\ links'[kids'[x][i]].parent = x
                      /\ links'[kids'[x][i]].prev = Kid(x, i - 1)'
                      /\ links'[kids'[x][i]].next = Kid(x, i + 1)'
    <3>1. /\ links[x].first = Kid(x, 1) /\ links[x].last = Kid(x, Len(kids[x]))
          /\ \A i \in DOMAIN kids[x] :
                /\ links[kids[x][i]].parent = x
                /\ links[kids[x][i]].prev = Kid(x, i - 1)
                /\ links[kids[x][i]].next = Kid(x, i + 1)
      BY <2>14 DEF IInv, LinksAgree
    <3>2. CASE x # P
      BY <3>1, <3>2, <2>13
    <3>3. CASE x = P
      <4>1. links'[P].first = Kid(P, 1)'
        <5>1. Kid(P, 1)' = IF I = 1 THEN Kid(P, 2) ELSE Kid(P, 1)
          BY <2>1, <2>6
        <5>. QED BY <5>1, <2>7, <2>8, <2>11
      <4>2. links'[P].last = Kid(P, Len(kids[P]))'
        <5>1. Kid(P, Len(kids[P]))' = Kid(P, L - 1)'
          BY <2>5 DEF Kid
        <5>2. Kid(P, L - 1)' = IF I = L THEN Kid(P, I - 1) ELSE Kid(P, L)
          <6>1. L - 1 \in Int /\ (L - 1 < I <=> I = L) /\ (L - 1) + 1 = L
            BY <2>1
          <6>2. Kid(P, L - 1)' = Kid(P, IF L - 1 < I THEN L - 1 ELSE (L - 1) + 1)
            BY <6>1, <2>6
          <6>. QED BY <6>1, <6>2
        <5>3. CASE I = L
          <6>1. links'[P].last = prv
            BY <5>3, <2>11
          <6>. QED BY <5>1, <5>2, <5>3, <6>1, <2>7
        <5>4. CASE I # L
          <6>1. links'[P].last = links[P].last
            BY <5>4, <2>11
          <6>. QED BY <5>1, <5>2, <5>4, <6>1, <2>8
        <5>. QED BY <5>3, <5>4
      <4>3. ASSUME NEW i \in 1..(L - 1)
            PROVE  /\ links'[kids'[P][i]].parent = P
                   /\ links'[kids'[P][i]].prev = Kid(P, i - 1)'
                   /\ links'[kids'[P][i]].next = Kid(P, i + 1)'
        <5>1. PICK j \in 1..L : j = IF i < I THEN i ELSE i + 1
          BY <2>1
        <5>2. /\ kids'[P][i] = kids[P][j] /\ kids[P][j] \in Nodes
              /\ links[kids[P][j]].parent = P
              /\ links[kids[P][j]].prev = Kid(P, j - 1)
              /\ links[kids[P][j]].next = Kid(P, j + 1)
          BY <5>1, <3>1, <3>3, <2>1, <2>3, <2>5
        <5>3. /\ kids[P][j] = nxt <=> j = I + 1
              /\ kids[P][j] = prv <=> j = I - 1
          <6>1. I # 1 => I - 1 \in 1..L
            BY <2>1
          <6>2. I # L => I + 1 \in 1..L
            BY <2>1
          <6>3. (j = I + 1 => I # L) /\ (j = I - 1 => I # 1)
            BY <2>1
          <6>. QED BY <6>1, <6>2, <6>3, <5>2, <2>1, <2>2, <2>7
        <5>4. links'[kids'[P][i]].prev = Kid(P, i - 1)'
          <6>1. Kid(P, i - 1)' = Kid(P, IF i - 1 < I THEN i - 1 ELSE i)
            BY <2>6
          <6>2. CASE j = I + 1
            <7>1. i = I /\ i - 1 < I
              BY <6>2, <5>1
            <7>. QED BY <7>1, <6>1, <6>2, <5>2, <5>3, <2>7, <2>11
          <6>3. CASE j # I + 1
            <7>1. j - 1 = IF i - 1 < I THEN i - 1 ELSE i
              BY <6>3, <5>1
            <7>. QED BY <7>1, <6>1, <6>3, <5>2, <5>3, <2>11
          <6>. QED BY <6>2, <6>3
        <5>5. links'[kids'[P][i]].next = Kid(P, i + 1)'
          <6>1. Kid(P, i + 1)' = Kid(P, IF i + 1 < I THEN i + 1 ELSE i + 1 + 1)
            BY <2>6
          <6>2. CASE j = I - 1
            <7>1. ~(i + 1 < I) /\ i + 1 + 1 = I + 1
              BY <6>2, <5>1
            <7>. QED BY <7>1, <6>1, <6>2, <5>2, <5>3, <2>7, <2>11
          <6>3. CASE j # I - 1
            <7>1. j + 1 = IF i + 1 < I THEN i + 1 ELSE i + 1 + 1
              BY <6>3, <5>1
            <7>. QED BY <7>1, <6>1, <6>3, <5>2, <5>3, <2>11
          <6>. QED BY <6>2, <6>3
        <5>. QED BY <5>2, <5>4, <5>5, <2>11
      <4>. QED BY <4>1, <4>2, <4>3, <3>3, <2>5 DEF Kid
    <3>. QED BY <3>2, <3>3
  <2>15. prv = Nil \/ (prv \in Nodes /\ where[prv] = "tree" /\ IsKid(prv))
    <3>1. CASE I # 1
      <4>1. I - 1 \in 1..L
        BY <3>1, <2>1
      <4>2. kids[P][I - 1] \in ToSet(kids[P])
        BY <4>1, <2>1, <1>2
      <4>. QED BY <4>1, <4>2, <3>1, <2>3, <2>7 DEF IsKid
    <3>. QED BY <3>1, <2>7
  <2>16. nxt = Nil \/ (nxt \in Nodes /\ where[nxt] = "tree" /\ IsKid(nxt))
    <3>1. CASE I # L
      <4>1. I + 1 \in 1..L
        BY <3>1, <2>1
      <4>2. kids[P][I + 1] \in ToSet(kids[P])
        BY <4>1, <2>1, <1>2
      <4>. QED BY <4>1, <4>2, <3>1, <2>3, <2>7 DEF IsKid
    <3>. QED BY <3>1, <2>7
  <2>17. ASSUME NEW x \in Nodes, where[x] # "tree"
         PROVE  /\ kids'[x] = kids[x] /\ links'[x] = links[x]
                /\ \A i \in DOMAIN kids[x] : links'[kids[x][i]] = links[kids[x][i]]
    <3>1. \A i \in DOMAIN kids[x] : kids[x][i] \in Nodes /\ where[kids[x][i]] # "tree"
      BY <2>17, <1>1, KidFacts DEF IInv, Together
    <3>. QED BY <3>1, <2>3, <2>5, <2>11, <2>15, <2>16, <2>17
  <2>18. \A x \in Nodes : ~IsKid(x) =>
                 /\ links'[x].parent = links[x].parent
                 /\ links'[x].prev = links[x].prev /\ links'[x].next = links[x].next
    BY <2>11, <2>15, <2>16
  <2>19. \A x \in Nodes : ToSet(kids'[x]) = ToSet(kids[x]) \ {n}
    <3>1. \A x \in Nodes : x # P => n \notin ToSet(kids[x])
      BY <2>1, <2>2, <1>2
    <3>. QED BY <3>1, <2>5
  <2>. QED BY <2>5, <2>11, <2>12, <2>14, <2>17, <2>18, <2>19
<1>. QED BY <1>3, <1>4

(* The whole tree below n goes to its owner's call of recycle, and nothing else does. *)
LEMMA ReleaseStep ==
    ASSUME IInv, NEW p \in Procs, RemoveAndReleaseTree(p)
    PROVE  IInv'
<1>. USE IdrAssumption
<1>1. TypeOK
  BY DEF IInv
<1>2. PICK n \in Nodes :
        /\ Idle(p) /\ where[n] = "tree" /\ owner[n] = p
        /\ links' = Unlinked(n)
        /\ frames' = [frames EXCEPT ![p] = <<Frame(n, links)>>]
        /\ where' = [m \in Nodes |-> IF m \in Subtree(n) THEN "dying" ELSE where[m]]
        /\ kids' = [m \in Nodes |-> IF n \in ToSet(kids[m]) THEN Without(kids[m], n) ELSE kids[m]]
        /\ UNCHANGED <<id, nodeID, owner, used>>
  BY DEF RemoveAndReleaseTree, InTree
<1>. DEFINE D == Subtree(n)
<1>3. /\ D \subseteq Nodes /\ n \in D
      /\ \A m \in D : where[m] = "tree" /\ owner[m] = p
      /\ \A x \in D : n \notin ToSet(kids[x])
      /\ \A x \in Nodes : \A i \in DOMAIN kids[x] :
            kids[x][i] # n => (kids[x][i] \in D <=> x \in D)
  BY <1>2, BelowFacts
<1>4. \A m \in Nodes : m # n => (m \in D => \E x \in D : m \in ToSet(kids[x]))
  BY <1>1, SubtreeFacts
<1>. HIDE DEF D
<1>5. /\ links' \in [Nodes -> Link] /\ kids' \in [Nodes -> Seq(Nodes)]
      /\ \A x \in Nodes : ToSet(kids'[x]) = ToSet(kids[x]) \ {n}
      /\ OneParent'
      /\ \A x \in Nodes : where[x] = "tree" =>
            /\ links'[x].first = Kid(x, 1)' /\ links'[x].last = Kid(x, Len(kids[x]))'
            /\ \A i \in DOMAIN kids'[x] :
                  /\ links'[kids'[x][i]].parent = x
                  /\ links'[kids'[x][i]].prev = Kid(x, i - 1)'
                  /\ links'[kids'[x][i]].next = Kid(x, i + 1)'
      /\ \A x \in Nodes : where[x] # "tree" =>
            /\ kids'[x] = kids[x] /\ links'[x] = links[x]
            /\ \A i \in DOMAIN kids[x] : links'[kids[x][i]] = links[kids[x][i]]
      /\ \A x \in Nodes : ~IsKid(x) =>
            /\ links'[x].parent = links[x].parent
            /\ links'[x].prev = links[x].prev /\ links'[x].next = links[x].next
  BY <1>2, Unlink
<1>6. \A x \in Nodes : where'[x] = IF x \in D THEN "dying" ELSE where[x]
  BY <1>2 DEF D
<1>7. \A x \in Nodes : IsKid(x)' <=> IsKid(x) /\ x # n
  BY <1>5 DEF IsKid
<1>8. /\ DOMAIN frames'[p] = {1}
      /\ frames'[p][1] = [node |-> n, child |-> links[n].first]
      /\ \A q \in Procs : q # p => frames'[q] = frames[q]
      /\ frames' \in [Procs -> Seq([node : Nodes, child : Pointers])]
  <2>1. links[n].first \in Pointers
    BY <1>1 DEF TypeOK
  <2>. DEFINE f == [node |-> n, child |-> links[n].first]
  <2>2. f \in [node : Nodes, child : Pointers]
    BY <2>1
  <2>. HIDE DEF f
  <2>3. frames' = [frames EXCEPT ![p] = <<f>>]
    BY <1>2 DEF f, Frame
  <2>4. <<f>> \in Seq([node : Nodes, child : Pointers]) /\ DOMAIN <<f>> = {1} /\ <<f>>[1] = f
    BY <2>2
  <2>5. frames'[p] = <<f>> /\ \A q \in Procs : q # p => frames'[q] = frames[q]
    BY <2>3, <1>1 DEF TypeOK
  <2>6. frames' \in [Procs -> Seq([node : Nodes, child : Pointers])]
    BY <2>3, <2>4, <1>1 DEF TypeOK
  <2>. QED BY <2>4, <2>5, <2>6 DEF f
<1>9. frames[p] = <<>> /\ DOMAIN frames[p] = {}
  <2>1. frames[p] = <<>>
    BY <1>2 DEF Idle
  <2>. QED BY <2>1
<1>10. \A x \in Nodes : \A i \in DOMAIN kids'[x] :
          /\ kids'[x][i] \in Nodes /\ kids'[x][i] # n
          /\ \E j \in DOMAIN kids[x] : kids'[x][i] = kids[x][j]
  <2>. SUFFICES ASSUME NEW x \in Nodes, NEW i \in DOMAIN kids'[x]
                PROVE  /\ kids'[x][i] \in Nodes /\ kids'[x][i] # n
                       /\ \E j \in DOMAIN kids[x] : kids'[x][i] = kids[x][j]
    OBVIOUS
  <2>1. kids'[x] \in Seq(Nodes)
    BY <1>5
  <2>2. kids'[x][i] \in ToSet(kids'[x]) /\ kids'[x][i] \in Nodes
    BY <2>1, LenProperties, ElementOfSeq DEF ToSet
  <2>3. ToSet(kids[x]) = {kids[x][j] : j \in DOMAIN kids[x]}
    BY <1>1, KidFacts
  <2>. QED BY <2>2, <2>3, <1>5
<1>11. TypeOK'
  <2>1. where' \in [Nodes -> {"fresh", "pool", "tree", "dying"}]
    BY <1>1, <1>2 DEF TypeOK
  <2>. QED BY <2>1, <1>1, <1>2, <1>5, <1>8 DEF TypeOK, Link
<1>12. Together'
  <2>1. ASSUME NEW x \in Nodes, NEW i \in DOMAIN kids'[x]
        PROVE  /\ where'[x] \in {"tree", "dying"}
               /\ where'[kids'[x][i]] = where'[x]
               /\ owner[kids'[x][i]] = owner[x]
    <3>1. PICK j \in DOMAIN kids[x] : kids'[x][i] = kids[x][j]
      BY <1>10
    <3>2. where[x] \in {"tree", "dying"} /\ where[kids[x][j]] = where[x] /\ owner[kids[x][j]] = owner[x]
      BY DEF IInv, Together
    <3>3. kids'[x][i] \in Nodes /\ (kids'[x][i] \in D <=> x \in D)
      BY <3>1, <1>3, <1>10
    <3>. QED BY <3>1, <3>2, <3>3, <1>6
  <2>2. \A x \in Nodes : where'[x] \in {"tree", "dying"} => owner[x] \in Procs
    BY <1>3, <1>6 DEF IInv, Together
  <2>. QED BY <2>1, <2>2, <1>2 DEF Together
<1>13. NoCircle'
  BY <1>5 DEF IInv, NoCircle
<1>14. Unlinks'
  <2>1. ASSUME NEW x \in Nodes, where'[x] \in {"fresh", "pool"} PROVE links'[x] = NoLinks
    <3>1. where[x] = where'[x]
      BY <2>1, <1>6
    <3>. QED BY <2>1, <3>1, <1>5 DEF IInv, Unlinks
  <2>2. ASSUME NEW x \in Nodes, where'[x] = "tree", ~IsKid(x)'
        PROVE  links'[x].parent = Nil /\ links'[x].prev = Nil /\ links'[x].next = Nil
    <3>1. where[x] = "tree" /\ x # n
      BY <2>2, <1>3, <1>6
    <3>2. ~IsKid(x)
      BY <2>2, <3>1, <1>7
    <3>. QED BY <3>1, <3>2, <1>5 DEF IInv, Unlinks
  <2>. QED BY <2>1, <2>2 DEF Unlinks
<1>15. LinksAgree'
  <2>. SUFFICES ASSUME NEW x \in Nodes, where'[x] = "tree"
                PROVE  /\ links'[x].first = Kid(x, 1)' /\ links'[x].last = Kid(x, Len(kids[x]))'
                       /\ \A i \in DOMAIN kids'[x] :
                             /\ where'[kids'[x][i]] = "tree" /\ owner'[kids'[x][i]] = owner'[x]
                             /\ links'[kids'[x][i]].parent = x
                             /\ links'[kids'[x][i]].prev = Kid(x, i - 1)'
                             /\ links'[kids'[x][i]].next = Kid(x, i + 1)'
    BY DEF LinksAgree
  <2>1. where[x] = "tree"
    BY <1>6
  <2>2. \A i \in DOMAIN kids'[x] : where'[kids'[x][i]] = "tree" /\ owner'[kids'[x][i]] = owner'[x]
    BY <1>12 DEF Together
  <2>. QED BY <2>1, <2>2, <1>5
<1>16. FramesInv'
  <2>1. \A q \in Procs : \A i \in DOMAIN frames[q] :
          /\ frames[q][i].node \in Nodes
          /\ where[frames[q][i].node] = "dying" /\ owner[frames[q][i].node] = q
          /\ ~IsKid(frames[q][i].node)
          /\ frames[q][i].child = Kid(frames[q][i].node, 1)
          /\ \A j \in DOMAIN frames[q] : frames[q][i].node = frames[q][j].node => i = j
    BY <1>1, FrameFacts DEF IInv, FramesInv
  <2>. SUFFICES ASSUME NEW q \in Procs, NEW i \in DOMAIN frames'[q]
                PROVE  /\ where'[frames'[q][i].node] = "dying"
                       /\ owner'[frames'[q][i].node] = q
                       /\ ~IsKid(frames[q][i].node)'
                       /\ frames'[q][i].child = Kid(frames[q][i].node, 1)'
                       /\ \A j \in DOMAIN frames'[q] : frames'[q][i].node = frames'[q][j].node => i = j
    BY DEF FramesInv
  <2>2. PICK m \in Nodes :
          /\ m = frames'[q][i].node
          /\ where'[m] = "dying" /\ owner[m] = q
          /\ ~IsKid(m)'
          /\ frames'[q][i].child = Kid(m, 1)'
          /\ \A j \in DOMAIN frames'[q] : frames'[q][i].node = frames'[q][j].node => i = j
    <3>1. CASE q = p
      <4>1. i = 1 /\ frames'[q][i].node = n /\ frames'[q][i].child = links[n].first
        BY <3>1, <1>8
      <4>2. kids'[n] = kids[n]
        BY <1>2, <1>3
      <4>3. links[n].first = Kid(n, 1)'
        BY <4>2, <1>2 DEF IInv, LinksAgree, Kid
      <4>. QED BY <4>1, <4>3, <3>1, <1>2, <1>3, <1>6, <1>7, <1>8
    <3>2. CASE q # p
      <4>1. PICK m \in Nodes : m = frames[q][i].node
        BY <3>2, <2>1, <1>8
      <4>2. /\ where[m] = "dying" /\ owner[m] = q /\ ~IsKid(m) /\ frames[q][i].child = Kid(m, 1)
            /\ frames'[q] = frames[q]
        BY <3>2, <4>1, <2>1, <1>8
      <4>3. kids'[m] = kids[m]
        BY <4>2, <1>5
      <4>4. Kid(m, 1)' = Kid(m, 1)
        BY <4>3 DEF Kid
      <4>. QED BY <4>1, <4>2, <4>4, <3>2, <2>1, <1>3, <1>6, <1>7
    <3>. QED BY <3>1, <3>2
  <2>3. ~IsKid(frames[q][i].node)' /\ Kid(frames[q][i].node, 1)' = Kid(m, 1)'
    BY <2>2 DEF IsKid, Kid
  <2>. QED BY <2>2, <2>3, <1>2
<1>17. DyingInv'
  <2>. SUFFICES ASSUME NEW x \in Nodes, where'[x] = "dying"
                PROVE  /\ InFrame(x)' \/ IsKid(x)'
                       /\ InFrame(x)' \/ links'[x].first = Kid(x, 1)'
                       /\ \A i \in DOMAIN kids'[x] : links'[kids'[x][i]].next = Kid(x, i + 1)'
    BY DEF DyingInv
  <2>1. CASE x \in D
    <3>1. where[x] = "tree"
      BY <2>1, <1>3
    <3>2. InFrame(x)' \/ IsKid(x)'
      <4>1. CASE x = n
        BY <4>1, <1>2, <1>8 DEF InFrame
      <4>2. CASE x # n
        BY <4>2, <2>1, <1>3, <1>4, <1>7 DEF IsKid
      <4>. QED BY <4>1, <4>2
    <3>. QED BY <3>1, <3>2, <1>5
  <2>2. CASE x \notin D
    <3>1. where[x] = "dying"
      BY <2>2, <1>6
    <3>2. /\ InFrame(x) \/ IsKid(x)
          /\ InFrame(x) \/ links[x].first = Kid(x, 1)
          /\ \A i \in DOMAIN kids[x] : links[kids[x][i]].next = Kid(x, i + 1)
      BY <3>1 DEF IInv, DyingInv
    <3>3. x # n
      BY <2>2, <1>3
    <3>4. InFrame(x) => InFrame(x)'
      <4>1. ASSUME InFrame(x) PROVE InFrame(x)'
        <5>1. owner[x] # p
          BY <4>1, <1>9 DEF InFrame
        <5>2. owner[x] \in Procs
          BY <3>1 DEF IInv, Together
        <5>. QED BY <4>1, <5>1, <5>2, <1>2, <1>8 DEF InFrame
      <4>. QED BY <4>1
    <3>5. /\ kids'[x] = kids[x] /\ links'[x] = links[x]
          /\ \A i \in DOMAIN kids[x] : links'[kids[x][i]] = links[kids[x][i]]
      BY <3>1, <1>5
    <3>6. \A i : Kid(x, i)' = Kid(x, i)
      BY <3>5 DEF Kid
    <3>. QED BY <3>2, <3>3, <3>4, <3>5, <3>6, <1>7
  <2>. QED BY <2>1, <2>2
<1>18. PoolIDs'
  <2>1. \A x \in Nodes : where'[x] = "pool" => where[x] = "pool"
    BY <1>6
  <2>. QED BY <2>1, <1>2 DEF IInv, PoolIDs
<1>. QED BY <1>5, <1>11, <1>12, <1>13, <1>14, <1>15, <1>16, <1>17, <1>18 DEF IInv

LEMMA NextInv == IInv /\ [Next]_vars => IInv'
<1>. SUFFICES ASSUME IInv, [Next]_vars PROVE IInv'
  OBVIOUS
<1>1. ASSUME NEW p \in Procs, CreateNode(p) PROVE IInv'
  BY <1>1, CreateStep
<1>2. ASSUME NEW p \in Procs, AddChild(p) PROVE IInv'
  BY <1>2, AddStep
<1>3. ASSUME NEW p \in Procs, RemoveAndReleaseTree(p) PROVE IInv'
  BY <1>3, ReleaseStep
<1>4. ASSUME NEW p \in Procs, RecycleChild(p) PROVE IInv'
  BY <1>4, RecycleChildStep
<1>5. ASSUME NEW p \in Procs, RecycleSelf(p) PROVE IInv'
  BY <1>5, RecycleSelfStep
<1>6. CASE UNCHANGED vars
  <2>1. \A x : IsKid(x)' <=> IsKid(x)
    BY <1>6 DEF IsKid, vars
  <2>2. \A x, i : Kid(x, i)' = Kid(x, i)
    BY <1>6 DEF Kid, vars
  <2>3. \A x : InFrame(x)' <=> InFrame(x)
    BY <1>6 DEF InFrame, vars
  <2>4. TypeOK' /\ OneParent' /\ Together' /\ NoCircle' /\ PoolIDs'
    <3>1. TypeOK'
      BY <1>6 DEF IInv, vars, TypeOK
    <3>2. OneParent' /\ NoCircle'
      BY <1>6 DEF IInv, vars, OneParent, NoCircle
    <3>3. Together' /\ PoolIDs'
      BY <1>6 DEF IInv, vars, Together, PoolIDs
    <3>. QED BY <3>1, <3>2, <3>3
  <2>5. Unlinks' /\ DyingInv'
    BY <1>6, <2>1, <2>2, <2>3 DEF IInv, vars, Unlinks, DyingInv
  <2>6. LinksAgree'
    BY <1>6 DEF IInv, vars, LinksAgree, Kid
  <2>7. FramesInv'
    BY <1>6 DEF IInv, vars, FramesInv, Kid, IsKid
  <2>. QED BY <2>4, <2>5, <2>6, <2>7 DEF IInv
<1>. QED BY <1>1, <1>2, <1>3, <1>4, <1>5, <1>6 DEF Next
-----------------------------------------------------------------------------
(* The inductive invariant: what is linked, what is dying, and what is pooled. *)
THEOREM Invariance == Spec => []IInv
BY InitInv, NextInv, PTL DEF Spec

(* Every variable has its type, and IDs only grow (node.go:49-53). *)
THEOREM TypeCorrect == Spec => []TypeOK
<1>1. IInv => TypeOK
  BY DEF IInv
<1>. QED BY <1>1, Invariance, PTL

(* The links of a tree in use tell the same children in the same order, *)
(* after any sequence of AddChild and RemoveAndReleaseTree.             *)
THEOREM LinksCorrect == Spec => []LinksAgree
<1>1. IInv => LinksAgree
  BY DEF IInv
<1>. QED BY <1>1, Invariance, PTL

(* A pooled node is clean, and no tree in use leads to it. *)
THEOREM PoolCorrect == Spec => []PoolClean
<1>1. IInv => PoolClean
  <2>. USE IdrAssumption
  <2>. SUFFICES ASSUME IInv, NEW n \in Nodes, where[n] = "pool"
                PROVE  /\ links[n] = NoLinks
                       /\ \A m \in Nodes : where[m] = "tree" =>
                            n \notin {links[m].parent, links[m].first, links[m].last,
                                      links[m].prev, links[m].next}
    BY DEF PoolClean
  <2>1. links[n] = NoLinks /\ DOMAIN kids[n] = {} /\ ~IsKid(n)
    BY SingleFacts
  <2>2. TypeOK
    BY DEF IInv
  <2>3. \A x \in Nodes : \A i : Kid(x, i) # n
    BY <2>1, <2>2, KidFacts DEF Kid, IsKid
  <2>4. ASSUME NEW m \in Nodes, where[m] = "tree"
        PROVE  n \notin {links[m].parent, links[m].first, links[m].last, links[m].prev, links[m].next}
    <3>1. n \notin {links[m].first, links[m].last}
      BY <2>3, <2>4 DEF IInv, LinksAgree
    <3>2. CASE ~IsKid(m)
      BY <3>1, <3>2, <2>4 DEF IInv, Unlinks
    <3>3. CASE IsKid(m)
      <4>1. PICK x \in Nodes : m \in ToSet(kids[x])
        BY <3>3 DEF IsKid
      <4>2. PICK i \in DOMAIN kids[x] : kids[x][i] = m
        BY <4>1 DEF ToSet
      <4>3. where[x] = "tree"
        BY <4>2, <2>4 DEF IInv, Together
      <4>4. links[m].parent = x /\ links[m].prev = Kid(x, i - 1) /\ links[m].next = Kid(x, i + 1)
        BY <4>2, <4>3 DEF IInv, LinksAgree
      <4>5. x # n
        BY <4>3
      <4>. QED BY <4>4, <4>5, <3>1, <2>3
    <3>. QED BY <3>2, <3>3
  <2>. QED BY <2>1, <2>4
<1>. QED BY <1>1, Invariance, PTL

(* What recycle has still to do is its own, and nothing is forgotten when it is done. *)
THEOREM RecycleCorrect == Spec => []RecycleOwn
<1>1. IInv => RecycleOwn
  <2>. USE IdrAssumption
  <2>. SUFFICES ASSUME IInv, NEW p \in Procs
                PROVE  /\ \A i \in DOMAIN frames[p] :
                             \A n \in {frames[p][i].node, frames[p][i].child} \ {Nil} :
                                where[n] = "dying" /\ owner[n] = p
                       /\ Idle(p) => \A n \in Nodes : ~(where[n] = "dying" /\ owner[n] = p)
    BY DEF RecycleOwn
  <2>1. TypeOK
    BY DEF IInv
  <2>2. ASSUME NEW i \in DOMAIN frames[p], NEW n \in {frames[p][i].node, frames[p][i].child} \ {Nil}
        PROVE  where[n] = "dying" /\ owner[n] = p
    <3>1. /\ frames[p][i].node \in Nodes
          /\ where[frames[p][i].node] = "dying" /\ owner[frames[p][i].node] = p
          /\ frames[p][i].child = Kid(frames[p][i].node, 1)
      BY <2>1, FrameFacts DEF IInv, FramesInv
    <3>2. CASE n = frames[p][i].node
      BY <3>1, <3>2
    <3>3. CASE n = frames[p][i].child
      <4>1. 1 \in DOMAIN kids[frames[p][i].node] /\ n = kids[frames[p][i].node][1]
        BY <2>2, <3>1, <3>3 DEF Kid
      <4>. QED BY <3>1, <4>1 DEF IInv, Together
    <3>. QED BY <3>2, <3>3
  <2>3. ASSUME Idle(p), NEW n \in Nodes, where[n] = "dying", owner[n] = p
        PROVE  FALSE
    <3>. DEFINE S == {m \in Nodes : where[m] = "dying" /\ owner[m] = p}
    <3>1. S \in SUBSET Nodes /\ S # {}
      BY <2>3
    <3>2. PICK m \in S : \A x \in S : m \notin ToSet(kids[x])
      BY <3>1 DEF IInv, NoCircle
    <3>3. DOMAIN frames[p] = {}
      <4>1. frames[p] = <<>>
        BY <2>3 DEF Idle
      <4>. QED BY <4>1
    <3>4. ~InFrame(m)
      BY <3>2, <3>3 DEF InFrame
    <3>5. PICK x \in Nodes : m \in ToSet(kids[x])
      BY <3>2, <3>4 DEF IInv, DyingInv, IsKid
    <3>6. PICK i \in DOMAIN kids[x] : kids[x][i] = m
      BY <3>5 DEF ToSet
    <3>7. x \in S
      BY <3>2, <3>6 DEF IInv, Together
    <3>. QED BY <3>2, <3>5, <3>7
  <2>. QED BY <2>2, <2>3
<1>. QED BY <1>1, Invariance, PTL

(* A node that is taken from the pool, or allocated, has an ID no node of a tree ever had. *)
THEOREM IDsCorrect == Spec => IDsNeverReused
<1>1. IInv /\ [Next]_vars => [\A n \in Nodes : where[n] # "tree" /\ where'[n] = "tree" => id'[n] \notin used]_vars
  <2>. SUFFICES ASSUME IInv, Next, NEW n \in Nodes, where[n] # "tree", where'[n] = "tree"
                PROVE  id'[n] \notin used
    OBVIOUS
  <2>1. TypeOK
    BY DEF IInv
  <2>2. ASSUME NEW p \in Procs, CreateNode(p) PROVE id'[n] \notin used
    <3>1. PICK m \in Nodes :
            /\ where[m] \in {"fresh", "pool"}
            /\ nodeID' = IF where[m] = "fresh" THEN nodeID + 1 ELSE nodeID
            /\ id' = [id EXCEPT ![m] = IF where[m] = "fresh" THEN nodeID' ELSE @]
            /\ where' = [where EXCEPT ![m] = "tree"]
      BY <2>2 DEF CreateNode
    <3>2. m = n
      BY <3>1, <2>1 DEF TypeOK
    <3>3. CASE where[n] = "fresh"
      BY <3>1, <3>2, <3>3, <2>1 DEF TypeOK
    <3>4. CASE where[n] = "pool"
      BY <3>1, <3>2, <3>4, <2>1 DEF TypeOK, IInv, PoolIDs
    <3>. QED BY <3>1, <3>2, <3>3, <3>4
  <2>3. ASSUME NEW p \in Procs, AddChild(p) \/ RecycleChild(p) PROVE FALSE
    BY <2>3 DEF AddChild, RecycleChild
  <2>4. ASSUME NEW p \in Procs, RemoveAndReleaseTree(p) PROVE FALSE
    BY <2>4 DEF RemoveAndReleaseTree
  <2>5. ASSUME NEW p \in Procs, RecycleSelf(p) PROVE FALSE
    BY <2>5, <2>1 DEF RecycleSelf, TypeOK
  <2>. QED BY <2>2, <2>3, <2>4, <2>5 DEF Next
<1>. QED BY <1>1, Invariance, PTL DEF Spec, IDsNeverReused
=============================================================================
