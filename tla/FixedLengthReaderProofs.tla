------------------------ MODULE FixedLengthReaderProofs ------------------------
(***************************************************************************)
(* Theorems about the fixedlength2 reader, for every input, format of      *)
(* records and sequence of calls: its buffered lines keep their bytes, and *)
(* it implements RecReaderSpec over the lines that are not empty.          *)
(*                                                                         *)
(* The invariants of FixedLengthReader are not inductive: that a read      *)
(* overwrites no buffered line depends on all but the last one being       *)
(* copies, and that the first footer is found on what the lines that were  *)
(* compared so far are not.                                                *)
(***************************************************************************)
EXTENDS FixedLengthReader, FiniteSetTheorems,
        SequenceTheorems, WellFoundedInduction, TLAPS

(* Changing the top entry of a stack leaves the entries below it alone. *)
LEMMA SetLastType ==
    ASSUME NEW S, NEW s \in Seq(S), s # <<>>, NEW e \in S
    PROVE  /\ [s EXCEPT ![Len(s)] = e] \in Seq(S)
           /\ Len([s EXCEPT ![Len(s)] = e]) = Len(s)
           /\ [s EXCEPT ![Len(s)] = e] # <<>>
           /\ [s EXCEPT ![Len(s)] = e][Len(s)] = e
           /\ \A k \in 1..(Len(s) - 1) : [s EXCEPT ![Len(s)] = e][k] = s[k]
  BY EmptySeq, ExceptSeq

(* A set of natural numbers that is not empty has a least one. *)
LEMMA MinFacts ==
    ASSUME NEW S \in SUBSET Nat, S # {}
    PROVE  Min(S) \in S /\ \A k \in S : Min(S) <= k
<1>. DEFINE less == {ss \in Nat \X Nat : ss[1] < ss[2]}
<1>1. IsWellFoundedOn(less, Nat)
  BY NatLessThanWellFounded DEF OpToRel
<1>. HIDE DEF less
<1>2. PICK m \in S : \A k \in S : <<k, m>> \notin less
  BY <1>1, WFMin
<1>3. ASSUME NEW k \in S PROVE m <= k
  <2>1. k < m => <<k, m>> \in less
    BY DEF less
  <2>. QED BY <2>1, <1>2
<1>. QED BY <1>2, <1>3 DEF Min

(* A function on 1..n is a sequence of length n. *)
LEMMA FunctionIsSeq ==
    ASSUME NEW S, NEW n \in Nat, NEW f \in [1..n -> S]
    PROVE  f \in Seq(S) /\ Len(f) = n
  OBVIOUS
-----------------------------------------------------------------------------

(* A buffered line: it holds its own bytes, and is the k-th one kept. *)
LineIntact(ls, buf, rd, k) ==
    /\ buf[k].b = buf[k].lineNum
    /\ buf[k].lineNum \in 1..rd
    /\ ls[buf[k].lineNum] # Blank
    /\ NonBlank(ls, buf[k].lineNum) = NonBlank(ls, rd) - Len(buf) + k

(* A buffer of the lines read last, of which the first n are copies. *)
Intact(ls, buf, rd, n) ==
    /\ rd \in 0..Len(ls)
    /\ buf \in Seq(LineTypes) /\ Len(buf) <= NonBlank(ls, rd)
    /\ \A k \in 1..Len(buf) : LineIntact(ls, buf, rd, k)
    /\ \A k \in 1..n : buf[k].copied

(* A call under way is one of a reader that did not fail, and where its format says. *)
CallInv ==
    /\ pc # "idle" => answer.res # "failed"
    /\ pc = "rows" => call.format.rows > 0
    /\ pc \in {"header", "footer"} => call.format.rows = 0

(* A call starts with the first line. *)
HeaderInv == pc = "header" => i = 1

(* The first line is a header, and none of those compared so far is a footer. *)
FooterInv ==
    pc = "footer" =>
        /\ lines[linesBuf[1].lineNum] \in call.format.header
        /\ \A j \in 1..(i - 1) : lines[linesBuf[j].lineNum] \notin call.format.footer

IInv ==
    /\ TypeOK
    /\ Intact(lines, linesBuf, linesRead, Len(linesBuf) - 1)
    /\ CallInv
    /\ HeaderInv
    /\ FooterInv
-----------------------------------------------------------------------------
(* The number of lines that are not empty. *)

LEMMA NonBlankType ==
    ASSUME NEW ls, NEW n \in Nat
    PROVE  NonBlank(ls, n) \in Nat /\ IsFiniteSet({m \in 1..n : ls[m] # Blank})
<1>1. IsFiniteSet(1..n)
  BY FS_Interval
<1>2. {m \in 1..n : ls[m] # Blank} \in SUBSET (1..n)
  OBVIOUS
<1>3. IsFiniteSet({m \in 1..n : ls[m] # Blank})
  BY <1>1, <1>2, FS_Subset
<1>. QED BY <1>3, FS_CardinalityType DEF NonBlank

LEMMA NonBlankGrows ==
    ASSUME NEW ls, NEW a \in Nat, NEW b \in Nat, a <= b
    PROVE  /\ NonBlank(ls, a) <= NonBlank(ls, b)
           /\ (a < b /\ ls[b] # Blank) => NonBlank(ls, a) < NonBlank(ls, b)
<1>. DEFINE S(n) == {m \in 1..n : ls[m] # Blank}
<1>1. IsFiniteSet(S(a)) /\ IsFiniteSet(S(b)) /\ NonBlank(ls, a) \in Nat /\ NonBlank(ls, b) \in Nat
  BY NonBlankType
<1>2. S(a) \in SUBSET S(b)
  OBVIOUS
<1>3. NonBlank(ls, a) = Cardinality(S(a)) /\ NonBlank(ls, b) = Cardinality(S(b))
  BY DEF NonBlank
<1>4. ASSUME a < b, ls[b] # Blank PROVE S(a) # S(b)
  <2>1. b \in S(b) /\ b \notin S(a)
    BY <1>4
  <2>. QED BY <2>1
<1>. HIDE DEF S
<1>5. Cardinality(S(a)) <= Cardinality(S(b))
  BY <1>1, <1>2, FS_Subset
<1>6. Cardinality(S(b)) = Cardinality(S(a)) => S(b) = S(a)
  BY <1>1, <1>2, FS_Subset
<1>. QED BY <1>1, <1>3, <1>4, <1>5, <1>6

(* Past the last line that counts, the next line that is not empty counts one more. *)
LEMMA NonBlankNext ==
    ASSUME NEW ls, NEW a \in Nat, NEW b \in Nat, a < b, ls[b] # Blank,
           \A m \in (a + 1)..(b - 1) : ls[m] = Blank
    PROVE  NonBlank(ls, b) = NonBlank(ls, a) + 1
<1>. DEFINE S(n) == {m \in 1..n : ls[m] # Blank}
<1>1. IsFiniteSet(S(a))
  BY NonBlankType
<1>2. ASSUME NEW m PROVE m \in S(b) <=> m \in S(a) \cup {b}
  <2>1. m \in 1..b <=> (m \in 1..a \/ m \in (a + 1)..(b - 1) \/ m = b)
    OBVIOUS
  <2>2. ls[m] = Blank => m # b
    OBVIOUS
  <2>. QED BY <2>1, <2>2
<1>3. S(b) = S(a) \cup {b}
  BY <1>2
<1>4. b \notin S(a)
  OBVIOUS
<1>5. NonBlank(ls, a) = Cardinality(S(a)) /\ NonBlank(ls, b) = Cardinality(S(b))
  BY DEF NonBlank
<1>. HIDE DEF S
<1>. QED BY <1>1, <1>3, <1>4, <1>5, FS_AddElement

LEMMA NonBlankEnd ==
    ASSUME NEW ls, NEW a \in Nat, NEW b \in Nat, a <= b,
           \A m \in (a + 1)..b : ls[m] = Blank
    PROVE  NonBlank(ls, b) = NonBlank(ls, a)
<1>1. ASSUME NEW m
      PROVE  m \in {k \in 1..b : ls[k] # Blank} <=> m \in {k \in 1..a : ls[k] # Blank}
  <2>1. m \in 1..b <=> (m \in 1..a \/ m \in (a + 1)..b)
    OBVIOUS
  <2>. QED BY <2>1
<1>2. {k \in 1..b : ls[k] # Blank} = {k \in 1..a : ls[k] # Blank}
  BY <1>1
<1>. QED BY <1>2 DEF NonBlank

(* A line that is not empty is the one that its number says, of those that are not. *)
LEMMA NonBlankLine ==
    ASSUME NEW ls, Len(ls) \in Nat, NEW n \in 1..Len(ls), ls[n] # Blank
    PROVE  /\ NonBlank(ls, n) \in 1..NonBlank(ls, Len(ls))
           /\ NonBlankLines(ls)[NonBlank(ls, n)] = ls[n]
<1>. DEFINE k == NonBlank(ls, n)
            S == {m \in 1..Len(ls) : NonBlank(ls, m) = k}
<1>1. k \in Nat /\ NonBlank(ls, Len(ls)) \in Nat /\ NonBlank(ls, 0) \in Nat
  <2>1. n \in Nat /\ 0 \in Nat
    OBVIOUS
  <2>. QED BY <2>1, NonBlankType
<1>2. NonBlank(ls, 0) < k
  BY <1>1, NonBlankGrows
<1>3. k <= NonBlank(ls, Len(ls))
  BY NonBlankGrows
<1>4. k \in 1..NonBlank(ls, Len(ls))
  BY <1>1, <1>2, <1>3
<1>5. n \in S /\ S \in SUBSET Nat
  OBVIOUS
<1>6. Min(S) \in S /\ Min(S) <= n
  <2>. HIDE DEF S
  <2>. QED BY <1>5, MinFacts
<1>7. Min(S) = n
  <2>1. PICK m \in 1..Len(ls) : m = Min(S) /\ NonBlank(ls, m) = k /\ m <= n
    BY <1>6
  <2>2. m < n => NonBlank(ls, m) < NonBlank(ls, n)
    BY <2>1, NonBlankGrows
  <2>3. NonBlank(ls, m) = NonBlank(ls, n) /\ NonBlank(ls, n) \in Nat
    BY <1>1, <2>1
  <2>4. ~(m < n)
    BY <2>2, <2>3
  <2>5. m = n
    BY <2>1, <2>4
  <2>. QED BY <2>1, <2>5
<1>. QED BY <1>4, <1>7 DEF NonBlankLines

LEMMA NonBlankLinesType ==
    ASSUME NEW ls, Len(ls) \in Nat
    PROVE  /\ Len(NonBlankLines(ls)) = NonBlank(ls, Len(ls))
           /\ NonBlankLines(ls) \in Seq({NonBlankLines(ls)[k] : k \in 1..NonBlank(ls, Len(ls))})
<1>1. NonBlank(ls, Len(ls)) \in Nat
  BY NonBlankType
<1>2. NonBlankLines(ls) \in [1..NonBlank(ls, Len(ls)) ->
                               {NonBlankLines(ls)[k] : k \in 1..NonBlank(ls, Len(ls))}]
  BY DEF NonBlankLines
<1>. QED BY <1>1, <1>2, FunctionIsSeq
-----------------------------------------------------------------------------
(* Buffers. *)

LEMMA InputFacts ==
    ASSUME NEW ls \in Inputs
    PROVE  /\ ls \in Seq(DOMAIN Width \cup {Blank}) /\ Len(ls) \in Nat
           /\ \A n \in 1..Len(ls) : ls[n] # Blank => ls[n] \in DOMAIN Width
<1>1. ls \in Seq(DOMAIN Width \cup {Blank})
  BY FixedLengthAssumption
<1>. QED BY <1>1, LenProperties, ElementOfSeq

LEMMA BufferFacts ==
    ASSUME NEW ls \in Inputs, NEW buf, NEW rd, NEW n, Intact(ls, buf, rd, n)
    PROVE  /\ Len(buf) \in Nat /\ Len(ls) \in Nat /\ rd \in Nat /\ rd <= Len(ls)
           /\ NonBlank(ls, rd) \in Nat /\ Len(buf) <= NonBlank(ls, rd)
           /\ buf = <<>> <=> Len(buf) = 0
           /\ \A k \in 1..Len(buf) :
                 /\ buf[k] \in LineTypes
                 /\ buf[k].lineNum \in 1..Len(ls) /\ buf[k].b = buf[k].lineNum
                 /\ buf[k].b # Garbled
                 /\ ls[buf[k].lineNum] \in DOMAIN Width /\ ls[buf[k].lineNum] # Blank
                 /\ NonBlank(ls, buf[k].lineNum) = NonBlank(ls, rd) - Len(buf) + k
                 /\ NonBlankLines(ls)[NonBlank(ls, rd) - Len(buf) + k] = ls[buf[k].lineNum]
<1>1. /\ rd \in 0..Len(ls) /\ buf \in Seq(LineTypes) /\ Len(buf) <= NonBlank(ls, rd)
      /\ Len(ls) \in Nat
  BY InputFacts DEF Intact
<1>2. /\ Len(buf) \in Nat /\ rd \in Nat /\ rd <= Len(ls)
      /\ buf = <<>> <=> Len(buf) = 0
  BY <1>1, EmptySeq
<1>3. NonBlank(ls, rd) \in Nat
  BY <1>2, NonBlankType
<1>4. ASSUME NEW k \in 1..Len(buf)
      PROVE  /\ buf[k] \in LineTypes
             /\ buf[k].lineNum \in 1..Len(ls) /\ buf[k].b = buf[k].lineNum
             /\ buf[k].b # Garbled
             /\ ls[buf[k].lineNum] \in DOMAIN Width /\ ls[buf[k].lineNum] # Blank
             /\ NonBlank(ls, buf[k].lineNum) = NonBlank(ls, rd) - Len(buf) + k
             /\ NonBlankLines(ls)[NonBlank(ls, rd) - Len(buf) + k] = ls[buf[k].lineNum]
  <2>1. LineIntact(ls, buf, rd, k)
    BY DEF Intact
  <2>2. buf[k] \in LineTypes
    BY <1>1, ElementOfSeq
  <2>3. buf[k].lineNum \in 1..Len(ls)
    BY <2>1, <1>1, <1>2 DEF LineIntact
  <2>4. /\ NonBlankLines(ls)[NonBlank(ls, buf[k].lineNum)] = ls[buf[k].lineNum]
        /\ ls[buf[k].lineNum] \in DOMAIN Width
    BY <2>1, <2>3, <1>1, NonBlankLine, InputFacts DEF LineIntact
  <2>5. buf[k].b # Garbled
    BY <2>1, <2>3 DEF LineIntact, Garbled
  <2>. QED BY <2>1, <2>2, <2>3, <2>4, <2>5 DEF LineIntact
<1>. QED BY <1>1, <1>2, <1>3, <1>4

(* The line that was read last is copied before the next read. *)
LEMMA CopiedIntact ==
    ASSUME NEW ls \in Inputs, NEW buf, NEW rd, Intact(ls, buf, rd, Len(buf) - 1)
    PROVE  /\ Intact(ls, LastCopied(buf), rd, Len(buf))
           /\ Len(LastCopied(buf)) = Len(buf)
           /\ \A k \in 1..Len(buf) : LastCopied(buf)[k].lineNum = buf[k].lineNum
<1>. DEFINE buf2 == LastCopied(buf)
<1>1. /\ Len(buf) \in Nat
      /\ buf = <<>> <=> Len(buf) = 0
      /\ \A k \in 1..Len(buf) : buf[k] \in LineTypes
  BY BufferFacts
<1>2. /\ buf \in Seq(LineTypes)
      /\ \A k \in 1..Len(buf) : LineIntact(ls, buf, rd, k)
      /\ \A k \in 1..(Len(buf) - 1) : buf[k].copied
  BY DEF Intact
<1>3. CASE buf = <<>>
  <2>1. buf2 = buf /\ Len(buf) = 0
    BY <1>1, <1>3 DEF LastCopied
  <2>. QED BY <2>1 DEF Intact
<1>4. CASE buf # <<>>
  <2>. DEFINE new == [buf[Len(buf)] EXCEPT !.copied = TRUE]
  <2>1. Len(buf) \in 1..Len(buf)
    BY <1>1, <1>4
  <2>2. /\ new \in LineTypes /\ new.copied = TRUE
        /\ new.b = buf[Len(buf)].b /\ new.lineNum = buf[Len(buf)].lineNum
    <3>1. buf[Len(buf)] \in LineTypes
      BY <1>1, <2>1
    <3>. QED BY <3>1 DEF LineTypes
  <2>3. buf2 = [buf EXCEPT ![Len(buf)] = new]
    BY <1>4 DEF LastCopied
  <2>. HIDE DEF new, buf2
  <2>4. /\ buf2 \in Seq(LineTypes) /\ Len(buf2) = Len(buf) /\ buf2[Len(buf)] = new
        /\ \A k \in 1..(Len(buf) - 1) : buf2[k] = buf[k]
    BY <1>2, <1>4, <2>2, <2>3, SetLastType
  <2>5. ASSUME NEW k \in 1..Len(buf)
        PROVE  buf2[k].lineNum = buf[k].lineNum /\ buf2[k].b = buf[k].b /\ buf2[k].copied
    <3>1. CASE k = Len(buf)
      BY <3>1, <2>2, <2>4
    <3>2. CASE k # Len(buf)
      <4>1. k \in 1..(Len(buf) - 1)
        BY <3>2, <1>1
      <4>. QED BY <4>1, <1>2, <2>4
    <3>. QED BY <3>1, <3>2
  <2>6. \A k \in 1..Len(buf2) : LineIntact(ls, buf2, rd, k)
    BY <1>2, <2>4, <2>5 DEF LineIntact
  <2>. QED BY <2>4, <2>5, <2>6 DEF Intact, buf2
<1>. QED BY <1>3, <1>4

(* Then no read touches what is in the buffer. *)
LEMMA ReadKeeps ==
    ASSUME NEW ls \in Inputs, NEW buf, NEW rd, Intact(ls, buf, rd, Len(buf)),
           NEW buf2 \in AfterRead(buf)
    PROVE  buf2 = buf
<1>1. \A k \in 1..Len(buf) : buf[k].copied
  BY DEF Intact
<1>2. {k \in 1..Len(buf) : ~buf[k].copied} = {}
  BY <1>1
<1>3. PICK lost \in SUBSET {k \in 1..Len(buf) : ~buf[k].copied} :
          buf2 = [k \in 1..Len(buf) |-> IF k \in lost THEN [buf[k] EXCEPT !.b = Garbled] ELSE buf[k]]
  BY DEF AfterRead
<1>4. buf2 = [k \in 1..Len(buf) |-> buf[k]]
  BY <1>2, <1>3
<1>5. buf \in Seq(LineTypes)
  BY DEF Intact
<1>6. buf = [k \in 1..Len(buf) |-> buf[k]]
  BY <1>5
<1>. QED BY <1>4, <1>6

(* The next line that is not empty goes behind the others. *)
LEMMA AppendIntact ==
    ASSUME NEW ls \in Inputs, NEW buf, NEW rd, Intact(ls, buf, rd, Len(buf)),
           NEW n \in (rd + 1)..Len(ls), ls[n] # Blank,
           \A m \in (rd + 1)..(n - 1) : ls[m] = Blank,
           NEW new, new = [lineNum |-> n, b |-> n, copied |-> FALSE]
    PROVE  /\ Intact(ls, Append(buf, new), n, Len(buf))
           /\ NonBlank(ls, n) = NonBlank(ls, rd) + 1
           /\ Len(Append(buf, new)) = Len(buf) + 1
           /\ \A k \in 1..Len(buf) : Append(buf, new)[k].lineNum = buf[k].lineNum
<1>. DEFINE buf2 == Append(buf, new)
<1>1. /\ Len(buf) \in Nat /\ Len(ls) \in Nat /\ rd \in Nat /\ NonBlank(ls, rd) \in Nat
      /\ Len(buf) <= NonBlank(ls, rd)
  BY BufferFacts
<1>2. n \in Nat /\ rd < n /\ n <= Len(ls) /\ n \in 1..n
  BY <1>1
<1>3. NonBlank(ls, n) = NonBlank(ls, rd) + 1
  BY <1>1, <1>2, NonBlankNext
<1>4. /\ new \in LineTypes /\ new.lineNum = n /\ new.b = n
  BY <1>2 DEF LineTypes
<1>5. buf \in Seq(LineTypes) /\ \A k \in 1..Len(buf) : buf[k].copied
  BY DEF Intact
<1>6. /\ buf2 \in Seq(LineTypes) /\ Len(buf2) = Len(buf) + 1
      /\ buf2[Len(buf) + 1] = new /\ \A k \in 1..Len(buf) : buf2[k] = buf[k]
  BY <1>4, <1>5, AppendProperties
<1>. HIDE DEF buf2
<1>7. ASSUME NEW k \in 1..Len(buf2) PROVE LineIntact(ls, buf2, n, k)
  <2>1. CASE k = Len(buf) + 1
    BY <2>1, <1>1, <1>2, <1>3, <1>4, <1>6 DEF LineIntact
  <2>2. CASE k # Len(buf) + 1
    <3>1. k \in 1..Len(buf)
      BY <2>2, <1>1, <1>6
    <3>2. LineIntact(ls, buf, rd, k) /\ buf2[k] = buf[k]
      BY <3>1, <1>6 DEF Intact
    <3>3. NonBlank(ls, rd) - Len(buf) + k = NonBlank(ls, n) - Len(buf2) + k
      BY <1>1, <1>3, <1>6
    <3>4. \A m \in 1..rd : m \in 1..n
      BY <1>1, <1>2
    <3>. QED BY <3>2, <3>3, <3>4 DEF LineIntact
  <2>. QED BY <2>1, <2>2
<1>8. Len(buf2) <= NonBlank(ls, n) /\ n \in 0..Len(ls)
  BY <1>1, <1>2, <1>3, <1>6
<1>9. \A k \in 1..Len(buf) : buf2[k].copied
  BY <1>5, <1>6
<1>. QED BY <1>3, <1>6, <1>7, <1>8, <1>9 DEF Intact, buf2

(* Nothing but empty lines is left. *)
LEMMA EndIntact ==
    ASSUME NEW ls \in Inputs, NEW buf, NEW rd, NEW n, Intact(ls, buf, rd, n),
           \A m \in (rd + 1)..Len(ls) : ls[m] = Blank
    PROVE  Intact(ls, buf, Len(ls), n) /\ NonBlank(ls, Len(ls)) = NonBlank(ls, rd)
<1>1. Len(ls) \in Nat /\ rd \in Nat /\ rd <= Len(ls)
  BY BufferFacts
<1>2. NonBlank(ls, Len(ls)) = NonBlank(ls, rd)
  BY <1>1, NonBlankEnd
<1>3. \A m \in 1..rd : m \in 1..Len(ls)
  BY <1>1
<1>. QED BY <1>1, <1>2, <1>3 DEF Intact, LineIntact

(* The first n lines go. *)
LEMMA PopIntact ==
    ASSUME NEW ls \in Inputs, NEW buf, NEW rd, Intact(ls, buf, rd, Len(buf) - 1),
           NEW n \in 0..Len(buf), NEW buf2, buf2 = SubSeq(buf, n + 1, Len(buf))
    PROVE  /\ Len(buf2) = Len(buf) - n
           /\ Intact(ls, buf2, rd, Len(buf2) - 1)
<1>1. /\ Len(buf) \in Nat /\ NonBlank(ls, rd) \in Nat /\ Len(buf) <= NonBlank(ls, rd)
  BY BufferFacts
<1>2. /\ buf \in Seq(LineTypes) /\ rd \in 0..Len(ls)
      /\ \A k \in 1..(Len(buf) - 1) : buf[k].copied
  BY DEF Intact
<1>3. \A j \in (n + 1)..Len(buf) : buf[j] \in LineTypes
  BY <1>1, <1>2, ElementOfSeq
<1>4. /\ buf2 \in Seq(LineTypes)
      /\ Len(buf2) = IF n + 1 <= Len(buf) THEN Len(buf) - (n + 1) + 1 ELSE 0
      /\ \A k \in 1..(Len(buf) - (n + 1) + 1) : buf2[k] = buf[n + 1 + k - 1]
  BY <1>1, <1>3, SubSeqProperties
<1>5. Len(buf2) = Len(buf) - n
  BY ONLY <1>1, <1>4, n \in 0..Len(buf)
<1>6. ASSUME NEW k \in 1..Len(buf2)
      PROVE  k + n \in 1..Len(buf) /\ buf2[k] = buf[k + n]
  <2>1. /\ k \in 1..(Len(buf) - (n + 1) + 1) /\ n + 1 + k - 1 = k + n /\ k + n \in 1..Len(buf)
    BY ONLY <1>1, <1>5, n \in 0..Len(buf), k \in 1..Len(buf2)
  <2>. QED BY <2>1, <1>4
<1>7. ASSUME NEW k \in 1..Len(buf2) PROVE LineIntact(ls, buf2, rd, k)
  <2>1. LineIntact(ls, buf, rd, k + n) /\ buf2[k] = buf[k + n]
    BY <1>6 DEF Intact
  <2>2. NonBlank(ls, rd) - Len(buf) + (k + n) = NonBlank(ls, rd) - Len(buf2) + k
    BY ONLY <1>1, <1>5, n \in 0..Len(buf), k \in 1..Len(buf2)
  <2>. QED BY <2>1, <2>2 DEF LineIntact
<1>8. ASSUME NEW k \in 1..(Len(buf2) - 1) PROVE buf2[k].copied
  <2>1. k \in 1..Len(buf2) /\ k + n \in 1..(Len(buf) - 1)
    BY ONLY <1>1, <1>5, n \in 0..Len(buf), k \in 1..(Len(buf2) - 1)
  <2>. QED BY <2>1, <1>2, <1>6
<1>9. Len(buf2) <= NonBlank(ls, rd)
  BY ONLY <1>1, <1>5, n \in 0..Len(buf)
<1>. QED BY <1>2, <1>4, <1>5, <1>7, <1>8, <1>9 DEF Intact
-----------------------------------------------------------------------------
(* The inductive invariant. *)

Results == {"none", "more", "nomore", "failed", "EOF", "matched", "unmatched"}

BufferInv == Intact(lines, linesBuf, linesRead, Len(linesBuf) - 1)

LEMMA InitInv == Init => IInv
<1>. SUFFICES ASSUME Init PROVE IInv
  OBVIOUS
<1>1. lines \in Inputs /\ Len(lines) \in Nat
  BY InputFacts DEF Init
<1>2. linesBuf \in Seq(LineTypes) /\ Len(linesBuf) = 0 /\ linesRead = 0
  BY DEF Init
<1>3. (\A k \in 1..Len(linesBuf) : FALSE) /\ (\A k \in 1..(Len(linesBuf) - 1) : FALSE)
  BY <1>2
<1>4. NonBlank(lines, linesRead) \in Nat
  BY <1>2, NonBlankType
<1>5. Intact(lines, linesBuf, linesRead, Len(linesBuf) - 1)
  BY <1>1, <1>2, <1>3, <1>4 DEF Intact
<1>6. call \in [format : Formats, create : BOOLEAN]
  BY FixedLengthAssumption DEF Init
<1>7. TypeOK
  BY <1>1, <1>2, <1>6 DEF Init, TypeOK
<1>8. CallInv /\ HeaderInv /\ FooterInv
  BY DEF Init, CallInv, HeaderInv, FooterInv
<1>. QED BY <1>5, <1>7, <1>8 DEF IInv

LEMMA StepType ==
    ASSUME TypeOK, UNCHANGED input, BufferInv',
           pc' \in {"idle", "rows", "header", "footer"},
           call' \in [format : Formats, create : BOOLEAN], i' \in Nat \ {0},
           pc' = "footer" => i' \in 1..Len(linesBuf'),
           answer'.res \in Results
    PROVE  TypeOK'
  BY DEF TypeOK, BufferInv, Intact, input, Results

LEMMA TypeFacts ==
    ASSUME TypeOK
    PROVE  /\ lines \in Inputs /\ tail \in Tails
           /\ pc \in {"idle", "rows", "header", "footer"}
           /\ call \in [format : Formats, create : BOOLEAN]
           /\ call.format \in Formats /\ call.format.rows \in Nat
           /\ i \in Nat \ {0}
           /\ pc = "footer" => i \in 1..Len(linesBuf)
           /\ answer.res \in Results
  BY FixedLengthAssumption DEF TypeOK, Results

LEMMA ReadLineStep ==
    ASSUME lines \in Inputs, BufferInv, UNCHANGED input, ReadLine
    PROVE  /\ BufferInv' /\ Len(linesBuf') = Len(linesBuf) + 1
           /\ NonBlank(lines, linesRead') = NonBlank(lines, linesRead) + 1
           /\ \A k \in 1..Len(linesBuf) : linesBuf'[k].lineNum = linesBuf[k].lineNum
<1>1. Len(linesBuf) \in Nat /\ Len(lines) \in Nat /\ linesRead \in Nat
  BY BufferFacts DEF BufferInv
<1>2. Ahead # {} /\ Ahead \in SUBSET Nat
  BY <1>1 DEF ReadLine, Ahead
<1>3. PICK n \in Ahead : n = linesRead' /\ \A m \in Ahead : n <= m
  BY <1>2, MinFacts DEF ReadLine
<1>4. n \in Nat /\ n \in (linesRead + 1)..Len(lines) /\ lines[n] # Blank
  BY <1>2 DEF Ahead
<1>5. ASSUME NEW m \in (linesRead + 1)..(n - 1) PROVE lines[m] = Blank
  <2>1. m \in (linesRead + 1)..Len(lines) /\ ~(n <= m)
    BY <1>1, <1>4
  <2>. QED BY <2>1, <1>3 DEF Ahead
<1>6. PICK buf : buf = LastCopied(linesBuf)
  OBVIOUS
<1>7. /\ Intact(lines, buf, linesRead, Len(buf)) /\ Len(buf) = Len(linesBuf)
      /\ \A k \in 1..Len(linesBuf) : buf[k].lineNum = linesBuf[k].lineNum
  BY <1>6, CopiedIntact DEF BufferInv
<1>8. PICK new : new = [lineNum |-> n, b |-> n, copied |-> FALSE]
  OBVIOUS
<1>9. linesBuf' = Append(buf, new)
  BY <1>3, <1>6, <1>7, <1>8, ReadKeeps DEF ReadLine
<1>10. /\ Intact(lines, Append(buf, new), n, Len(buf))
       /\ NonBlank(lines, n) = NonBlank(lines, linesRead) + 1
       /\ Len(Append(buf, new)) = Len(buf) + 1
       /\ \A k \in 1..Len(buf) : Append(buf, new)[k].lineNum = buf[k].lineNum
  BY <1>4, <1>5, <1>7, <1>8, AppendIntact
<1>11. Len(linesBuf') - 1 = Len(buf)
  BY <1>1, <1>7, <1>9, <1>10
<1>12. BufferInv'
  BY <1>3, <1>9, <1>10, <1>11 DEF BufferInv, input
<1>. QED BY <1>3, <1>7, <1>9, <1>10, <1>12

LEMMA ReadNothingStep ==
    ASSUME lines \in Inputs, BufferInv, UNCHANGED input, ReadNothing
    PROVE  /\ BufferInv' /\ Len(linesBuf') = Len(linesBuf)
           /\ NonBlank(lines, Len(lines)) = NonBlank(lines, linesRead)
           /\ NonBlank(lines, linesRead') = NonBlank(lines, linesRead)
<1>1. Len(linesBuf) \in Nat
  BY BufferFacts DEF BufferInv
<1>2. \A m \in (linesRead + 1)..Len(lines) : lines[m] = Blank
  BY DEF ReadNothing, Ahead
<1>3. /\ Intact(lines, LastCopied(linesBuf), linesRead, Len(LastCopied(linesBuf)))
      /\ Len(LastCopied(linesBuf)) = Len(linesBuf)
  BY CopiedIntact DEF BufferInv
<1>4. linesBuf' = LastCopied(linesBuf) /\ linesRead' = Len(lines)
  BY <1>3, ReadKeeps DEF ReadNothing
<1>5. /\ Intact(lines, LastCopied(linesBuf), Len(lines), Len(LastCopied(linesBuf)))
      /\ NonBlank(lines, Len(lines)) = NonBlank(lines, linesRead)
  BY <1>2, <1>3, EndIntact
<1>6. \A k \in 1..(Len(linesBuf) - 1) : k \in 1..Len(linesBuf)
  BY <1>1
<1>7. BufferInv'
  BY <1>3, <1>4, <1>5, <1>6 DEF BufferInv, input, Intact
<1>. QED BY <1>3, <1>4, <1>5, <1>7

(* A call that returns. *)
LEMMA ReturnStep ==
    ASSUME TypeOK, BufferInv', UNCHANGED <<input, call, i>>, pc' = "idle",
           answer'.res \in Results
    PROVE  IInv'
<1>1. TypeOK'
  BY StepType, TypeFacts
<1>. QED BY <1>1 DEF IInv, BufferInv, CallInv, HeaderInv, FooterInv

LEMMA NoLineStep ==
    ASSUME TypeOK, BufferInv, UNCHANGED <<input, call, i>>, NoLine
    PROVE  IInv'
<1>1. BufferInv'
  BY ReadNothingStep, TypeFacts DEF NoLine
<1>2. pc' = "idle" /\ answer'.res \in Results
  BY DEF NoLine, Answer, EndResult, Results
<1>. QED BY <1>1, <1>2, ReturnStep

LEMMA ReturnMatchedStep ==
    ASSUME TypeOK, BufferInv, NEW n \in 0..Len(linesBuf), UNCHANGED <<input, call, i>>,
           ReturnMatched(n)
    PROVE  IInv'
<1>1. lines \in Inputs /\ lines' = lines /\ linesRead' = linesRead
  BY TypeFacts DEF ReturnMatched, input
<1>2. BufferInv'
  <2>1. CASE ~call.create
    BY <1>1, <2>1 DEF ReturnMatched, BufferInv
  <2>2. CASE call.create
    <3>1. linesBuf' = SubSeq(linesBuf, n + 1, Len(linesBuf))
      BY <2>2 DEF ReturnMatched, PopFront
    <3>2. PICK buf2 : buf2 = linesBuf'
      OBVIOUS
    <3>3. Intact(lines, buf2, linesRead, Len(buf2) - 1)
      BY <1>1, <3>1, <3>2, PopIntact DEF BufferInv
    <3>. QED BY <1>1, <3>2, <3>3 DEF BufferInv
  <2>. QED BY <2>1, <2>2
<1>3. pc' = "idle" /\ answer'.res \in Results
  BY DEF ReturnMatched, Results
<1>. QED BY <1>2, <1>3, ReturnStep

LEMMA MoreUnprocessedDataStep == ASSUME IInv, MoreUnprocessedData PROVE IInv'
<1>1. TypeOK /\ BufferInv /\ UNCHANGED <<input, call, i>> /\ UNCHANGED input /\ lines \in Inputs
  BY TypeFacts DEF IInv, MoreUnprocessedData, BufferInv
<1>2. CASE linesBuf # <<>> /\ Answer("more") /\ UNCHANGED <<linesRead, linesBuf>>
  <2>1. BufferInv'
    BY <1>1, <1>2 DEF BufferInv, input
  <2>. QED BY <1>1, <1>2, <2>1, ReturnStep DEF Answer, Results
<1>3. CASE ReadLine /\ Answer("more")
  <2>1. BufferInv'
    BY <1>1, <1>3, ReadLineStep
  <2>. QED BY <1>1, <1>3, <2>1, ReturnStep DEF Answer, Results
<1>4. CASE ReadNothing /\ Answer(IF AtEOF THEN "nomore" ELSE "failed")
  <2>1. BufferInv'
    BY <1>1, <1>4, ReadNothingStep
  <2>. QED BY <1>1, <1>4, <2>1, ReturnStep DEF Answer, Results
<1>. QED BY <1>2, <1>3, <1>4 DEF MoreUnprocessedData

LEMMA ReadAndMatchStep ==
    ASSUME IInv, NEW f \in Formats, NEW create \in BOOLEAN, ReadAndMatch(f, create)
    PROVE  IInv'
<1>1. /\ lines' = lines /\ linesRead' = linesRead /\ linesBuf' = linesBuf
      /\ answer' = answer /\ i' = 1 /\ UNCHANGED input /\ TypeOK
  BY DEF ReadAndMatch, input, IInv
<1>2. BufferInv'
  BY <1>1 DEF IInv, BufferInv
<1>3. /\ call' \in [format : Formats, create : BOOLEAN] /\ call'.format = f
      /\ pc' = (IF f.rows > 0 THEN "rows" ELSE "header")
      /\ answer'.res # "failed"
  BY <1>1 DEF ReadAndMatch, Idle, RowsBased
<1>4. f.rows \in Nat
  BY FixedLengthAssumption
<1>5. TypeOK'
  BY <1>1, <1>2, <1>3, StepType, TypeFacts
<1>6. CallInv' /\ HeaderInv' /\ FooterInv'
  BY <1>1, <1>3, <1>4 DEF CallInv, HeaderInv, FooterInv
<1>. QED BY <1>2, <1>5, <1>6 DEF IInv, BufferInv

(* A line that a call reads. *)
LEMMA ReadOnStep ==
    ASSUME IInv, pc # "idle", UNCHANGED <<input, call, pc, answer>>, ReadLine,
           i' \in Nat \ {0}, pc = "footer" => i' \in 1..(Len(linesBuf) + 1),
           pc = "header" => i' = i, FooterInv'
    PROVE  IInv'
<1>1. TypeOK /\ lines \in Inputs /\ UNCHANGED input /\ BufferInv
  BY TypeFacts DEF IInv, input, BufferInv
<1>2. BufferInv' /\ Len(linesBuf') = Len(linesBuf) + 1
  BY <1>1, ReadLineStep
<1>3. TypeOK'
  BY <1>1, <1>2, StepType, TypeFacts
<1>4. CallInv' /\ HeaderInv'
  BY DEF IInv, CallInv, HeaderInv
<1>. QED BY <1>2, <1>3, <1>4 DEF IInv, BufferInv

LEMMA RowsReadStep == ASSUME IInv, RowsRead PROVE IInv'
<1>1. /\ pc = "rows" /\ UNCHANGED <<input, call, i>> /\ i \in Nat \ {0} /\ TypeOK /\ BufferInv
  BY TypeFacts DEF RowsRead, IInv, BufferInv
<1>2. CASE ReadLine /\ UNCHANGED <<pc, answer>>
  BY <1>1, <1>2, ReadOnStep DEF FooterInv
<1>3. CASE NoLine
  BY <1>1, <1>3, NoLineStep
<1>. QED BY <1>2, <1>3 DEF RowsRead

LEMMA RowsMatchStep == ASSUME IInv, RowsMatch PROVE IInv'
<1>1. /\ TypeOK /\ BufferInv /\ lines \in Inputs /\ Len(linesBuf) \in Nat
      /\ UNCHANGED <<input, call, i>> /\ ReturnMatched(call.format.rows)
      /\ call.format.rows \in Nat /\ Len(linesBuf) >= call.format.rows
  BY TypeFacts, BufferFacts DEF IInv, RowsMatch, EnoughRows, BufferInv
<1>2. call.format.rows \in 0..Len(linesBuf)
  BY <1>1
<1>. QED BY <1>1, <1>2, ReturnMatchedStep

LEMMA HeaderReadStep == ASSUME IInv, HeaderRead PROVE IInv'
<1>1. /\ pc = "header" /\ UNCHANGED <<input, call, i>> /\ i \in Nat \ {0} /\ TypeOK /\ BufferInv
  BY TypeFacts DEF HeaderRead, IInv, BufferInv
<1>2. CASE ReadLine /\ UNCHANGED <<pc, answer>>
  BY <1>1, <1>2, ReadOnStep DEF FooterInv
<1>3. CASE NoLine
  BY <1>1, <1>3, NoLineStep
<1>. QED BY <1>2, <1>3 DEF HeaderRead

(* So what a regexp is compared with is the line in its place. *)
LEMMA MatchesLine ==
    ASSUME IInv, NEW k \in 1..Len(linesBuf), NEW re
    PROVE  MatchLine(re, k) <=> lines[linesBuf[k].lineNum] \in re
  BY BufferFacts, TypeFacts DEF IInv, MatchLine

(* When a header matches, no line has been compared with the footer yet. *)
LEMMA HeaderMatchStep == ASSUME IInv, HeaderMatch PROVE IInv'
<1>1. /\ TypeOK /\ BufferInv /\ UNCHANGED <<input, linesRead, linesBuf, call, i>>
      /\ UNCHANGED input /\ UNCHANGED <<input, call, i>> /\ pc = "header" /\ i = 1
  BY DEF IInv, HeaderMatch, BufferInv, HeaderInv
<1>2. 1 \in 1..Len(linesBuf)
  BY BufferFacts, TypeFacts DEF IInv, HeaderMatch
<1>3. BufferInv'
  BY <1>1 DEF BufferInv, input
<1>4. CASE MatchLine(call.format.header, 1)
  <2>1. pc' = "footer" /\ answer' = answer
    BY <1>4 DEF HeaderMatch
  <2>2. lines[linesBuf[1].lineNum] \in call.format.header
    BY <1>2, <1>4, MatchesLine
  <2>3. TypeOK'
    BY <1>1, <1>2, <1>3, <2>1, StepType, TypeFacts
  <2>4. CallInv' /\ HeaderInv'
    BY <1>1, <2>1 DEF IInv, CallInv, HeaderInv
  <2>5. FooterInv'
    BY <1>1, <2>2 DEF FooterInv, input
  <2>. QED BY <1>3, <2>3, <2>4, <2>5 DEF IInv, BufferInv
<1>5. CASE ~MatchLine(call.format.header, 1)
  <2>1. pc' = "idle" /\ answer'.res \in Results
    BY <1>5 DEF HeaderMatch, Answer, Results
  <2>. QED BY <1>1, <1>3, <2>1, ReturnStep
<1>. QED BY <1>4, <1>5

LEMMA FooterMatchStep == ASSUME IInv, FooterMatch PROVE IInv'
<1>1. /\ TypeOK /\ BufferInv /\ i \in 1..Len(linesBuf) /\ Len(linesBuf) \in Nat
      /\ UNCHANGED <<input, call, i>> /\ ReturnMatched(i)
  BY TypeFacts, BufferFacts DEF IInv, FooterMatch, BufferInv
<1>2. i \in 0..Len(linesBuf)
  BY <1>1
<1>. QED BY <1>1, <1>2, ReturnMatchedStep

(* One more line that is compared, and is not the footer. *)
LEMMA FooterMoves ==
    ASSUME IInv, pc = "footer", ~FooterMatches, UNCHANGED <<lines, call>>, i' = i + 1,
           \A k \in 1..Len(linesBuf) : linesBuf'[k].lineNum = linesBuf[k].lineNum
    PROVE  FooterInv'
<1>1. i \in 1..Len(linesBuf) /\ Len(linesBuf) \in Nat
  BY BufferFacts, TypeFacts DEF IInv
<1>2. lines[linesBuf[i].lineNum] \notin call.format.footer
  BY <1>1, MatchesLine DEF FooterMatches
<1>3. /\ lines[linesBuf[1].lineNum] \in call.format.header
      /\ \A j \in 1..(i - 1) : lines[linesBuf[j].lineNum] \notin call.format.footer
  BY DEF IInv, FooterInv
<1>4. 1 \in 1..Len(linesBuf)
  BY <1>1
<1>5. ASSUME NEW j \in 1..(i' - 1)
      PROVE  lines'[linesBuf'[j].lineNum] \notin call'.format.footer
  <2>1. j \in 1..Len(linesBuf) /\ (j = i \/ j \in 1..(i - 1))
    BY <1>1
  <2>2. lines[linesBuf[j].lineNum] \notin call.format.footer
    BY <2>1, <1>2, <1>3
  <2>. QED BY <2>1, <2>2
<1>. QED BY <1>3, <1>4, <1>5 DEF FooterInv

LEMMA FooterNextStep == ASSUME IInv, FooterNext PROVE IInv'
<1>1. /\ TypeOK /\ BufferInv /\ pc = "footer" /\ ~FooterMatches
      /\ UNCHANGED <<input, linesRead, linesBuf, pc, call, answer>> /\ UNCHANGED input
      /\ i' = i + 1 /\ ~(i >= Len(linesBuf))
  BY DEF IInv, FooterNext, AtBufferEnd, BufferInv
<1>2. Len(linesBuf) \in Nat /\ i \in 1..Len(linesBuf)
  BY BufferFacts, TypeFacts DEF IInv, FooterNext
<1>3. i' \in 1..Len(linesBuf')
  BY <1>1, <1>2
<1>4. BufferInv'
  BY <1>1 DEF BufferInv, input
<1>5. TypeOK'
  BY <1>1, <1>2, <1>3, <1>4, StepType, TypeFacts
<1>6. FooterInv'
  BY <1>1, FooterMoves DEF input
<1>7. CallInv' /\ HeaderInv'
  BY <1>1 DEF IInv, CallInv, HeaderInv
<1>. QED BY <1>4, <1>5, <1>6, <1>7 DEF IInv, BufferInv

LEMMA FooterReadStep == ASSUME IInv, FooterRead PROVE IInv'
<1>1. /\ TypeOK /\ BufferInv /\ lines \in Inputs /\ pc = "footer" /\ ~FooterMatches
      /\ UNCHANGED <<input, call>> /\ UNCHANGED input
  BY TypeFacts DEF IInv, FooterRead, BufferInv
<1>2. Len(linesBuf) \in Nat /\ i \in 1..Len(linesBuf)
  BY BufferFacts, TypeFacts DEF IInv, FooterRead
<1>3. CASE ReadLine /\ i' = i + 1 /\ UNCHANGED <<pc, answer>>
  <2>1. i' \in Nat \ {0} /\ i' \in 1..(Len(linesBuf) + 1)
    BY <1>2, <1>3
  <2>2. \A k \in 1..Len(linesBuf) : linesBuf'[k].lineNum = linesBuf[k].lineNum
    BY <1>1, <1>3, ReadLineStep
  <2>3. FooterInv'
    BY <2>2, <1>1, <1>3, FooterMoves DEF input
  <2>. QED BY <1>1, <1>3, <2>1, <2>3, ReadOnStep
<1>4. CASE NoLine /\ UNCHANGED i
  BY <1>1, <1>4, NoLineStep
<1>. QED BY <1>3, <1>4 DEF FooterRead

LEMMA NextInv == IInv /\ [Next]_vars => IInv'
<1>. SUFFICES ASSUME IInv, [Next]_vars PROVE IInv'
  OBVIOUS
<1>1. CASE UNCHANGED vars
  <2>1. /\ UNCHANGED input /\ lines' = lines /\ linesRead' = linesRead /\ linesBuf' = linesBuf
        /\ pc' = pc /\ call' = call /\ i' = i /\ answer' = answer /\ TypeOK
    BY <1>1 DEF vars, input, IInv
  <2>2. BufferInv'
    BY <2>1 DEF IInv, BufferInv
  <2>3. TypeOK'
    BY <2>1, <2>2, StepType, TypeFacts
  <2>4. CallInv' /\ HeaderInv' /\ FooterInv'
    BY <2>1 DEF IInv, CallInv, HeaderInv, FooterInv
  <2>. QED BY <2>2, <2>3, <2>4 DEF IInv, BufferInv
<1>2. CASE MoreUnprocessedData
  BY <1>2, MoreUnprocessedDataStep
<1>3. ASSUME NEW f \in Formats, NEW create \in BOOLEAN, ReadAndMatch(f, create) PROVE IInv'
  BY <1>3, ReadAndMatchStep
<1>4. CASE RowsRead
  BY <1>4, RowsReadStep
<1>5. CASE RowsMatch
  BY <1>5, RowsMatchStep
<1>6. CASE HeaderRead
  BY <1>6, HeaderReadStep
<1>7. CASE HeaderMatch
  BY <1>7, HeaderMatchStep
<1>8. CASE FooterMatch
  BY <1>8, FooterMatchStep
<1>9. CASE FooterNext
  BY <1>9, FooterNextStep
<1>10. CASE FooterRead
  BY <1>10, FooterReadStep
<1>. QED BY <1>1, <1>2, <1>3, <1>4, <1>5, <1>6, <1>7, <1>8, <1>9, <1>10 DEF Next

(* The inductive invariant holds of every reachable state. *)
THEOREM Invariance == Spec => []IInv
  BY InitInv, NextInv, PTL DEF Spec

(* The type invariant of the fixedlength2 reader. *)
THEOREM TypeCorrect == Spec => []TypeOK
<1>1. IInv => TypeOK
  BY DEF IInv
<1>. QED BY <1>1, Invariance, PTL

(***************************************************************************)
(* The bytes of a buffered line are still those of its line, and the       *)
(* buffer holds the lines that were read last, without the empty ones and  *)
(* without a gap.                                                          *)
(***************************************************************************)
THEOREM BufferCorrect == Spec => []BufferIntact
<1>1. IInv => BufferIntact
  BY BufferFacts, TypeFacts DEF IInv, BufferIntact
<1>. QED BY <1>1, Invariance, PTL
-----------------------------------------------------------------------------
(***************************************************************************)
(* The refinement.  The lines that are not made into nodes are those of    *)
(* the buffer and those that are not yet read, the empty ones left out.    *)
(***************************************************************************)
position == NonBlank(lines, linesRead) - Len(linesBuf)

recReader == <<NonBlankLines(lines), tail, position, [res |-> answer.res, node |-> NodeValues]>>

LEMMA RestFacts ==
    ASSUME IInv
    PROVE  LET rest == AsRecReader!Rest
           IN  /\ Len(rest) \in Nat /\ Len(linesBuf) \in Nat
               /\ Len(rest) = NonBlank(lines, Len(lines)) - position
               /\ Len(linesBuf) <= Len(rest)
               /\ \A k \in 1..Len(linesBuf) : rest[k] = lines[linesBuf[k].lineNum]
               /\ rest = <<>> <=> Len(rest) = 0
               /\ linesBuf = <<>> <=> Len(linesBuf) = 0
<1>. DEFINE rest == AsRecReader!Rest  nbl == NonBlankLines(lines)
            S == {nbl[k] : k \in 1..NonBlank(lines, Len(lines))}
<1>1. /\ lines \in Inputs /\ Intact(lines, linesBuf, linesRead, Len(linesBuf) - 1)
  BY TypeFacts DEF IInv
<1>2. /\ Len(lines) \in Nat /\ linesRead \in Nat /\ linesRead <= Len(lines)
      /\ Len(linesBuf) \in Nat /\ NonBlank(lines, linesRead) \in Nat
      /\ Len(linesBuf) <= NonBlank(lines, linesRead)
      /\ linesBuf = <<>> <=> Len(linesBuf) = 0
  BY <1>1, BufferFacts
<1>3. /\ NonBlank(lines, Len(lines)) \in Nat
      /\ NonBlank(lines, linesRead) <= NonBlank(lines, Len(lines))
  BY <1>2, NonBlankType, NonBlankGrows
<1>4. position \in Nat /\ position <= NonBlank(lines, Len(lines))
  BY <1>2, <1>3 DEF position
<1>5. Len(nbl) = NonBlank(lines, Len(lines)) /\ nbl \in Seq(S)
  BY <1>2, NonBlankLinesType
<1>6. rest = SubSeq(nbl, position + 1, Len(nbl))
  BY DEF AsRecReader!Rest, position
<1>7. \A j \in (position + 1)..Len(nbl) : nbl[j] \in S
  BY <1>3, <1>4, <1>5
<1>. HIDE DEF rest, nbl, S
<1>8. /\ rest \in Seq(S)
      /\ Len(rest) = IF position + 1 <= Len(nbl) THEN Len(nbl) - (position + 1) + 1 ELSE 0
      /\ \A k \in 1..(Len(nbl) - (position + 1) + 1) : rest[k] = nbl[position + 1 + k - 1]
  BY <1>3, <1>4, <1>5, <1>6, <1>7, SubSeqProperties
<1>9. Len(rest) = NonBlank(lines, Len(lines)) - position /\ Len(rest) \in Nat
  BY ONLY <1>3, <1>4, <1>5, <1>8
<1>10. Len(linesBuf) <= Len(rest)
  BY <1>2, <1>3, <1>9 DEF position
<1>11. ASSUME NEW k \in 1..Len(linesBuf) PROVE rest[k] = lines[linesBuf[k].lineNum]
  <2>1. k \in 1..(Len(nbl) - (position + 1) + 1) /\ position + 1 + k - 1 = position + k
    BY ONLY k \in 1..Len(linesBuf), <1>2, <1>3, <1>4, <1>5, <1>9, <1>10
  <2>2. nbl[position + k] = lines[linesBuf[k].lineNum]
    BY <1>1, BufferFacts DEF position, nbl
  <2>. QED BY <2>1, <2>2, <1>8
<1>12. rest = <<>> <=> Len(rest) = 0
  BY <1>8, EmptySeq
<1>. QED BY <1>2, <1>9, <1>10, <1>11, <1>12 DEF rest

(* No node, and a node made of the lines that the abstract reader takes. *)
LEMMA EmptyNode ==
    ASSUME answer.node = NoNode
    PROVE  NodeValues = AsRecReader!NoNode
  BY DEF NodeValues, NoNode, AsRecReader!NoNode

LEMMA NodeEqual ==
    ASSUME IInv, NEW f \in Formats, NEW n \in 0..Len(linesBuf), lines' = lines,
           answer'.node = LinesToNode(f, n)
    PROVE  NodeValues' = AsRecReader!NodeOf(f, n)
<1>. DEFINE nbl == NonBlankLines(lines)
<1>1. /\ lines \in Inputs /\ Intact(lines, linesBuf, linesRead, Len(linesBuf) - 1)
      /\ Len(linesBuf) \in Nat
  BY TypeFacts, BufferFacts DEF IInv
<1>2. ASSUME NEW k \in 1..n
      PROVE  /\ k \in 1..Len(linesBuf)
             /\ nbl[position + k] = lines[linesBuf[k].lineNum]
             /\ nbl[position + k] \in DOMAIN Width
             /\ NonBlank(lines, linesBuf[k].b) = position + k
  <2>1. k \in 1..Len(linesBuf)
    BY <1>1
  <2>. QED BY <2>1, <1>1, BufferFacts DEF position
<1>3. ASSUME NEW c, NEW k \in 1..n
      PROVE  LineMatch(c, k) <=> AsRecReader!LineMatch(c, k, nbl[position + k])
  BY <1>2, MatchesLine DEF LineMatch, AsRecReader!LineMatch
<1>. DEFINE value(c) ==
                LET at == {k \in 1..n : LineMatch(c, k)}
                IN  IF at = {} THEN Absent ELSE <<linesBuf[Min(at)].b, c.index>>
            numbered(v) == IF v = Absent THEN v ELSE <<NonBlank(lines, v[1]), v[2]>>
<1>4. ASSUME NEW j \in DOMAIN f.columns
      PROVE  numbered(value(f.columns[j])) = AsRecReader!ColumnOf(f.columns[j], n)
  <2>. DEFINE c == f.columns[j]
              at == {k \in 1..n : LineMatch(c, k)}
              at2 == {k \in 1..n : AsRecReader!LineMatch(c, k, nbl[position + k])}
  <2>1. at = at2
    BY <1>3
  <2>2. AsRecReader!ColumnOf(c, n) =
            IF at2 = {} THEN AsRecReader!Absent
            ELSE AsRecReader!Value(c, position + AsRecReader!Min(at2))
    BY DEF AsRecReader!ColumnOf, position
  <2>3. CASE at = {}
    BY <2>1, <2>2, <2>3 DEF Absent, AsRecReader!Absent
  <2>4. CASE at # {}
    <3>1. at \in SUBSET Nat
      BY <1>1
    <3>2. PICK m \in at : m = Min(at)
      BY <2>4, <3>1, MinFacts
    <3>3. AsRecReader!Min(at) = m
      BY <3>2 DEF Min, AsRecReader!Min
    <3>4. m \in 1..n
      OBVIOUS
    <3>5. c.index \in 1..Width[nbl[position + m]]
      BY <3>4, <1>2, FixedLengthAssumption
    <3>6. AsRecReader!Value(c, position + m) = <<position + m, c.index>>
      BY <3>5 DEF AsRecReader!Value
    <3>7. value(c) = <<linesBuf[m].b, c.index>>
      BY <2>4, <3>2
    <3>8. numbered(<<linesBuf[m].b, c.index>>) = <<position + m, c.index>>
      BY <3>4, <1>2 DEF Absent
    <3>. HIDE DEF value, numbered
    <3>. QED BY <2>1, <2>2, <2>4, <3>3, <3>6, <3>7, <3>8
  <2>. QED BY <2>3, <2>4
<1>5. LinesToNode(f, n) = [j \in DOMAIN f.columns |-> value(f.columns[j])]
  BY DEF LinesToNode
<1>6. NodeValues' = [j \in DOMAIN answer'.node |-> numbered(answer'.node[j])]
  BY DEF NodeValues
<1>. HIDE DEF value, numbered
<1>7. NodeValues' = [j \in DOMAIN f.columns |-> numbered(value(f.columns[j]))]
  BY <1>5, <1>6
<1>. QED BY <1>4, <1>7 DEF AsRecReader!NodeOf

(* An answer without a node. *)
LEMMA AnswerRefines ==
    ASSUME NEW res, answer' = [res |-> res, node |-> NoNode]
    PROVE  AsRecReader!Answer(res)
<1>1. NodeValues' = AsRecReader!NoNode
  BY DEF NodeValues, NoNode, AsRecReader!NoNode
<1>. QED BY <1>1 DEF AsRecReader!Answer

(* No line to read on with, and the record did not end within those that are left. *)
LEMMA NoLineRefines ==
    ASSUME IInv, pc # "idle", NoLine, UNCHANGED input,
           AsRecReader!Rest # <<>> =>
               /\ AsRecReader!MatchedLines(call.format, AsRecReader!Rest) = 0
               /\ AsRecReader!ReadsPastEnd(call.format, AsRecReader!Rest)
    PROVE  AsRecReader!NotMatched(call.format)
<1>. DEFINE rest == AsRecReader!Rest
            res  == IF rest = <<>> THEN IF tail = "EOF" THEN "EOF" ELSE "failed"
                    ELSE IF AsRecReader!MatchFails(call.format, rest, tail) THEN "failed"
                    ELSE "unmatched"
<1>1. /\ lines' = lines /\ tail' = tail /\ answer' = [res |-> EndResult, node |-> NoNode]
      /\ tail \in Tails /\ answer.res # "failed" /\ lines \in Inputs /\ BufferInv /\ ReadNothing
  BY TypeFacts DEF IInv, CallInv, BufferInv, NoLine, Answer, input
<1>2. /\ Len(linesBuf') = Len(linesBuf)
      /\ NonBlank(lines, Len(lines)) = NonBlank(lines, linesRead)
      /\ NonBlank(lines, linesRead') = NonBlank(lines, linesRead)
  BY <1>1, ReadNothingStep
<1>3. NonBlank(lines, linesRead) \in Nat /\ Len(linesBuf) \in Nat
  BY <1>1, BufferFacts DEF BufferInv
<1>4. rest = <<>> <=> linesBuf = <<>>
  BY <1>2, <1>3, RestFacts DEF position
<1>5. UNCHANGED position /\ UNCHANGED NonBlankLines(lines)
  BY <1>1, <1>2 DEF position
<1>6. EndResult = res
  BY <1>1, <1>4 DEF EndResult, AtEOF, AsRecReader!MatchFails, Tails
<1>. HIDE DEF res
<1>7. AsRecReader!Answer(res)
  BY <1>1, <1>6, AnswerRefines
<1>. QED BY <1>1, <1>5, <1>7 DEF res, rest, AsRecReader!NotMatched, AsRecReader!Usable, position

(* A record of n lines that is found, and made into a node or not. *)
LEMMA MatchedRefines ==
    ASSUME IInv, pc # "idle", NEW n \in 1..Len(linesBuf),
           n = AsRecReader!MatchedLines(call.format, AsRecReader!Rest),
           ReturnMatched(n), UNCHANGED input
    PROVE  AsRecReader!Matched(call.format)
<1>1. /\ lines' = lines /\ tail' = tail /\ linesRead' = linesRead /\ answer.res # "failed"
      /\ lines \in Inputs /\ Intact(lines, linesBuf, linesRead, Len(linesBuf) - 1)
      /\ Len(linesBuf) \in Nat /\ NonBlank(lines, linesRead) \in Nat /\ n > 0
      /\ call.format \in Formats /\ n \in 0..Len(linesBuf)
  BY TypeFacts, BufferFacts DEF IInv, CallInv, ReturnMatched, input
<1>2. CASE ~call.create
  <2>1. linesBuf' = linesBuf /\ answer' = [res |-> "matched", node |-> NoNode]
    BY <1>2 DEF ReturnMatched
  <2>2. AsRecReader!Answer("matched")
    BY <2>1, AnswerRefines
  <2>3. UNCHANGED (NonBlank(lines, linesRead) - Len(linesBuf)) /\ UNCHANGED NonBlankLines(lines)
    BY <1>1, <2>1
  <2>. QED BY <1>1, <2>2, <2>3 DEF AsRecReader!Matched, AsRecReader!Usable
<1>3. CASE call.create
  <2>1. /\ linesBuf' = SubSeq(linesBuf, n + 1, Len(linesBuf))
        /\ answer'.res = "matched" /\ answer'.node = LinesToNode(call.format, n)
    BY <1>3 DEF ReturnMatched, PopFront
  <2>2. NodeValues' = AsRecReader!NodeOf(call.format, n)
    BY <1>1, <2>1, NodeEqual
  <2>3. Len(linesBuf') = Len(linesBuf) - n
    <3>1. PICK buf2 : buf2 = SubSeq(linesBuf, n + 1, Len(linesBuf))
      OBVIOUS
    <3>2. Len(buf2) = Len(linesBuf) - n
      BY <1>1, <3>1, PopIntact
    <3>. QED BY <2>1, <3>1, <3>2
  <2>4. (NonBlank(lines, linesRead) - Len(linesBuf))' =
            NonBlank(lines, linesRead) - Len(linesBuf) + n
    BY <1>1, <2>3
  <2>5. [res |-> answer'.res, node |-> NodeValues'] =
            [res |-> "matched", node |-> AsRecReader!NodeOf(call.format, n)]
    BY <2>1, <2>2
  <2>. QED BY <1>1, <2>4, <2>5 DEF AsRecReader!Matched, AsRecReader!Usable
<1>. QED BY <1>2, <1>3

(* What the caller does not see: a line read ahead. *)
LEMMA ReadStutters ==
    ASSUME IInv, UNCHANGED <<input, answer>>, ReadLine
    PROVE  UNCHANGED recReader
<1>1. /\ lines \in Inputs /\ BufferInv /\ UNCHANGED input /\ lines' = lines /\ tail' = tail
      /\ answer' = answer
  BY TypeFacts DEF IInv, BufferInv, input
<1>2. NonBlank(lines, linesRead) \in Nat /\ Len(linesBuf) \in Nat
  BY <1>1, BufferFacts DEF BufferInv
<1>3. UNCHANGED position
  BY <1>1, <1>2, ReadLineStep DEF position
<1>4. UNCHANGED NodeValues
  BY <1>1 DEF NodeValues
<1>. QED BY <1>1, <1>3, <1>4 DEF recReader

LEMMA InitRefines == Init => AsRecReader!Init
<1>. SUFFICES ASSUME Init PROVE AsRecReader!Init
  OBVIOUS
<1>1. NonBlank(lines, linesRead) - Len(linesBuf) = 0
  <2>1. linesRead = 0 /\ Len(linesBuf) = 0 /\ {m \in 1..0 : lines[m] # Blank} = {}
    BY DEF Init
  <2>. QED BY <2>1, FS_EmptySet DEF NonBlank
<1>2. NodeValues = AsRecReader!NoNode
  BY EmptyNode DEF Init
<1>. QED BY <1>1, <1>2 DEF Init, AsRecReader!Init, Tails, AsRecReader!Tails

LEMMA MoreUnprocessedDataRefines ==
    ASSUME IInv, MoreUnprocessedData
    PROVE  AsRecReader!MoreUnprocessedData
<1>. DEFINE rest == AsRecReader!Rest
            more == IF AsRecReader!MoreFails(rest, tail) THEN "failed"
                    ELSE IF rest # <<>> THEN "more" ELSE "nomore"
<1>1. /\ lines' = lines /\ tail' = tail /\ answer.res # "failed" /\ tail \in Tails
      /\ UNCHANGED input /\ lines \in Inputs /\ BufferInv
  BY TypeFacts DEF IInv, BufferInv, MoreUnprocessedData, Idle, input
<1>2. /\ Len(linesBuf) \in Nat /\ NonBlank(lines, linesRead) \in Nat /\ Len(lines) \in Nat
      /\ Len(rest) = NonBlank(lines, Len(lines)) - position
      /\ Len(linesBuf) <= Len(rest)
      /\ rest = <<>> <=> Len(rest) = 0
      /\ linesBuf = <<>> <=> Len(linesBuf) = 0
  BY <1>1, RestFacts, BufferFacts DEF BufferInv
<1>3. ASSUME NEW res, Answer(res), res = more, UNCHANGED position
      PROVE  AsRecReader!MoreUnprocessedData
  <2>. HIDE DEF more
  <2>1. AsRecReader!Answer(more)
    BY <1>3, AnswerRefines DEF Answer
  <2>. QED BY <1>1, <1>3, <2>1 DEF more, rest, AsRecReader!MoreUnprocessedData,
                                   AsRecReader!Usable, position
<1>. HIDE DEF rest
<1>4. CASE linesBuf # <<>> /\ Answer("more") /\ UNCHANGED <<linesRead, linesBuf>>
  <2>1. rest # <<>>
    BY <1>2, <1>4
  <2>. QED BY <1>1, <1>3, <1>4, <2>1 DEF AsRecReader!MoreFails, position
<1>5. CASE linesBuf = <<>> /\ ReadLine /\ Answer("more")
  <2>1. /\ Len(linesBuf') = Len(linesBuf) + 1 /\ BufferInv'
        /\ NonBlank(lines, linesRead') = NonBlank(lines, linesRead) + 1
    BY <1>1, <1>5, ReadLineStep
  <2>2. PICK n \in Nat : n = linesRead' /\ n <= Len(lines)
    BY <1>1, <2>1, BufferFacts DEF BufferInv
  <2>3. NonBlank(lines, n) <= NonBlank(lines, Len(lines))
    BY <2>2, <1>2, NonBlankGrows
  <2>4. NonBlank(lines, Len(lines)) \in Nat
    BY <1>2, NonBlankType
  <2>5. Len(rest) # 0
    BY <1>2, <1>5, <2>1, <2>2, <2>3, <2>4 DEF position
  <2>6. UNCHANGED position
    BY <1>1, <1>2, <2>1 DEF position
  <2>. QED BY <1>2, <1>3, <1>5, <2>5, <2>6 DEF AsRecReader!MoreFails
<1>6. CASE linesBuf = <<>> /\ ReadNothing /\ Answer(IF AtEOF THEN "nomore" ELSE "failed")
  <2>1. /\ Len(linesBuf') = Len(linesBuf)
        /\ NonBlank(lines, Len(lines)) = NonBlank(lines, linesRead)
        /\ NonBlank(lines, linesRead') = NonBlank(lines, linesRead)
    BY <1>1, <1>6, ReadNothingStep
  <2>2. UNCHANGED position /\ rest = <<>>
    BY <1>1, <1>2, <1>6, <2>1 DEF position
  <2>. QED BY <1>1, <1>3, <1>6, <2>2 DEF AsRecReader!MoreFails, AtEOF, Tails
<1>. QED BY <1>4, <1>5, <1>6 DEF MoreUnprocessedData

LEMMA RowsReadRefines ==
    ASSUME IInv, RowsRead
    PROVE  AsRecReader!NotMatched(call.format) \/ UNCHANGED recReader
<1>1. /\ pc = "rows" /\ UNCHANGED input /\ ~(Len(linesBuf) >= call.format.rows)
      /\ BufferInv /\ call.format.rows \in Nat /\ call.format.rows > 0 /\ lines \in Inputs
      /\ Len(linesBuf) \in Nat /\ NonBlank(lines, linesRead) \in Nat
  BY TypeFacts, BufferFacts DEF RowsRead, EnoughRows, IInv, BufferInv, CallInv, input
<1>2. CASE ReadLine /\ UNCHANGED <<pc, answer>>
  BY <1>1, <1>2, ReadStutters
<1>3. CASE NoLine
  <2>1. NonBlank(lines, Len(lines)) = NonBlank(lines, linesRead)
    BY <1>1, <1>3, ReadNothingStep DEF NoLine
  <2>2. Len(AsRecReader!Rest) < call.format.rows /\ ~(Len(AsRecReader!Rest) >= call.format.rows)
    BY <1>1, <2>1, RestFacts DEF position
  <2>3. /\ AsRecReader!MatchedLines(call.format, AsRecReader!Rest) = 0
        /\ AsRecReader!ReadsPastEnd(call.format, AsRecReader!Rest)
    BY <1>1, <2>2 DEF AsRecReader!MatchedLines, AsRecReader!ReadsPastEnd, AsRecReader!RowsBased
  <2>. QED BY <1>1, <1>3, <2>3, NoLineRefines
<1>. QED BY <1>2, <1>3 DEF RowsRead

LEMMA RowsMatchRefines ==
    ASSUME IInv, RowsMatch
    PROVE  AsRecReader!Matched(call.format)
<1>. DEFINE n == call.format.rows
<1>1. /\ pc = "rows" /\ UNCHANGED input /\ Len(linesBuf) >= n /\ n > 0 /\ n \in Nat
      /\ Len(linesBuf) \in Nat /\ ReturnMatched(n)
  BY TypeFacts, BufferFacts DEF RowsMatch, EnoughRows, IInv, CallInv, input
<1>2. n \in 1..Len(linesBuf) /\ Len(AsRecReader!Rest) >= n
  BY <1>1, RestFacts
<1>3. n = AsRecReader!MatchedLines(call.format, AsRecReader!Rest)
  BY <1>1, <1>2 DEF AsRecReader!MatchedLines, AsRecReader!RowsBased
<1>. QED BY <1>1, <1>2, <1>3, MatchedRefines

LEMMA HeaderReadRefines ==
    ASSUME IInv, HeaderRead
    PROVE  AsRecReader!NotMatched(call.format) \/ UNCHANGED recReader
<1>1. /\ pc = "header" /\ UNCHANGED input /\ linesBuf = <<>> /\ BufferInv /\ lines \in Inputs
      /\ Len(linesBuf) \in Nat /\ NonBlank(lines, linesRead) \in Nat
  BY TypeFacts, BufferFacts DEF HeaderRead, IInv, BufferInv, input
<1>2. CASE ReadLine /\ UNCHANGED <<pc, answer>>
  BY <1>1, <1>2, ReadStutters
<1>3. CASE NoLine
  <2>1. NonBlank(lines, Len(lines)) = NonBlank(lines, linesRead)
    BY <1>1, <1>3, ReadNothingStep DEF NoLine
  <2>2. AsRecReader!Rest = <<>>
    BY <1>1, <2>1, RestFacts DEF position
  <2>. QED BY <1>1, <1>3, <2>2, NoLineRefines
<1>. QED BY <1>2, <1>3 DEF HeaderRead

LEMMA HeaderMatchRefines ==
    ASSUME IInv, HeaderMatch
    PROVE  AsRecReader!NotMatched(call.format) \/ UNCHANGED recReader
<1>. DEFINE rest == AsRecReader!Rest
<1>1. /\ pc = "header" /\ linesBuf # <<>> /\ lines' = lines /\ tail' = tail
      /\ linesRead' = linesRead /\ linesBuf' = linesBuf
      /\ answer.res # "failed" /\ call.format.rows = 0
  BY TypeFacts DEF HeaderMatch, IInv, CallInv, input
<1>2. /\ Len(rest) \in Nat /\ Len(linesBuf) \in Nat /\ Len(linesBuf) # 0
      /\ Len(linesBuf) <= Len(rest)
      /\ rest = <<>> <=> Len(rest) = 0
      /\ \A k \in 1..Len(linesBuf) : rest[k] = lines[linesBuf[k].lineNum]
  BY <1>1, RestFacts
<1>3. 1 \in 1..Len(linesBuf) /\ rest # <<>>
  BY <1>2
<1>4. UNCHANGED (NonBlank(lines, linesRead) - Len(linesBuf)) /\ UNCHANGED NonBlankLines(lines)
  BY <1>1
<1>5. CASE MatchLine(call.format.header, 1)
  BY <1>1, <1>5 DEF HeaderMatch, recReader, position, NodeValues
<1>6. CASE ~MatchLine(call.format.header, 1)
  <2>1. rest[1] \notin call.format.header
    BY <1>2, <1>3, <1>6, MatchesLine
  <2>2. /\ AsRecReader!MatchedLines(call.format, rest) = 0
        /\ ~AsRecReader!MatchFails(call.format, rest, tail)
    BY <1>1, <2>1 DEF AsRecReader!MatchedLines, AsRecReader!MatchFails, AsRecReader!ReadsPastEnd,
                      AsRecReader!RowsBased, AsRecReader!HeaderMatches
  <2>3. AsRecReader!Answer("unmatched")
    BY <1>6, AnswerRefines DEF HeaderMatch, Answer
  <2>. QED BY <1>1, <1>3, <1>4, <2>2, <2>3 DEF AsRecReader!NotMatched, AsRecReader!Usable
<1>. QED BY <1>5, <1>6

(* Where the record ends, as far as the lines that were compared say. *)
LEMMA FooterFacts ==
    ASSUME IInv, pc = "footer"
    PROVE  LET rest == AsRecReader!Rest
               footers == AsRecReader!FooterLines(call.format, rest)
           IN  /\ call.format.rows = 0 /\ AsRecReader!HeaderMatches(call.format, rest)
               /\ i \in 1..Len(linesBuf)
               /\ footers \in SUBSET (1..Len(rest))
               /\ \A k \in footers : i <= k
               /\ FooterMatches <=> i \in footers
<1>. DEFINE rest == AsRecReader!Rest
            footers == AsRecReader!FooterLines(call.format, rest)
<1>1. /\ i \in 1..Len(linesBuf) /\ call.format.rows = 0
      /\ lines[linesBuf[1].lineNum] \in call.format.header
      /\ \A j \in 1..(i - 1) : lines[linesBuf[j].lineNum] \notin call.format.footer
  BY TypeFacts DEF IInv, CallInv, FooterInv
<1>2. FooterMatches <=> lines[linesBuf[i].lineNum] \in call.format.footer
  BY <1>1, MatchesLine DEF FooterMatches
<1>3. /\ Len(rest) \in Nat /\ Len(linesBuf) \in Nat /\ Len(linesBuf) <= Len(rest)
      /\ rest = <<>> <=> Len(rest) = 0
      /\ \A k \in 1..Len(linesBuf) : rest[k] = lines[linesBuf[k].lineNum]
  BY RestFacts
<1>4. i \in 1..Len(rest) /\ 1 \in 1..Len(linesBuf) /\ rest # <<>>
  BY <1>1, <1>3
<1>5. footers = {k \in 1..Len(rest) : rest[k] \in call.format.footer}
  BY DEF AsRecReader!FooterLines
<1>. HIDE DEF rest, footers
<1>6. AsRecReader!HeaderMatches(call.format, rest)
  BY <1>1, <1>3, <1>4 DEF AsRecReader!HeaderMatches
<1>7. ASSUME NEW k \in footers, ~(i <= k) PROVE FALSE
  <2>1. k \in 1..Len(rest) /\ rest[k] \in call.format.footer
    BY <1>5
  <2>2. k \in 1..(i - 1) /\ k \in 1..Len(linesBuf)
    BY <1>1, <1>3, <1>7, <2>1
  <2>. QED BY <2>1, <2>2, <1>1, <1>3
<1>8. FooterMatches <=> i \in footers
  BY <1>1, <1>2, <1>3, <1>4, <1>5
<1>. QED BY <1>1, <1>5, <1>6, <1>7, <1>8 DEF rest, footers

(* The first line that matches the footer is the last one of the record. *)
LEMMA FooterMatchRefines ==
    ASSUME IInv, FooterMatch
    PROVE  AsRecReader!Matched(call.format)
<1>. DEFINE rest == AsRecReader!Rest
            footers == AsRecReader!FooterLines(call.format, rest)
<1>1. /\ pc = "footer" /\ FooterMatches /\ UNCHANGED input /\ ReturnMatched(i)
  BY DEF FooterMatch, input
<1>2. /\ call.format.rows = 0 /\ AsRecReader!HeaderMatches(call.format, rest)
      /\ i \in footers /\ footers \in SUBSET (1..Len(rest)) /\ \A k \in footers : i <= k
      /\ i \in 1..Len(linesBuf) /\ Len(rest) \in Nat
  BY <1>1, FooterFacts, RestFacts
<1>3. AsRecReader!Min(footers) = i
  <2>. HIDE DEF footers, rest
  <2>1. footers \in SUBSET Nat /\ footers # {}
    BY <1>2
  <2>2. Min(footers) \in footers /\ Min(footers) <= i
    BY <2>1, <1>2, MinFacts
  <2>3. Min(footers) = i
    BY <2>1, <2>2, <1>2
  <2>4. AsRecReader!Min(footers) = Min(footers)
    BY DEF Min, AsRecReader!Min
  <2>. QED BY <2>3, <2>4
<1>4. i = AsRecReader!MatchedLines(call.format, rest)
  BY <1>2, <1>3 DEF AsRecReader!MatchedLines, AsRecReader!RowsBased
<1>. QED BY <1>1, <1>2, <1>4, MatchedRefines

LEMMA FooterReadRefines ==
    ASSUME IInv, FooterRead
    PROVE  AsRecReader!NotMatched(call.format) \/ UNCHANGED recReader
<1>. DEFINE rest == AsRecReader!Rest
            footers == AsRecReader!FooterLines(call.format, rest)
<1>1. /\ pc = "footer" /\ ~FooterMatches /\ UNCHANGED input /\ i >= Len(linesBuf)
      /\ lines \in Inputs /\ BufferInv
      /\ Len(linesBuf) \in Nat /\ NonBlank(lines, linesRead) \in Nat
  BY TypeFacts, BufferFacts DEF FooterRead, AtBufferEnd, IInv, BufferInv, input
<1>2. CASE ReadLine /\ UNCHANGED <<pc, answer>>
  BY <1>1, <1>2, ReadStutters
<1>3. CASE NoLine
  <2>1. NonBlank(lines, Len(lines)) = NonBlank(lines, linesRead)
    BY <1>1, <1>3, ReadNothingStep DEF NoLine
  <2>2. Len(rest) = Len(linesBuf)
    BY <1>1, <2>1, RestFacts DEF position
  <2>3. /\ call.format.rows = 0 /\ AsRecReader!HeaderMatches(call.format, rest)
        /\ i \notin footers /\ footers \in SUBSET (1..Len(rest)) /\ \A k \in footers : i <= k
        /\ i \in 1..Len(linesBuf)
    BY <1>1, FooterFacts
  <2>4. footers = {}
    <3>. HIDE DEF footers, rest
    <3>. QED BY <2>2, <2>3, <1>1
  <2>5. /\ AsRecReader!MatchedLines(call.format, rest) = 0
        /\ AsRecReader!ReadsPastEnd(call.format, rest)
    BY <2>3, <2>4 DEF AsRecReader!MatchedLines, AsRecReader!ReadsPastEnd, AsRecReader!RowsBased
  <2>. QED BY <1>1, <1>3, <2>5, NoLineRefines
<1>. QED BY <1>2, <1>3 DEF FooterRead

LEMMA NextRefines ==
    IInv /\ [Next]_vars => [AsRecReader!Next]_recReader
<1>. SUFFICES ASSUME IInv, [Next]_vars
              PROVE  AsRecReader!Next \/ UNCHANGED recReader
  OBVIOUS
<1>1. call.format \in Formats
  BY TypeFacts DEF IInv
<1>2. CASE UNCHANGED vars
  BY <1>2 DEF vars, input, recReader, position, NodeValues
<1>3. CASE MoreUnprocessedData
  BY <1>3, MoreUnprocessedDataRefines DEF AsRecReader!Next
<1>4. ASSUME NEW f \in Formats, NEW create \in BOOLEAN, ReadAndMatch(f, create)
      PROVE  UNCHANGED recReader
  BY <1>4 DEF ReadAndMatch, recReader, input, position, NodeValues
<1>5. CASE RowsRead
  BY <1>1, <1>5, RowsReadRefines DEF AsRecReader!Next
<1>6. CASE RowsMatch
  BY <1>1, <1>6, RowsMatchRefines DEF AsRecReader!Next
<1>7. CASE HeaderRead
  BY <1>1, <1>7, HeaderReadRefines DEF AsRecReader!Next
<1>8. CASE HeaderMatch
  BY <1>1, <1>8, HeaderMatchRefines DEF AsRecReader!Next
<1>9. CASE FooterMatch
  BY <1>1, <1>9, FooterMatchRefines DEF AsRecReader!Next
<1>10. CASE FooterNext
  BY <1>10 DEF FooterNext, recReader, input, position, NodeValues
<1>11. CASE FooterRead
  BY <1>1, <1>11, FooterReadRefines DEF AsRecReader!Next
<1>. QED BY <1>2, <1>3, <1>4, <1>5, <1>6, <1>7, <1>8, <1>9, <1>10, <1>11 DEF Next

(***************************************************************************)
(* The fixedlength2 reader is a RecReader over the lines that are not      *)
(* empty: each call answers as if it had read nothing ahead, and a node is *)
(* made of the lines that it takes away.                                   *)
(***************************************************************************)
THEOREM Refinement == Spec => Implements
  BY InitRefines, NextRefines, Invariance, PTL
     DEF Spec, Implements, AsRecReader!Spec, recReader, position
=============================================================================
