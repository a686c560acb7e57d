---------------------------- MODULE CsvReaderProofs ----------------------------
(***************************************************************************)
(* Theorems about the csv2 reader, for every input, width of lines, format *)
(* of records and sequence of calls: its buffer stays aligned with the     *)
(* values, and it implements RecReaderSpec.                                *)
(*                                                                         *)
(* The invariants of CsvReader are not inductive: that the buffer stays    *)
(* aligned when its first lines go depends on the lines' values following  *)
(* each other without a gap, and that the first footer is found depends on *)
(* what the lines that were compared so far are not.                       *)
(***************************************************************************)
EXTENDS CsvReader, SequenceTheorems, WellFoundedInduction, TLAPS

(* A set of natural numbers that is not empty has a least one. *)
LEMMA MinFacts ==
    ASSUME NEW S \in SUBSET Nat, S # {}
    PROVE  Min(S) \in S /\ \A k \in S : Min(S) <= k
<1>. DEFINE less == {ss \in Nat \X Nat : ss[1] < ss[2]}
<1>1. IsWellFoundedOn(less, Nat)
  BY NatLessThanWellFounded DEF OpToRel
<1>. HIDE DEF less
<1>2. PICK m \in S : \A k \in S : <<k, m>> \notin less
  BY <1>1, WFMin
<1>3. ASSUME NEW k \in S PROVE m <= k
  <2>1. k < m => <<k, m>> \in less
    BY DEF less
  <2>. QED BY <2>1, <1>2
<1>. QED BY <1>2, <1>3 DEF Min

(* A function on 1..n is a sequence of length n. *)
LEMMA FunctionIsSeq ==
    ASSUME NEW S, NEW n \in Nat, NEW f \in [1..n -> S]
    PROVE  f \in Seq(S) /\ Len(f) = n
  OBVIOUS
-----------------------------------------------------------------------------

(* The number of the k-th line of a buffer when rd lines have been read. *)
LineNo(buf, rd, k) == rd - Len(buf) + k

CellsOf(ls, n) == [j \in 1..Width[ls[n]] |-> <<n, j>>]

(* The number that goes with line n: one past the end of the line before it. *)
LineNumOf(ls, n) == (IF n = 1 THEN 0 ELSE Upto[ls][n - 1]) + 1

End(ln) == ln.recordStart + ln.recordNum

CellsIn(ls) == (1..Len(ls)) \X (Nat \ {0})

LinesIn(ls) == [lineNum : Nat, recordStart : Nat, recordNum : Nat, raw : Seq(CellsIn(ls))]

(***************************************************************************)
(* Line k of a buffer has its line number, points at its own values, which *)
(* follow those of the line before it, and has no text or its own.         *)
(***************************************************************************)
LineAligned(ls, buf, recs, rd, k) ==
    LET n == LineNo(buf, rd, k)
    IN  /\ buf[k].lineNum = LineNumOf(ls, n)
        /\ buf[k].recordNum = Width[ls[n]]
        /\ End(buf[k]) <= Len(recs)
        /\ \A j \in 1..buf[k].recordNum : recs[buf[k].recordStart + j] = <<n, j>>
        /\ buf[k].raw \in {<<>>, CellsOf(ls, n)}
        /\ buf[k].recordStart = IF k = 1 THEN 0 ELSE End(buf[k - 1])
        /\ \A m \in 1..(k - 1) : End(buf[m]) <= buf[k].recordStart

(* A buffer of the last lines read, and values that are those of these lines. *)
Aligned(ls, buf, recs, rd) ==
    /\ buf \in Seq(LinesIn(ls)) /\ recs \in Seq(CellsIn(ls))
    /\ rd \in 0..Len(ls) /\ Len(buf) <= rd
    /\ \A k \in 1..Len(buf) : LineAligned(ls, buf, recs, rd, k)
    /\ Len(recs) = IF buf = <<>> THEN 0 ELSE End(buf[Len(buf)])

(* A call under way is one of a reader that did not fail, and where its format says. *)
CallInv ==
    /\ pc # "idle" => answer.res # "failed"
    /\ pc = "rows" => call.format.rows > 0
    /\ pc \in {"header", "footer"} => call.format.rows = 0

(* A call starts with the first line. *)
HeaderInv == pc = "header" => i = 1

(* The first line is a header, and none of those compared so far is a footer. *)
FooterInv ==
    pc = "footer" =>
        /\ lines[LineNo(linesBuf, read, 1)] \in call.format.header
        /\ \A j \in 1..(i - 1) : lines[LineNo(linesBuf, read, j)] \notin call.format.footer

IInv ==
    /\ TypeOK
    /\ Aligned(lines, linesBuf, records, read)
    /\ CallInv
    /\ HeaderInv
    /\ FooterInv
-----------------------------------------------------------------------------
(* Buffers. *)

LEMMA LineFacts ==
    ASSUME NEW ls \in Inputs, NEW n \in 1..Len(ls)
    PROVE  /\ Len(ls) \in Nat
           /\ Width[ls[n]] \in Nat \ {0}
           /\ LineNumOf(ls, n) \in Nat
           /\ CellsOf(ls, n) \in Seq(CellsIn(ls))
           /\ Len(CellsOf(ls, n)) = Width[ls[n]]
           /\ CellsOf(ls, n) # <<>>
           /\ \A j \in 1..Width[ls[n]] : CellsOf(ls, n)[j] = <<n, j>>
<1>1. ls \in Seq(DOMAIN Width)
  BY CsvAssumption
<1>2. Len(ls) \in Nat /\ ls[n] \in DOMAIN Width
  BY <1>1, LenProperties, ElementOfSeq
<1>3. Width[ls[n]] \in Nat \ {0}
  BY <1>2, CsvAssumption
<1>4. CellsOf(ls, n) \in [1..Width[ls[n]] -> CellsIn(ls)]
  BY <1>2, <1>3 DEF CellsOf, CellsIn
<1>5. CellsOf(ls, n) \in Seq(CellsIn(ls)) /\ Len(CellsOf(ls, n)) = Width[ls[n]]
  BY <1>3, <1>4, FunctionIsSeq
<1>6. CellsOf(ls, n) # <<>>
  BY <1>3, <1>5, EmptySeq
<1>7. LineNumOf(ls, n) \in Nat
  <2>1. Upto[ls] \in Seq(Nat) /\ Len(Upto[ls]) = Len(ls)
    BY CsvAssumption
  <2>2. n # 1 => n - 1 \in 1..Len(Upto[ls])
    BY <1>2, <2>1
  <2>3. n # 1 => Upto[ls][n - 1] \in Nat
    BY <2>1, <2>2, ElementOfSeq
  <2>. QED BY <2>3 DEF LineNumOf
<1>. QED BY <1>2, <1>3, <1>5, <1>6, <1>7 DEF CellsOf

LEMMA BufferFacts ==
    ASSUME NEW ls \in Inputs, NEW buf, NEW recs, NEW rd, Aligned(ls, buf, recs, rd)
    PROVE  /\ Len(buf) \in Nat /\ Len(recs) \in Nat /\ rd \in Nat /\ Len(ls) \in Nat
           /\ rd <= Len(ls) /\ Len(buf) <= rd
           /\ \A k \in 1..Len(buf) :
                 /\ LineNo(buf, rd, k) \in 1..Len(ls)
                 /\ buf[k] \in LinesIn(ls)
                 /\ buf[k].lineNum \in Nat /\ buf[k].recordStart \in Nat /\ buf[k].recordNum \in Nat
                 /\ buf[k].raw \in Seq(CellsIn(ls))
                 /\ End(buf[k]) \in Nat /\ buf[k].recordNum >= 1
<1>1. ls \in Seq(DOMAIN Width)
  BY CsvAssumption
<1>2. /\ buf \in Seq(LinesIn(ls)) /\ recs \in Seq(CellsIn(ls))
      /\ rd \in 0..Len(ls) /\ Len(buf) <= rd
  BY DEF Aligned
<1>3. Len(buf) \in Nat /\ Len(recs) \in Nat /\ Len(ls) \in Nat /\ rd \in Nat /\ rd <= Len(ls)
  BY <1>1, <1>2, LenProperties
<1>4. ASSUME NEW k \in 1..Len(buf)
      PROVE  /\ LineNo(buf, rd, k) \in 1..Len(ls)
             /\ buf[k] \in LinesIn(ls)
             /\ buf[k].lineNum \in Nat /\ buf[k].recordStart \in Nat /\ buf[k].recordNum \in Nat
             /\ buf[k].raw \in Seq(CellsIn(ls))
             /\ End(buf[k]) \in Nat /\ buf[k].recordNum >= 1
  <2>1. LineNo(buf, rd, k) \in 1..Len(ls)
    BY <1>2, <1>3 DEF LineNo
  <2>2. buf[k] \in LinesIn(ls)
    BY <1>2, ElementOfSeq
  <2>3. buf[k].lineNum \in Nat /\ buf[k].recordStart \in Nat /\ buf[k].recordNum \in Nat
        /\ buf[k].raw \in Seq(CellsIn(ls))
    BY <2>2 DEF LinesIn
  <2>4. buf[k].recordNum = Width[ls[LineNo(buf, rd, k)]]
    BY DEF Aligned, LineAligned
  <2>5. buf[k].recordNum >= 1
    BY <2>1, <2>4, LineFacts
  <2>. QED BY <2>1, <2>2, <2>3, <2>5 DEF End
<1>. QED BY <1>2, <1>3, <1>4

(* The shift when the first n lines go is where the last of them ends. *)
LEMMA ShiftFacts ==
    ASSUME NEW ls \in Inputs, NEW buf, NEW recs, NEW rd, Aligned(ls, buf, recs, rd),
           NEW n \in 0..Len(buf)
    PROVE  RecordShift(buf, n) = IF n = 0 THEN 0 ELSE End(buf[n])
<1>. DEFINE L == Len(buf)
            next(f) == [k \in 0..L |-> IF k = 0 THEN 0 ELSE f[k - 1] + buf[k].recordNum]
            ends == [k \in 0..L |-> IF k = 0 THEN 0 ELSE End(buf[k])]
            shift == CHOOSE f : f = next(f)
<1>1. L \in Nat
  BY BufferFacts
<1>2. ASSUME NEW k \in 1..L
      PROVE  /\ k - 1 \in 0..L
             /\ End(buf[k]) = (IF k - 1 = 0 THEN 0 ELSE End(buf[k - 1])) + buf[k].recordNum
  <2>1. buf[k].recordStart = IF k = 1 THEN 0 ELSE End(buf[k - 1])
    BY DEF Aligned, LineAligned
  <2>2. k - 1 = 0 <=> k = 1
    BY <1>1
  <2>. QED BY <1>1, <2>1, <2>2 DEF End
<1>3. ends = next(ends)
  <2>1. ASSUME NEW k \in 0..L PROVE ends[k] = IF k = 0 THEN 0 ELSE ends[k - 1] + buf[k].recordNum
    <3>1. CASE k = 0
      BY <3>1
    <3>2. CASE k # 0
      <4>1. k \in 1..L
        BY <3>2, <1>1
      <4>2. ends[k - 1] = IF k - 1 = 0 THEN 0 ELSE End(buf[k - 1])
        BY <4>1, <1>2
      <4>3. ends[k] = End(buf[k])
        BY <3>2
      <4>. QED BY <4>1, <4>2, <4>3, <3>2, <1>2
    <3>. QED BY <3>1, <3>2
  <2>2. ends = [k \in 0..L |-> ends[k]]
    OBVIOUS
  <2>. HIDE DEF ends
  <2>. QED BY <2>1, <2>2
<1>4. shift = next(shift)
  <2>. HIDE DEF ends, next
  <2>. QED BY <1>3
<1>. HIDE DEF shift, ends
<1>5. \A k \in 0..L : shift[k] = IF k = 0 THEN 0 ELSE shift[k - 1] + buf[k].recordNum
  BY <1>4
<1>. HIDE DEF next
<1>6. \A k \in 0..L : shift[k] = ends[k]
  <2>. DEFINE wrong == {k \in 0..L : shift[k] # ends[k]}
  <2>. SUFFICES ASSUME wrong # {} PROVE FALSE
    OBVIOUS
  <2>1. wrong \in SUBSET Nat
    BY <1>1
  <2>2. PICK k \in wrong : \A m \in wrong : k <= m
    BY <2>1, MinFacts
  <2>3. CASE k = 0
    BY <2>2, <2>3, <1>5 DEF ends
  <2>4. CASE k # 0
    <3>1. k \in 1..L /\ k - 1 \in 0..L /\ ~(k <= k - 1)
      BY <2>2, <2>4, <1>1
    <3>2. shift[k - 1] = ends[k - 1]
      BY <3>1, <2>2
    <3>3. ends[k - 1] = (IF k - 1 = 0 THEN 0 ELSE End(buf[k - 1])) /\ ends[k] = End(buf[k])
      BY <3>1, <2>4 DEF ends
    <3>4. shift[k] = shift[k - 1] + buf[k].recordNum
      BY <3>1, <2>4, <1>5
    <3>. QED BY <3>1, <3>2, <3>3, <3>4, <2>2, <1>2
  <2>. QED BY <2>3, <2>4
<1>7. RecordShift(buf, n) = shift[n]
  BY DEF RecordShift, shift, next
<1>. QED BY <1>6, <1>7 DEF ends

(* A new line goes behind the others, and its values behind theirs. *)
LEMMA AppendAligned ==
    ASSUME NEW ls \in Inputs, NEW buf, NEW recs, NEW rd, Aligned(ls, buf, recs, rd),
           rd < Len(ls), NEW new,
           new = [lineNum |-> LineNumOf(ls, rd + 1), recordStart |-> Len(recs),
                  recordNum |-> Len(CellsOf(ls, rd + 1)), raw |-> <<>>]
    PROVE  /\ Aligned(ls, Append(buf, new), recs \o CellsOf(ls, rd + 1), rd + 1)
           /\ Len(Append(buf, new)) = Len(buf) + 1
           /\ \A k \in 1..Len(buf) :
                 LineNo(Append(buf, new), rd + 1, k) = LineNo(buf, rd, k)
<1>. DEFINE cells == CellsOf(ls, rd + 1)
            buf2  == Append(buf, new)
            recs2 == recs \o cells
<1>1. /\ Len(buf) \in Nat /\ Len(recs) \in Nat /\ rd \in Nat /\ Len(ls) \in Nat /\ Len(buf) <= rd
      /\ rd + 1 \in 1..Len(ls)
  BY BufferFacts
<1>2. /\ buf \in Seq(LinesIn(ls)) /\ recs \in Seq(CellsIn(ls))
  BY DEF Aligned
<1>3. /\ cells \in Seq(CellsIn(ls)) /\ Len(cells) = Width[ls[rd + 1]] /\ Len(cells) \in Nat
      /\ \A j \in 1..Len(cells) : cells[j] = <<rd + 1, j>>
  BY <1>1, LineFacts
<1>. HIDE DEF cells
<1>4. /\ new.lineNum = LineNumOf(ls, rd + 1) /\ new.lineNum \in Nat /\ new.recordStart = Len(recs)
      /\ new.recordNum = Len(cells) /\ new.raw = <<>>
      /\ End(new) = Len(recs) + Len(cells)
  BY <1>1, LineFacts DEF cells, End
<1>5. new \in LinesIn(ls)
  BY <1>1, <1>3, <1>4, EmptySeq DEF LinesIn, cells
<1>6. /\ buf2 \in Seq(LinesIn(ls)) /\ Len(buf2) = Len(buf) + 1
      /\ buf2[Len(buf) + 1] = new /\ \A k \in 1..Len(buf) : buf2[k] = buf[k]
  BY <1>2, <1>5, AppendProperties
<1>7. /\ recs2 \in Seq(CellsIn(ls)) /\ Len(recs2) = Len(recs) + Len(cells)
      /\ \A j \in 1..Len(recs) : recs2[j] = recs[j]
      /\ \A j \in 1..Len(cells) : recs2[Len(recs) + j] = cells[j]
  <2>1. /\ recs2 \in Seq(CellsIn(ls)) /\ Len(recs2) = Len(recs) + Len(cells)
        /\ \A j \in 1..(Len(recs) + Len(cells)) :
              recs2[j] = IF j <= Len(recs) THEN recs[j] ELSE cells[j - Len(recs)]
    BY <1>2, <1>3, ConcatProperties
  <2>. HIDE DEF recs2
  <2>2. ASSUME NEW j \in 1..Len(cells) PROVE recs2[Len(recs) + j] = cells[j]
    <3>1. /\ Len(recs) + j \in 1..(Len(recs) + Len(cells)) /\ ~(Len(recs) + j <= Len(recs))
          /\ Len(recs) + j - Len(recs) = j
      BY <1>1, <1>3
    <3>. QED BY <3>1, <2>1
  <2>3. ASSUME NEW j \in 1..Len(recs) PROVE recs2[j] = recs[j]
    <3>1. j \in 1..(Len(recs) + Len(cells)) /\ j <= Len(recs)
      BY <1>1, <1>3
    <3>. QED BY <3>1, <2>1
  <2>. QED BY <2>1, <2>2, <2>3
<1>. HIDE DEF buf2, recs2
<1>8. \A k \in 1..(Len(buf) + 1) : LineNo(buf2, rd + 1, k) = LineNo(buf, rd, k)
  BY <1>1, <1>6 DEF LineNo
<1>9. ASSUME NEW k \in 1..Len(buf) PROVE LineAligned(ls, buf2, recs2, rd + 1, k)
  <2>1. LineAligned(ls, buf, recs, rd, k)
    BY DEF Aligned
  <2>2. buf2[k] = buf[k] /\ LineNo(buf2, rd + 1, k) = LineNo(buf, rd, k)
    BY <1>1, <1>6, <1>8
  <2>3. /\ buf[k].recordStart \in Nat /\ buf[k].recordNum \in Nat
        /\ End(buf[k]) <= Len(recs) /\ End(buf[k]) <= Len(recs2)
    <3>1. /\ buf[k].recordStart \in Nat /\ buf[k].recordNum \in Nat /\ End(buf[k]) \in Nat
      BY BufferFacts
    <3>2. End(buf[k]) <= Len(recs)
      BY <2>1 DEF LineAligned
    <3>. QED BY <3>1, <3>2, <1>1, <1>3, <1>7
  <2>4. ASSUME NEW j \in 1..buf[k].recordNum
        PROVE  recs2[buf[k].recordStart + j] = <<LineNo(buf, rd, k), j>>
    <3>1. buf[k].recordStart + j \in 1..Len(recs)
      BY <1>1, <2>3 DEF End
    <3>. QED BY <3>1, <1>7, <2>1 DEF LineAligned
  <2>5. \A m \in 1..(k - 1) : buf2[m] = buf[m]
    BY <1>1, <1>6
  <2>6. k # 1 => buf2[k - 1] = buf[k - 1]
    BY <1>1, <1>6
  <2>. QED BY <2>1, <2>2, <2>3, <2>4, <2>5, <2>6 DEF LineAligned
<1>10. Len(recs) = IF buf = <<>> THEN 0 ELSE End(buf[Len(buf)])
  BY DEF Aligned
<1>11. LineAligned(ls, buf2, recs2, rd + 1, Len(buf) + 1)
  <2>. DEFINE k == Len(buf) + 1
  <2>1. LineNo(buf2, rd + 1, k) = rd + 1 /\ buf2[k] = new
    BY <1>1, <1>6 DEF LineNo
  <2>2. End(buf2[k]) <= Len(recs2)
    BY <2>1, <1>4, <1>7, <1>1, <1>3
  <2>3. \A j \in 1..new.recordNum : recs2[new.recordStart + j] = <<rd + 1, j>>
    BY <1>3, <1>4, <1>7
  <2>4. new.recordStart = IF k = 1 THEN 0 ELSE End(buf2[k - 1])
    <3>1. CASE k = 1
      BY <3>1, <1>1, <1>2, <1>4, <1>10, EmptySeq
    <3>2. CASE k # 1
      <4>1. Len(buf) \in 1..Len(buf) /\ k - 1 = Len(buf) /\ buf # <<>>
        BY <3>2, <1>1, <1>2, EmptySeq
      <4>. QED BY <4>1, <1>4, <1>6, <1>10, <3>2
    <3>. QED BY <3>1, <3>2
  <2>5. ASSUME NEW m \in 1..(k - 1) PROVE End(buf2[m]) <= new.recordStart
    <3>1. m \in 1..Len(buf)
      BY <1>1
    <3>2. LineAligned(ls, buf, recs, rd, m)
      BY <3>1 DEF Aligned
    <3>. QED BY <3>1, <3>2, <1>4, <1>6 DEF LineAligned
  <2>6. new.raw = <<>> /\ new.lineNum = LineNumOf(ls, rd + 1) /\ new.recordNum = Width[ls[rd + 1]]
    BY <1>3, <1>4
  <2>. QED BY <2>1, <2>2, <2>3, <2>4, <2>5, <2>6 DEF LineAligned
<1>12. \A k \in 1..Len(buf2) : LineAligned(ls, buf2, recs2, rd + 1, k)
  <2>. SUFFICES ASSUME NEW k \in 1..Len(buf2) PROVE LineAligned(ls, buf2, recs2, rd + 1, k)
    OBVIOUS
  <2>1. k \in 1..Len(buf) \/ k = Len(buf) + 1
    BY <1>1, <1>6
  <2>. QED BY <2>1, <1>9, <1>11
<1>13. Len(recs2) = IF buf2 = <<>> THEN 0 ELSE End(buf2[Len(buf2)])
  <2>1. buf2 # <<>>
    BY <1>1, <1>6, EmptySeq
  <2>. QED BY <2>1, <1>4, <1>6, <1>7
<1>14. rd + 1 \in 0..Len(ls) /\ Len(buf2) <= rd + 1
  BY <1>1, <1>6
<1>15. Aligned(ls, buf2, recs2, rd + 1)
  BY <1>6, <1>7, <1>12, <1>13, <1>14 DEF Aligned
<1>16. \A k \in 1..Len(buf) : k \in 1..(Len(buf) + 1)
  BY <1>1
<1>. QED BY <1>6, <1>8, <1>15, <1>16 DEF buf2, recs2, cells

(* The first n lines go, their values with them, and the others move up. *)
Popped(buf, n) == [k \in 1..(Len(buf) - n) |-> Shifted(buf[k + n], RecordShift(buf, n))]

LEMMA PopAligned ==
    ASSUME NEW ls \in Inputs, NEW buf, NEW recs, NEW rd, Aligned(ls, buf, recs, rd),
           NEW n \in 0..Len(buf), NEW shift, shift = RecordShift(buf, n),
           NEW buf2, buf2 = Popped(buf, n),
           NEW recs2, recs2 = SubSeq(recs, shift + 1, Len(recs))
    PROVE  Aligned(ls, buf2, recs2, rd)
<1>1. /\ Len(buf) \in Nat /\ Len(recs) \in Nat /\ rd \in Nat /\ Len(ls) \in Nat
      /\ Len(buf) <= rd /\ rd <= Len(ls)
  BY BufferFacts
<1>2. buf \in Seq(LinesIn(ls)) /\ recs \in Seq(CellsIn(ls))
  BY DEF Aligned
<1>3. shift = IF n = 0 THEN 0 ELSE End(buf[n])
  BY ShiftFacts
<1>4. shift \in Nat
  <2>1. n # 0 => End(buf[n]) \in Nat
    BY <1>1, BufferFacts
  <2>. QED BY <2>1, <1>3
<1>5. ASSUME NEW k \in 1..Len(buf), k > n
      PROVE  shift <= buf[k].recordStart /\ End(buf[k]) <= Len(recs)
  <2>1. LineAligned(ls, buf, recs, rd, k) /\ buf[k].recordStart \in Nat
    BY BufferFacts DEF Aligned
  <2>2. n = 0 \/ n \in 1..(k - 1)
    BY <1>1, <1>5
  <2>. QED BY <2>1, <2>2, <1>3 DEF LineAligned
<1>6. shift <= Len(recs)
  <2>1. CASE n = 0
    BY <2>1, <1>1, <1>3
  <2>2. CASE n # 0
    <3>1. n \in 1..Len(buf)
      BY <2>2, <1>1
    <3>. QED BY <3>1, <2>2, <1>3 DEF Aligned, LineAligned
  <2>. QED BY <2>1, <2>2
<1>7. /\ recs2 \in Seq(CellsIn(ls)) /\ Len(recs2) = Len(recs) - shift
      /\ \A j \in 1..(Len(recs) - shift) : recs2[j] = recs[shift + j]
  <2>1. \A j \in (shift + 1)..Len(recs) : recs[j] \in CellsIn(ls)
    BY <1>1, <1>2, <1>4, ElementOfSeq
  <2>2. /\ recs2 \in Seq(CellsIn(ls))
        /\ Len(recs2) = IF shift + 1 <= Len(recs) THEN Len(recs) - (shift + 1) + 1 ELSE 0
        /\ \A j \in 1..(Len(recs) - (shift + 1) + 1) : recs2[j] = recs[shift + 1 + j - 1]
    BY <2>1, <1>1, <1>4, SubSeqProperties
  <2>3. Len(recs2) = Len(recs) - shift
    BY <2>2, <1>1, <1>4, <1>6
  <2>4. ASSUME NEW j \in 1..(Len(recs) - shift) PROVE recs2[j] = recs[shift + j]
    <3>1. j \in 1..(Len(recs) - (shift + 1) + 1) /\ shift + 1 + j - 1 = shift + j
      <4>1. j \in 1..(Len(recs) - shift)
        OBVIOUS
      <4>. QED BY ONLY <4>1, <1>1, <1>4
    <3>. QED BY <3>1, <2>2
  <2>. QED BY <2>2, <2>3, <2>4
<1>8. ASSUME NEW k \in 1..(Len(buf) - n)
      PROVE  /\ k + n \in 1..Len(buf) /\ k + n > n
             /\ buf[k + n] \in LinesIn(ls)
             /\ buf2[k].lineNum = buf[k + n].lineNum
             /\ buf2[k].recordStart = buf[k + n].recordStart - shift
             /\ buf2[k].recordStart \in Nat
             /\ buf2[k].recordNum = buf[k + n].recordNum /\ buf2[k].recordNum \in Nat
             /\ buf2[k].raw = buf[k + n].raw
             /\ buf2[k] \in LinesIn(ls)
             /\ End(buf2[k]) = End(buf[k + n]) - shift
  <2>1. k + n \in 1..Len(buf) /\ k + n > n
    BY <1>1
  <2>2. /\ buf[k + n] \in LinesIn(ls) /\ buf[k + n].recordStart \in Nat
        /\ buf[k + n].recordNum \in Nat /\ End(buf[k + n]) \in Nat
    BY <2>1, BufferFacts
  <2>3. buf[k + n].recordStart - shift \in Nat
    BY <2>1, <2>2, <1>4, <1>5
  <2>4. buf2[k] = Shifted(buf[k + n], shift)
    BY DEF Popped
  <2>5. /\ buf2[k] \in LinesIn(ls)
        /\ buf2[k].lineNum = buf[k + n].lineNum
        /\ buf2[k].recordStart = buf[k + n].recordStart - shift
        /\ buf2[k].recordNum = buf[k + n].recordNum
        /\ buf2[k].raw = buf[k + n].raw
    BY ONLY <2>2, <2>3, <2>4 DEF Shifted, LinesIn
  <2>6. End(buf2[k]) = End(buf[k + n]) - shift
    BY ONLY <2>2, <2>5, <1>4 DEF End
  <2>. QED BY <2>1, <2>2, <2>3, <2>5, <2>6
<1>9. buf2 \in Seq(LinesIn(ls)) /\ Len(buf2) = Len(buf) - n
  <2>1. Len(buf) - n \in Nat
    BY <1>1
  <2>2. buf2 \in [1..(Len(buf) - n) -> LinesIn(ls)]
    BY <1>8 DEF Popped
  <2>. QED BY <2>1, <2>2, FunctionIsSeq
<1>. HIDE DEF Shifted
<1>10. ASSUME NEW k \in 1..Len(buf2) PROVE LineAligned(ls, buf2, recs2, rd, k)
  <2>1. k \in 1..(Len(buf) - n) /\ k + n \in 1..Len(buf) /\ k + n > n
    BY <1>8, <1>9
  <2>2. LineNo(buf2, rd, k) = LineNo(buf, rd, k + n)
    BY <1>1, <1>9, <2>1 DEF LineNo
  <2>3. LineAligned(ls, buf, recs, rd, k + n)
    BY <2>1 DEF Aligned
  <2>4. /\ shift <= buf[k + n].recordStart /\ End(buf[k + n]) <= Len(recs)
        /\ buf[k + n].recordStart \in Nat /\ buf[k + n].recordNum \in Nat
        /\ End(buf[k + n]) \in Nat
    BY <2>1, <1>5, BufferFacts
  <2>5. /\ buf2[k].lineNum = buf[k + n].lineNum
        /\ buf2[k].recordStart = buf[k + n].recordStart - shift
        /\ buf2[k].recordNum = buf[k + n].recordNum
        /\ buf2[k].raw = buf[k + n].raw
        /\ End(buf2[k]) = End(buf[k + n]) - shift
    BY <1>8, <2>1
  <2>6. End(buf2[k]) <= Len(recs2)
    BY <2>4, <2>5, <1>1, <1>4, <1>7
  <2>7. ASSUME NEW j \in 1..buf[k + n].recordNum
        PROVE  recs2[buf2[k].recordStart + j] = <<LineNo(buf, rd, k + n), j>>
    <3>1. /\ buf2[k].recordStart + j \in 1..(Len(recs) - shift)
          /\ shift + (buf2[k].recordStart + j) = buf[k + n].recordStart + j
      <4>1. j \in 1..buf[k + n].recordNum
        OBVIOUS
      <4>2. buf2[k].recordStart = buf[k + n].recordStart - shift
        BY <2>5
      <4>3. PICK start \in Nat, num \in Nat :
                start = buf[k + n].recordStart /\ num = buf[k + n].recordNum
        BY <2>4
      <4>4. start + num <= Len(recs) /\ shift <= start /\ j \in 1..num
        BY <2>4, <4>1, <4>3 DEF End
      <4>5. PICK size \in Nat : size = Len(recs)
        BY <1>1
      <4>6. PICK by \in Nat : by = shift
        BY <1>4
      <4>7. start + num <= size /\ by <= start
        BY <4>4, <4>5, <4>6
      <4>8. start - by + j \in 1..(size - by) /\ by + (start - by + j) = start + j
        BY ONLY <4>4, <4>7, start \in Nat, num \in Nat, size \in Nat, by \in Nat
      <4>. QED BY <4>2, <4>3, <4>5, <4>6, <4>8
    <3>2. recs[buf[k + n].recordStart + j] = <<LineNo(buf, rd, k + n), j>>
      BY <2>3 DEF LineAligned
    <3>. QED BY <3>1, <3>2, <1>7
  <2>8. buf2[k].recordStart = IF k = 1 THEN 0 ELSE End(buf2[k - 1])
    <3>1. buf[k + n].recordStart = IF k + n = 1 THEN 0 ELSE End(buf[k + n - 1])
      BY <2>3 DEF LineAligned
    <3>2. CASE k = 1
      <4>1. k + n = 1 <=> n = 0
        BY <3>2, <1>1
      <4>2. k + n - 1 = n
        BY <3>2, <1>1
      <4>. QED BY <4>1, <4>2, <3>1, <3>2, <2>4, <2>5, <1>3, <1>4
    <3>3. CASE k # 1
      <4>1. k - 1 \in 1..(Len(buf) - n) /\ k + n # 1 /\ k - 1 + n = k + n - 1
        BY <3>3, <2>1, <1>1
      <4>2. End(buf2[k - 1]) = End(buf[k - 1 + n]) - shift
        BY <4>1, <1>8
      <4>. QED BY <4>1, <4>2, <3>1, <3>3, <2>5
    <3>. QED BY <3>2, <3>3
  <2>9. ASSUME NEW m \in 1..(k - 1) PROVE End(buf2[m]) <= buf2[k].recordStart
    <3>1. m \in 1..(Len(buf) - n) /\ m + n \in 1..(k + n - 1) /\ m + n \in 1..Len(buf)
      BY <2>1, <1>1
    <3>2. End(buf2[m]) = End(buf[m + n]) - shift /\ End(buf[m + n]) \in Nat
      BY <3>1, <1>8, BufferFacts
    <3>3. End(buf[m + n]) <= buf[k + n].recordStart
      BY <3>1, <2>3 DEF LineAligned
    <3>4. buf2[k].recordStart = buf[k + n].recordStart - shift
      BY <2>5
    <3>. QED BY ONLY <3>2, <3>3, <3>4, <2>4, <1>4
  <2>. QED BY <2>2, <2>3, <2>5, <2>6, <2>7, <2>8, <2>9 DEF LineAligned
<1>11. Len(recs2) = IF buf2 = <<>> THEN 0 ELSE End(buf2[Len(buf2)])
  <2>1. Len(recs) = IF buf = <<>> THEN 0 ELSE End(buf[Len(buf)])
    BY DEF Aligned
  <2>2. (buf = <<>> <=> Len(buf) = 0) /\ (buf2 = <<>> <=> Len(buf2) = 0)
    BY <1>2, <1>9, EmptySeq
  <2>3. CASE Len(buf) = n
    BY <2>1, <2>2, <2>3, <1>1, <1>3, <1>7, <1>9
  <2>4. CASE Len(buf) # n
    <3>1. Len(buf2) \in 1..(Len(buf) - n) /\ Len(buf2) + n = Len(buf) /\ Len(buf) # 0
      <4>1. n \in 0..Len(buf)
        OBVIOUS
      <4>. QED BY ONLY <4>1, <2>4, <1>1, <1>9
    <3>2. End(buf2[Len(buf2)]) = End(buf[Len(buf)]) - shift
      BY <3>1, <1>8
    <3>3. buf # <<>> /\ buf2 # <<>>
      <4>1. Len(buf2) # 0
        BY ONLY <3>1
      <4>. QED BY <3>1, <4>1, <2>2
    <3>. QED BY <3>2, <3>3, <2>1, <1>7
  <2>. QED BY <2>3, <2>4
<1>12. rd \in 0..Len(ls) /\ Len(buf2) <= rd
  BY <1>1, <1>9
<1>. QED BY <1>7, <1>9, <1>10, <1>11, <1>12 DEF Aligned

(* Joining a line's values to a text leaves the buffer aligned. *)
LEMMA JoinedAligned ==
    ASSUME lines \in Inputs, NEW buf, Aligned(lines, buf, records, read), NEW k \in 1..Len(buf)
    PROVE  /\ CellsAt(buf, k) = CellsOf(lines, LineNo(buf, read, k))
           /\ Joined(buf, k)[k].raw = CellsOf(lines, LineNo(buf, read, k))
           /\ Len(Joined(buf, k)) = Len(buf)
           /\ Aligned(lines, Joined(buf, k), records, read)
<1>. DEFINE n == LineNo(buf, read, k)
            cells == CellsOf(lines, n)
            buf2 == Joined(buf, k)
<1>1. /\ Len(buf) \in Nat /\ Len(records) \in Nat /\ n \in 1..Len(lines)
      /\ buf[k] \in LinesIn(lines) /\ buf[k].recordStart \in Nat /\ buf[k].recordNum \in Nat
      /\ buf[k].raw \in Seq(CellsIn(lines))
  BY BufferFacts
<1>2. buf \in Seq(LinesIn(lines)) /\ records \in Seq(CellsIn(lines))
  BY DEF Aligned
<1>3. LineAligned(lines, buf, records, read, k)
  BY DEF Aligned
<1>4. /\ cells \in Seq(CellsIn(lines)) /\ Len(cells) = Width[lines[n]] /\ cells # <<>>
      /\ \A j \in 1..Width[lines[n]] : cells[j] = <<n, j>>
  BY <1>1, LineFacts
<1>5. CellsAt(buf, k) = cells
  <2>. DEFINE s == buf[k].recordStart  m == buf[k].recordNum
              at == SubSeq(records, s + 1, s + m)
  <2>1. s + m <= Len(records) /\ m = Len(cells)
    BY <1>3, <1>4 DEF LineAligned, End
  <2>2. s \in Nat /\ m \in Nat
    BY <1>1
  <2>3. \A j \in 1..m : records[s + j] = cells[j]
    BY <1>3, <1>4 DEF LineAligned
  <2>. HIDE DEF s, m, cells, n
  <2>4. \A j \in (s + 1)..(s + m) : records[j] \in CellsIn(lines)
    BY <1>1, <1>2, <2>1, <2>2, ElementOfSeq
  <2>5. /\ at \in Seq(CellsIn(lines)) /\ Len(at) = m
        /\ \A j \in 1..m : at[j] = records[s + j]
    <3>1. /\ at \in Seq(CellsIn(lines))
          /\ Len(at) = IF s + 1 <= s + m THEN s + m - (s + 1) + 1 ELSE 0
          /\ \A j \in 1..(s + m - (s + 1) + 1) : at[j] = records[s + 1 + j - 1]
      BY <2>2, <2>4, SubSeqProperties
    <3>. HIDE DEF at
    <3>2. Len(at) = m
      BY ONLY <3>1, <2>2
    <3>3. ASSUME NEW j \in 1..m PROVE at[j] = records[s + j]
      <4>1. j \in 1..(s + m - (s + 1) + 1) /\ s + 1 + j - 1 = s + j
        BY <2>2
      <4>. QED BY <4>1, <3>1
    <3>. QED BY <3>1, <3>2, <3>3
  <2>. HIDE DEF at
  <2>6. at = cells
    <3>1. \A j \in 1..Len(at) : at[j] = cells[j]
      BY <2>3, <2>5
    <3>. QED BY <3>1, <2>1, <2>5, <1>4, SeqEqual
  <2>. QED BY <2>6 DEF at, s, m, CellsAt
<1>6. buf[k].raw \in {<<>>, cells}
  BY <1>3 DEF LineAligned
<1>7. ASSUME buf[k].raw # <<>>
      PROVE  buf2 = buf /\ buf[k].raw = cells
  BY <1>6, <1>7 DEF Joined
<1>8. CASE buf[k].raw = <<>>
  <2>. DEFINE new == [buf[k] EXCEPT !.raw = cells]
  <2>1. /\ new.lineNum = buf[k].lineNum /\ new.recordStart = buf[k].recordStart
        /\ new.recordNum = buf[k].recordNum /\ new.raw = cells /\ new \in LinesIn(lines)
    <3>. HIDE DEF cells
    <3>. QED BY ONLY <1>1, <1>4 DEF LinesIn
  <2>2. buf2 = [buf EXCEPT ![k] = new]
    BY <1>5, <1>8 DEF Joined
  <2>. HIDE DEF new, buf2
  <2>3. /\ buf2 \in Seq(LinesIn(lines)) /\ Len(buf2) = Len(buf)
        /\ buf2[k] = new /\ \A m \in 1..Len(buf) : m # k => buf2[m] = buf[m]
    BY <1>1, <1>2, <2>1, <2>2
  <2>4. \A m \in 1..Len(buf) : End(buf2[m]) = End(buf[m]) /\ buf2[m].recordStart = buf[m].recordStart
    BY <2>1, <2>3 DEF End
  <2>5. ASSUME NEW m \in 1..Len(buf2) PROVE LineAligned(lines, buf2, records, read, m)
    <3>1. LineAligned(lines, buf, records, read, m)
      BY <2>3 DEF Aligned
    <3>2. LineNo(buf2, read, m) = LineNo(buf, read, m)
      BY <2>3 DEF LineNo
    <3>3. /\ buf2[m].lineNum = buf[m].lineNum
          /\ buf2[m].recordStart = buf[m].recordStart /\ buf2[m].recordNum = buf[m].recordNum
      BY <2>1, <2>3
    <3>4. buf2[m].raw \in {<<>>, CellsOf(lines, LineNo(buf, read, m))}
      <4>1. CASE m = k
        BY <4>1, <2>1, <2>3
      <4>2. CASE m # k
        BY <4>2, <2>3, <3>1 DEF LineAligned
      <4>. QED BY <4>1, <4>2
    <3>5. End(buf2[m]) <= Len(records)
      BY <2>3, <2>4, <3>1 DEF LineAligned
    <3>6. buf2[m].recordStart = IF m = 1 THEN 0 ELSE End(buf2[m - 1])
      <4>1. m # 1 => m - 1 \in 1..Len(buf)
        BY <1>1, <2>3
      <4>. QED BY <4>1, <3>1, <3>3, <2>4 DEF LineAligned
    <3>7. \A j \in 1..(m - 1) : End(buf2[j]) <= buf2[m].recordStart
      <4>1. \A j \in 1..(m - 1) : j \in 1..Len(buf)
        BY <1>1, <2>3
      <4>. QED BY <4>1, <3>1, <3>3, <2>4 DEF LineAligned
    <3>. QED BY <3>1, <3>2, <3>3, <3>4, <3>5, <3>6, <3>7 DEF LineAligned
  <2>6. Len(records) = IF buf2 = <<>> THEN 0 ELSE End(buf2[Len(buf2)])
    <3>1. buf # <<>> /\ buf2 # <<>> /\ Len(buf2) \in 1..Len(buf)
      BY <1>1, <1>2, <2>3, EmptySeq
    <3>. QED BY <3>1, <2>3, <2>4 DEF Aligned
  <2>7. Aligned(lines, buf2, records, read)
    BY <2>3, <2>5, <2>6 DEF Aligned
  <2>. QED BY <1>5, <2>1, <2>3, <2>7 DEF buf2
<1>. QED BY <1>5, <1>7, <1>8

(* So what a regexp is compared with is the line that the position says. *)
LEMMA MatchesLine ==
    ASSUME lines \in Inputs, NEW buf, Aligned(lines, buf, records, read), NEW k \in 1..Len(buf),
           NEW re
    PROVE  MatchLine(re, buf, k) <=> lines[LineNo(buf, read, k)] \in re
<1>1. LineNo(buf, read, k) \in 1..Len(lines)
  BY BufferFacts
<1>2. Width[lines[LineNo(buf, read, k)]] \in Nat \ {0}
  BY <1>1, LineFacts
<1>3. CellsOf(lines, LineNo(buf, read, k))[1] = <<LineNo(buf, read, k), 1>>
  BY <1>1, <1>2, LineFacts
<1>4. Joined(buf, k)[k].raw[1][1] = LineNo(buf, read, k)
  BY <1>3, JoinedAligned
<1>. QED BY <1>4 DEF MatchLine

(* A node is made of the values that the abstract reader takes. *)
LEMMA NodeEqual ==
    ASSUME lines \in Inputs, Aligned(lines, linesBuf, records, read),
           NEW buf, Aligned(lines, buf, records, read), Len(buf) = Len(linesBuf),
           NEW f, NEW n \in 0..Len(buf)
    PROVE  LinesToNode(f, buf, n) = AsRecReader!NodeOf(f, n)
<1>. DEFINE pos == read - Len(linesBuf)
<1>1. Len(buf) \in Nat /\ read \in Nat
  BY BufferFacts
<1>2. ASSUME NEW k \in 1..n
      PROVE  k \in 1..Len(buf) /\ pos + k = LineNo(buf, read, k)
  BY <1>1 DEF LineNo
<1>3. ASSUME NEW c, NEW k \in 1..n
      PROVE  LineMatch(c, buf, k) <=> AsRecReader!LineMatch(c, k, lines[pos + k])
  BY <1>2, MatchesLine DEF LineMatch, AsRecReader!LineMatch
<1>4. ASSUME NEW c, NEW k \in 1..n
      PROVE  LineToColumnValue(c, buf, k) = AsRecReader!Value(c, pos + k)
  <2>1. LineAligned(lines, buf, records, read, k)
    BY <1>2 DEF Aligned
  <2>. QED BY <1>2, <2>1 DEF LineAligned, LineToColumnValue, AsRecReader!Value,
                            Empty, AsRecReader!Empty
<1>5. ASSUME NEW c
      PROVE  LET at == {k \in 1..n : LineMatch(c, buf, k)}
             IN  (IF at = {} THEN Absent ELSE LineToColumnValue(c, buf, Min(at)))
                     = AsRecReader!ColumnOf(c, n)
  <2>. DEFINE at == {k \in 1..n : LineMatch(c, buf, k)}
              at2 == {k \in 1..n : AsRecReader!LineMatch(c, k, lines[pos + k])}
  <2>1. at = at2
    BY <1>3
  <2>2. CASE at = {}
    BY <2>1, <2>2 DEF AsRecReader!ColumnOf, Absent, AsRecReader!Absent
  <2>3. CASE at # {}
    <3>1. at \in SUBSET Nat
      BY <1>1
    <3>2. Min(at) \in at
      BY <2>3, <3>1, MinFacts
    <3>3. Min(at) \in 1..n
      BY <3>2
    <3>4. LineToColumnValue(c, buf, Min(at)) = AsRecReader!Value(c, pos + Min(at))
      BY <3>3, <1>4
    <3>5. AsRecReader!Min(at) = Min(at)
      BY DEF Min, AsRecReader!Min
    <3>. QED BY <2>1, <2>3, <3>4, <3>5 DEF AsRecReader!ColumnOf
  <2>. QED BY <2>2, <2>3
<1>. QED BY <1>5 DEF LinesToNode, AsRecReader!NodeOf
-----------------------------------------------------------------------------
(* The inductive invariant. *)

Results == {"none", "more", "nomore", "failed", "EOF", "matched", "unmatched"}

LEMMA InitInv == Init => IInv
<1>. SUFFICES ASSUME Init PROVE IInv
  OBVIOUS
<1>1. lines \in Inputs /\ lines \in Seq(DOMAIN Width) /\ Len(lines) \in Nat
  BY CsvAssumption DEF Init
<1>2. /\ linesBuf \in Seq(LinesIn(lines)) /\ Len(linesBuf) = 0
      /\ records \in Seq(CellsIn(lines)) /\ Len(records) = 0
  BY DEF Init
<1>3. \A k \in 1..Len(linesBuf) : FALSE
  BY <1>2
<1>4. Aligned(lines, linesBuf, records, read)
  BY <1>1, <1>2, <1>3 DEF Init, Aligned
<1>5. call \in [format : Formats, create : BOOLEAN]
  BY CsvAssumption DEF Init
<1>6. TypeOK
  BY <1>1, <1>2, <1>5 DEF Init, TypeOK, LineTypes, CellTypes, LinesIn, CellsIn
<1>7. CallInv /\ HeaderInv /\ FooterInv
  BY DEF Init, CallInv, HeaderInv, FooterInv
<1>. QED BY <1>4, <1>6, <1>7 DEF IInv

(* What an aligned buffer and the types of the rest make of the type invariant. *)
LEMMA StepType ==
    ASSUME TypeOK, UNCHANGED input, Aligned(lines', linesBuf', records', read'),
           pc' \in {"idle", "rows", "header", "footer"},
           call' \in [format : Formats, create : BOOLEAN], i' \in Nat \ {0},
           pc' = "footer" => i' \in 1..Len(linesBuf'),
           answer'.res \in Results
    PROVE  TypeOK'
  BY DEF TypeOK, Aligned, input, LineTypes, CellTypes, LinesIn, CellsIn, Results

(* What TypeOK says of the types of the rest. *)
LEMMA TypeFacts ==
    ASSUME TypeOK
    PROVE  /\ lines \in Inputs /\ tail \in Tails
           /\ pc \in {"idle", "rows", "header", "footer"}
           /\ call \in [format : Formats, create : BOOLEAN]
           /\ call.format \in Formats /\ call.format.rows \in Nat
           /\ i \in Nat \ {0}
           /\ pc = "footer" => i \in 1..Len(linesBuf)
           /\ answer.res \in Results
  BY CsvAssumption DEF TypeOK, Results

LEMMA ReadLineStep ==
    ASSUME lines \in Inputs, NEW buf, Aligned(lines, buf, records, read), UNCHANGED input,
           ReadLine(buf)
    PROVE  /\ Aligned(lines', linesBuf', records', read')
           /\ Len(linesBuf') = Len(buf) + 1 /\ read' = read + 1
           /\ \A k \in 1..Len(buf) : LineNo(linesBuf', read', k) = LineNo(buf, read, k)
<1>1. Cells(read + 1) = CellsOf(lines, read + 1)
  BY DEF Cells, CellsOf
<1>2. /\ read < Len(lines) /\ read' = read + 1 /\ lines' = lines
      /\ records' = records \o CellsOf(lines, read + 1)
      /\ linesBuf' = Append(buf, [lineNum |-> LineNumOf(lines, read + 1), recordStart |-> Len(records),
                                  recordNum |-> Len(CellsOf(lines, read + 1)), raw |-> <<>>])
  <2>1. read \in Nat /\ Len(lines) \in Nat
    BY BufferFacts
  <2>2. LastLine(read) + 1 = LineNumOf(lines, read + 1)
    BY <2>1 DEF LastLine, LineNumOf
  <2>. QED BY <1>1, <2>1, <2>2 DEF ReadLine, MoreLines, input
<1>. QED BY <1>2, AppendAligned

LEMMA PopFrontStep ==
    ASSUME lines \in Inputs, NEW buf, Aligned(lines, buf, records, read), NEW n \in 0..Len(buf),
           PopFront(buf, n)
    PROVE  Aligned(lines, linesBuf', records', read) /\ Len(linesBuf') = Len(buf) - n
<1>1. PICK shift : shift = RecordShift(buf, n)
  OBVIOUS
<1>2. linesBuf' = Popped(buf, n) /\ records' = SubSeq(records, shift + 1, Len(records))
  BY <1>1 DEF PopFront, Popped
<1>3. PICK buf2, recs2 : buf2 = linesBuf' /\ recs2 = records'
  OBVIOUS
<1>4. Aligned(lines, buf2, recs2, read)
  BY <1>1, <1>2, <1>3, PopAligned
<1>5. Len(linesBuf') = Len(buf) - n
  <2>1. Len(buf) - n \in Nat
    BY BufferFacts
  <2>. QED BY <1>2, <2>1 DEF Popped
<1>. QED BY <1>3, <1>4, <1>5

LEMMA ReturnMatchedStep ==
    ASSUME TypeOK, NEW buf, Aligned(lines, buf, records, read), NEW n \in 0..Len(buf),
           UNCHANGED <<input, call, i>>, ReturnMatched(buf, n)
    PROVE  IInv'
<1>1. lines \in Inputs /\ lines' = lines /\ read' = read
  BY TypeFacts DEF ReturnMatched, input
<1>2. Aligned(lines', linesBuf', records', read')
  <2>1. CASE ~call.create
    BY <1>1, <2>1 DEF ReturnMatched
  <2>2. CASE call.create
    <3>1. PopFront(buf, n)
      BY <2>2 DEF ReturnMatched
    <3>. QED BY <3>1, <1>1, PopFrontStep
  <2>. QED BY <2>1, <2>2
<1>3. pc' = "idle" /\ answer'.res = "matched"
  BY DEF ReturnMatched
<1>4. TypeOK'
  BY <1>2, <1>3, StepType, TypeFacts DEF Results
<1>. QED BY <1>2, <1>3, <1>4 DEF IInv, CallInv, HeaderInv, FooterInv

(* A call that returns, with a buffer as good as the one it found. *)
LEMMA ReturnStep ==
    ASSUME TypeOK, NEW buf, Aligned(lines, buf, records, read), NEW res \in Results,
           UNCHANGED <<input, call, i>>, Return(res, buf)
    PROVE  IInv'
<1>1. /\ lines' = lines /\ read' = read /\ records' = records /\ linesBuf' = buf
      /\ pc' = "idle" /\ answer'.res = res
  BY DEF Return, Answer, input
<1>2. TypeOK'
  BY <1>1, StepType, TypeFacts
<1>. QED BY <1>1, <1>2 DEF IInv, CallInv, HeaderInv, FooterInv

LEMMA NoLineStep ==
    ASSUME TypeOK, NEW buf, Aligned(lines, buf, records, read), UNCHANGED <<input, call, i>>,
           NoLine(buf)
    PROVE  IInv'
<1>1. EndResult(buf) \in Results
  BY DEF EndResult, Results
<1>. QED BY <1>1, ReturnStep DEF NoLine

LEMMA MoreUnprocessedDataStep == ASSUME IInv, MoreUnprocessedData PROVE IInv'
<1>1. TypeOK /\ Aligned(lines, linesBuf, records, read) /\ UNCHANGED <<input, call, i>>
      /\ lines \in Inputs /\ linesBuf \in Seq(LinesIn(lines))
  BY TypeFacts DEF IInv, MoreUnprocessedData, Aligned
<1>2. ASSUME NEW res \in {"more", "nomore", "failed"}, Return(res, linesBuf) PROVE IInv'
  BY <1>1, <1>2, ReturnStep DEF Results
<1>3. CASE linesBuf = <<>> /\ ReadLine(<<>>) /\ Answer("more")
  <2>1. Aligned(lines', linesBuf', records', read')
    BY <1>1, <1>3, ReadLineStep
  <2>2. pc' = "idle" /\ answer'.res = "more"
    BY <1>3 DEF Answer
  <2>3. TypeOK'
    BY <1>1, <2>1, <2>2, StepType, TypeFacts DEF Results
  <2>. QED BY <2>1, <2>2, <2>3 DEF IInv, CallInv, HeaderInv, FooterInv
<1>. QED BY <1>2, <1>3 DEF MoreUnprocessedData

LEMMA ReadAndMatchStep ==
    ASSUME IInv, NEW f \in Formats, NEW create \in BOOLEAN, ReadAndMatch(f, create)
    PROVE  IInv'
<1>1. /\ lines' = lines /\ read' = read /\ records' = records /\ linesBuf' = linesBuf
      /\ answer' = answer /\ i' = 1 /\ UNCHANGED input
  BY DEF ReadAndMatch, input
<1>2. Aligned(lines', linesBuf', records', read')
  BY <1>1 DEF IInv
<1>3. /\ call' \in [format : Formats, create : BOOLEAN] /\ call'.format = f
      /\ pc' = (IF f.rows > 0 THEN "rows" ELSE "header")
      /\ answer'.res # "failed"
  BY <1>1 DEF ReadAndMatch, Idle, RowsBased
<1>4. f.rows \in Nat
  BY CsvAssumption
<1>5. TypeOK'
  BY <1>1, <1>2, <1>3, StepType, TypeFacts DEF IInv
<1>6. CallInv' /\ HeaderInv' /\ FooterInv'
  BY <1>1, <1>3, <1>4 DEF CallInv, HeaderInv, FooterInv
<1>. QED BY <1>2, <1>5, <1>6 DEF IInv

(* A line that a call reads, with the buffer it had or that with a text in it. *)
LEMMA ReadOnStep ==
    ASSUME IInv, NEW buf, Aligned(lines, buf, records, read), pc # "idle",
           UNCHANGED <<input, call, pc, answer>>, ReadLine(buf), i' \in Nat \ {0},
           pc = "footer" => i' \in 1..(Len(buf) + 1), pc = "header" => i' = i, FooterInv'
    PROVE  IInv'
<1>1. TypeOK /\ lines \in Inputs /\ UNCHANGED input
  BY TypeFacts DEF IInv, input
<1>2. Aligned(lines', linesBuf', records', read') /\ Len(linesBuf') = Len(buf) + 1
  BY <1>1, ReadLineStep
<1>3. TypeOK'
  BY <1>1, <1>2, StepType, TypeFacts
<1>4. CallInv' /\ HeaderInv'
  BY DEF IInv, CallInv, HeaderInv
<1>. QED BY <1>2, <1>3, <1>4 DEF IInv

LEMMA RowsReadStep == ASSUME IInv, RowsRead PROVE IInv'
<1>1. /\ pc = "rows" /\ UNCHANGED <<input, call, i>> /\ i \in Nat \ {0} /\ TypeOK
      /\ Aligned(lines, linesBuf, records, read)
  BY TypeFacts DEF RowsRead, IInv
<1>2. CASE ReadLine(linesBuf) /\ UNCHANGED <<pc, answer>>
  BY <1>1, <1>2, ReadOnStep DEF FooterInv
<1>3. CASE NoLine(linesBuf)
  BY <1>1, <1>3, NoLineStep
<1>. QED BY <1>2, <1>3 DEF RowsRead

LEMMA RowsMatchStep == ASSUME IInv, RowsMatch PROVE IInv'
<1>1. /\ TypeOK /\ Aligned(lines, linesBuf, records, read) /\ lines \in Inputs
      /\ UNCHANGED <<input, call, i>> /\ ReturnMatched(linesBuf, call.format.rows)
      /\ call.format.rows \in Nat /\ Len(linesBuf) >= call.format.rows
  BY TypeFacts DEF IInv, RowsMatch, EnoughRows
<1>2. call.format.rows \in 0..Len(linesBuf)
  BY <1>1, BufferFacts
<1>. QED BY <1>1, <1>2, ReturnMatchedStep

LEMMA HeaderReadStep == ASSUME IInv, HeaderRead PROVE IInv'
<1>1. /\ pc = "header" /\ UNCHANGED <<input, call, i>> /\ i \in Nat \ {0} /\ TypeOK
      /\ Aligned(lines, linesBuf, records, read)
  BY TypeFacts DEF HeaderRead, IInv
<1>2. CASE ReadLine(linesBuf) /\ UNCHANGED <<pc, answer>>
  BY <1>1, <1>2, ReadOnStep DEF FooterInv
<1>3. CASE NoLine(linesBuf)
  BY <1>1, <1>3, NoLineStep
<1>. QED BY <1>2, <1>3 DEF HeaderRead

(* When a header matches, no line has been compared with the footer yet. *)
LEMMA HeaderMatchStep == ASSUME IInv, HeaderMatch PROVE IInv'
<1>1. /\ TypeOK /\ Aligned(lines, linesBuf, records, read) /\ lines \in Inputs
      /\ UNCHANGED <<input, read, records, call, i>> /\ pc = "header"
      /\ linesBuf' = Joined(linesBuf, 1) /\ linesBuf # <<>>
  BY TypeFacts DEF IInv, HeaderMatch
<1>2. 1 \in 1..Len(linesBuf)
  <2>1. Len(linesBuf) \in Nat /\ linesBuf \in Seq(LinesIn(lines))
    BY <1>1, BufferFacts DEF Aligned
  <2>. QED BY <1>1, <2>1, EmptySeq
<1>3. /\ Aligned(lines, linesBuf', records, read) /\ Len(linesBuf') = Len(linesBuf)
      /\ LineNo(linesBuf', read, 1) = LineNo(linesBuf, read, 1)
  BY <1>1, <1>2, JoinedAligned DEF LineNo
<1>4. Aligned(lines', linesBuf', records', read')
  BY <1>1, <1>3 DEF input
<1>5. CASE MatchLine(call.format.header, linesBuf, 1)
  <2>1. pc' = "footer" /\ answer' = answer
    BY <1>5 DEF HeaderMatch
  <2>2. lines[LineNo(linesBuf, read, 1)] \in call.format.header
    BY <1>1, <1>2, <1>5, MatchesLine
  <2>3. i = 1
    BY <1>1 DEF IInv, HeaderInv
  <2>4. TypeOK'
    BY <1>1, <1>2, <1>3, <1>4, <2>1, <2>3, StepType, TypeFacts
  <2>5. CallInv'
    BY <1>1, <2>1 DEF IInv, CallInv
  <2>6. FooterInv'
    BY <1>1, <1>3, <2>2, <2>3 DEF FooterInv, input
  <2>7. HeaderInv'
    BY <2>1 DEF HeaderInv
  <2>. QED BY <1>4, <2>4, <2>5, <2>6, <2>7 DEF IInv
<1>6. CASE ~MatchLine(call.format.header, linesBuf, 1)
  <2>1. pc' = "idle" /\ answer'.res = "unmatched"
    BY <1>6 DEF HeaderMatch, Answer
  <2>2. TypeOK'
    BY <1>1, <1>4, <2>1, StepType, TypeFacts DEF Results
  <2>. QED BY <1>4, <2>1, <2>2 DEF IInv, CallInv, FooterInv, HeaderInv
<1>. QED BY <1>5, <1>6

(* The buffer with the texts that the footer's regexp needs; what it matches. *)
LEMMA TriedFacts ==
    ASSUME IInv, pc = "footer"
    PROVE  /\ i \in 1..Len(linesBuf)
           /\ Aligned(lines, Tried, records, read) /\ Len(Tried) = Len(linesBuf)
           /\ \A k : LineNo(Tried, read, k) = LineNo(linesBuf, read, k)
           /\ FooterMatches <=> lines[LineNo(linesBuf, read, i)] \in call.format.footer
<1>1. /\ lines \in Inputs /\ i \in 1..Len(linesBuf) /\ Aligned(lines, linesBuf, records, read)
  BY TypeFacts DEF IInv
<1>2. /\ Aligned(lines, Joined(linesBuf, i), records, read)
      /\ Len(Joined(linesBuf, i)) = Len(linesBuf)
  BY <1>1, JoinedAligned
<1>3. Aligned(lines, Tried, records, read) /\ Len(Tried) = Len(linesBuf)
  BY <1>1, <1>2 DEF Tried
<1>4. LineNo(linesBuf, read, i) \in 1..Len(lines) /\ lines \in Seq(DOMAIN Width)
  BY <1>1, BufferFacts, CsvAssumption
<1>5. lines[LineNo(linesBuf, read, i)] \in Range(lines)
  BY <1>4 DEF Range
<1>6. FooterMatches <=> lines[LineNo(linesBuf, read, i)] \in call.format.footer
  BY <1>1, <1>5, MatchesLine DEF FooterMatches, NoRegexp
<1>. QED BY <1>1, <1>3, <1>6 DEF LineNo

LEMMA FooterMatchStep == ASSUME IInv, FooterMatch PROVE IInv'
<1>1. /\ TypeOK /\ lines \in Inputs /\ pc = "footer"
      /\ UNCHANGED <<input, call, i>> /\ ReturnMatched(Tried, i)
  BY TypeFacts DEF IInv, FooterMatch
<1>2. Aligned(lines, Tried, records, read) /\ Len(Tried) = Len(linesBuf) /\ i \in 1..Len(Tried)
  BY <1>1, TriedFacts
<1>3. i \in 0..Len(Tried)
  BY <1>1, <1>2, BufferFacts
<1>. QED BY <1>1, <1>2, <1>3, ReturnMatchedStep

(* One more line that is compared, and is not the footer. *)
LEMMA FooterMoves ==
    ASSUME IInv, pc = "footer", ~FooterMatches, UNCHANGED <<lines, call>>, i' = i + 1,
           \A k \in 1..Len(linesBuf) : LineNo(linesBuf', read', k) = LineNo(linesBuf, read, k)
    PROVE  FooterInv'
<1>1. i \in 1..Len(linesBuf) /\ Len(linesBuf) \in Nat
  BY TriedFacts, BufferFacts, TypeFacts DEF IInv
<1>2. lines[LineNo(linesBuf, read, i)] \notin call.format.footer
  BY TriedFacts
<1>3. /\ lines[LineNo(linesBuf, read, 1)] \in call.format.header
      /\ \A j \in 1..(i - 1) : lines[LineNo(linesBuf, read, j)] \notin call.format.footer
  BY DEF IInv, FooterInv
<1>4. 1 \in 1..Len(linesBuf)
  BY <1>1
<1>5. ASSUME NEW j \in 1..(i' - 1)
      PROVE  lines'[LineNo(linesBuf', read', j)] \notin call'.format.footer
  <2>1. j \in 1..Len(linesBuf) /\ (j = i \/ j \in 1..(i - 1))
    BY <1>1
  <2>2. lines[LineNo(linesBuf, read, j)] \notin call.format.footer
    BY <2>1, <1>2, <1>3
  <2>. QED BY <2>1, <2>2
<1>. QED BY <1>3, <1>4, <1>5 DEF FooterInv

LEMMA FooterNextStep == ASSUME IInv, FooterNext PROVE IInv'
<1>1. /\ TypeOK /\ lines \in Inputs /\ pc = "footer" /\ ~FooterMatches
      /\ UNCHANGED <<input, read, records, pc, call, answer>>
      /\ linesBuf' = Tried /\ i' = i + 1 /\ ~(i >= Len(linesBuf))
  BY TypeFacts DEF IInv, FooterNext, AtBufferEnd
<1>2. Aligned(lines, Tried, records, read) /\ Len(Tried) = Len(linesBuf) /\ i \in 1..Len(linesBuf)
  BY <1>1, TriedFacts
<1>3. Len(linesBuf) \in Nat
  BY <1>1, <1>2, BufferFacts
<1>4. i' \in 1..Len(linesBuf')
  BY <1>1, <1>2, <1>3
<1>5. Aligned(lines', linesBuf', records', read')
  BY <1>1, <1>2 DEF input
<1>6. TypeOK'
  BY <1>1, <1>3, <1>4, <1>5, StepType, TypeFacts
<1>7. \A k \in 1..Len(linesBuf) : LineNo(linesBuf', read', k) = LineNo(linesBuf, read, k)
  BY <1>1, TriedFacts
<1>8. FooterInv'
  BY <1>1, <1>7, FooterMoves DEF input
<1>9. CallInv' /\ HeaderInv'
  BY <1>1 DEF IInv, CallInv, HeaderInv
<1>. QED BY <1>5, <1>6, <1>8, <1>9 DEF IInv

LEMMA FooterReadStep == ASSUME IInv, FooterRead PROVE IInv'
<1>1. /\ TypeOK /\ lines \in Inputs /\ pc = "footer" /\ ~FooterMatches
      /\ UNCHANGED <<input, call>> /\ UNCHANGED input
  BY TypeFacts DEF IInv, FooterRead
<1>2. Aligned(lines, Tried, records, read) /\ Len(Tried) = Len(linesBuf) /\ i \in 1..Len(linesBuf)
  BY <1>1, TriedFacts
<1>3. CASE ReadLine(Tried) /\ i' = i + 1 /\ UNCHANGED <<pc, answer>>
  <2>1. Len(linesBuf) \in Nat
    BY <1>1, <1>2, BufferFacts
  <2>2. i' \in Nat \ {0} /\ i' \in 1..(Len(Tried) + 1)
    BY <2>1, <1>2, <1>3
  <2>3. \A k \in 1..Len(Tried) : LineNo(linesBuf', read', k) = LineNo(Tried, read, k)
    BY <1>1, <1>2, <1>3, ReadLineStep
  <2>4. FooterInv'
    BY <2>3, <1>1, <1>2, <1>3, TriedFacts, FooterMoves DEF input
  <2>. QED BY <1>1, <1>2, <1>3, <2>2, <2>4, ReadOnStep
<1>4. CASE NoLine(Tried) /\ UNCHANGED i
  BY <1>1, <1>2, <1>4, NoLineStep
<1>. QED BY <1>3, <1>4 DEF FooterRead

LEMMA NextInv == IInv /\ [Next]_vars => IInv'
<1>. SUFFICES ASSUME IInv, [Next]_vars PROVE IInv'
  OBVIOUS
<1>1. CASE UNCHANGED vars
  <2>1. Aligned(lines', linesBuf', records', read')
    BY <1>1 DEF vars, input, IInv
  <2>2. TypeOK'
    <3>1. /\ UNCHANGED input /\ pc' = pc /\ call' = call /\ i' = i /\ answer' = answer
          /\ linesBuf' = linesBuf /\ TypeOK
      BY <1>1 DEF vars, input, IInv
    <3>. QED BY <2>1, <3>1, StepType, TypeFacts
  <2>3. CallInv' /\ HeaderInv' /\ FooterInv'
    BY <1>1 DEF vars, input, IInv, CallInv, HeaderInv, FooterInv, LineNo
  <2>. QED BY <2>1, <2>2, <2>3 DEF IInv
<1>2. CASE MoreUnprocessedData
  BY <1>2, MoreUnprocessedDataStep
<1>3. ASSUME NEW f \in Formats, NEW create \in BOOLEAN, ReadAndMatch(f, create) PROVE IInv'
  BY <1>3, ReadAndMatchStep
<1>4. CASE RowsRead
  BY <1>4, RowsReadStep
<1>5. CASE RowsMatch
  BY <1>5, RowsMatchStep
<1>6. CASE HeaderRead
  BY <1>6, HeaderReadStep
<1>7. CASE HeaderMatch
  BY <1>7, HeaderMatchStep
<1>8. CASE FooterMatch
  BY <1>8, FooterMatchStep
<1>9. CASE FooterNext
  BY <1>9, FooterNextStep
<1>10. CASE FooterRead
  BY <1>10, FooterReadStep
<1>. QED BY <1>1, <1>2, <1>3, <1>4, <1>5, <1>6, <1>7, <1>8, <1>9, <1>10 DEF Next

(* The inductive invariant holds of every reachable state. *)
THEOREM Invariance == Spec => []IInv
  BY InitInv, NextInv, PTL DEF Spec

(* The type invariant of the csv2 reader. *)
THEOREM TypeCorrect == Spec => []TypeOK
<1>1. IInv => TypeOK
  BY DEF IInv
<1>. QED BY <1>1, Invariance, PTL

(***************************************************************************)
(* Whatever is read ahead and popped, every buffered line points at its    *)
(* own values, its cached text is its own, no value is left over, and it   *)
(* has the number of the physical line that its reading began on.          *)
(***************************************************************************)
THEOREM BufferCorrect == Spec => []BufferAligned
<1>1. IInv => BufferAligned
  <2>. SUFFICES ASSUME IInv PROVE BufferAligned
    OBVIOUS
  <2>1. lines \in Inputs /\ Aligned(lines, linesBuf, records, read)
    BY TypeFacts DEF IInv
  <2>2. Len(linesBuf) \in Nat /\ linesBuf \in Seq(LinesIn(lines))
    BY <2>1, BufferFacts DEF Aligned
  <2>3. ASSUME NEW k \in 1..Len(linesBuf)
        PROVE  LET n == read - Len(linesBuf) + k
               IN  /\ linesBuf[k].lineNum = LastLine(n - 1) + 1
                   /\ linesBuf[k].recordStart + linesBuf[k].recordNum <= Len(records)
                   /\ CellsAt(linesBuf, k) = Cells(n)
                   /\ linesBuf[k].raw \in {<<>>, Cells(n)}
    <3>1. LineAligned(lines, linesBuf, records, read, k)
      BY <2>1 DEF Aligned
    <3>2. CellsAt(linesBuf, k) = CellsOf(lines, LineNo(linesBuf, read, k))
      BY <2>1, JoinedAligned
    <3>3. LineNumOf(lines, LineNo(linesBuf, read, k)) = LastLine(LineNo(linesBuf, read, k) - 1) + 1
      <4>1. LineNo(linesBuf, read, k) \in 1..Len(lines) /\ Len(lines) \in Nat
        BY <2>1, BufferFacts
      <4>. QED BY <4>1 DEF LineNumOf, LastLine
    <3>. QED BY <3>1, <3>2, <3>3 DEF LineAligned, LineNo, CellsOf, Cells, End
  <2>4. Len(records) = RecordShift(linesBuf, Len(linesBuf))
    <3>1. RecordShift(linesBuf, Len(linesBuf)) =
              IF Len(linesBuf) = 0 THEN 0 ELSE End(linesBuf[Len(linesBuf)])
      BY <2>1, <2>2, ShiftFacts
    <3>2. linesBuf = <<>> <=> Len(linesBuf) = 0
      BY <2>2, EmptySeq
    <3>. QED BY <3>1, <3>2, <2>1 DEF Aligned
  <2>. QED BY <2>3, <2>4 DEF BufferAligned
<1>. QED BY <1>1, Invariance, PTL
-----------------------------------------------------------------------------
(***************************************************************************)
(* The refinement.  The lines that are not made into nodes are those of    *)
(* the buffer and those that are not yet read.                             *)
(***************************************************************************)
LEMMA RestFacts ==
    ASSUME IInv
    PROVE  LET rest == AsRecReader!Rest
           IN  /\ Len(rest) \in Nat /\ Len(linesBuf) \in Nat
               /\ Len(rest) = Len(lines) - read + Len(linesBuf) /\ Len(linesBuf) <= Len(rest)
               /\ \A k \in 1..Len(rest) : rest[k] = lines[LineNo(linesBuf, read, k)]
               /\ rest = <<>> <=> Len(rest) = 0
               /\ linesBuf = <<>> <=> Len(linesBuf) = 0
<1>. DEFINE rest == AsRecReader!Rest  pos == read - Len(linesBuf)
<1>1. /\ lines \in Seq(DOMAIN Width) /\ lines \in Inputs
      /\ Aligned(lines, linesBuf, records, read)
  BY TypeFacts, CsvAssumption DEF IInv
<1>2. /\ Len(lines) \in Nat /\ read \in Nat /\ Len(linesBuf) \in Nat
      /\ Len(linesBuf) <= read /\ read <= Len(lines) /\ linesBuf \in Seq(LinesIn(lines))
  BY <1>1, BufferFacts DEF Aligned
<1>3. rest = SubSeq(lines, pos + 1, Len(lines))
  BY DEF AsRecReader!Rest
<1>4. pos \in Nat /\ pos <= Len(lines)
  BY <1>2
<1>5. Len(lines) - pos = Len(lines) - read + Len(linesBuf)
  BY <1>2
<1>6. \A k : pos + k = LineNo(linesBuf, read, k)
  BY DEF LineNo
<1>. HIDE DEF rest, pos
<1>7. \A j \in (pos + 1)..Len(lines) : lines[j] \in DOMAIN Width
  BY <1>1, <1>2, <1>4, ElementOfSeq
<1>8. /\ rest \in Seq(DOMAIN Width)
      /\ Len(rest) = IF pos + 1 <= Len(lines) THEN Len(lines) - (pos + 1) + 1 ELSE 0
      /\ \A k \in 1..(Len(lines) - (pos + 1) + 1) : rest[k] = lines[pos + 1 + k - 1]
  BY <1>2, <1>3, <1>4, <1>7, SubSeqProperties
<1>9. Len(rest) = Len(lines) - pos /\ Len(rest) \in Nat
  BY ONLY <1>2, <1>4, <1>8
<1>10. ASSUME NEW k \in 1..Len(rest) PROVE rest[k] = lines[LineNo(linesBuf, read, k)]
  <2>1. k \in 1..(Len(lines) - (pos + 1) + 1) /\ pos + 1 + k - 1 = pos + k
    BY <1>2, <1>4, <1>9
  <2>. QED BY <2>1, <1>6, <1>8
<1>11. Len(linesBuf) <= Len(rest)
  BY <1>2, <1>5, <1>9
<1>12. (rest = <<>> <=> Len(rest) = 0) /\ (linesBuf = <<>> <=> Len(linesBuf) = 0)
  BY <1>2, <1>8, EmptySeq
<1>. QED BY <1>2, <1>5, <1>9, <1>10, <1>11, <1>12 DEF rest

(* No line to read on with, and the record did not end within those that are left. *)
LEMMA NoLineRefines ==
    ASSUME IInv, pc # "idle", NEW buf, Len(buf) = Len(linesBuf), buf = <<>> <=> Len(buf) = 0,
           NoLine(buf), UNCHANGED input,
           AsRecReader!Rest # <<>> =>
               /\ AsRecReader!MatchedLines(call.format, AsRecReader!Rest) = 0
               /\ AsRecReader!ReadsPastEnd(call.format, AsRecReader!Rest)
    PROVE  AsRecReader!NotMatched(call.format)
<1>. DEFINE rest == AsRecReader!Rest
<1>1. /\ ~MoreLines /\ lines' = lines /\ tail' = tail /\ read' = read /\ linesBuf' = buf
      /\ answer' = [res |-> EndResult(buf), node |-> NoNode]
  BY DEF NoLine, Return, Answer, input
<1>2. tail \in Tails /\ answer.res # "failed" /\ read \in Nat /\ Len(lines) \in Nat /\ read <= Len(lines)
  BY TypeFacts, BufferFacts DEF IInv, CallInv
<1>3. Len(rest) = Len(linesBuf)
  BY <1>1, <1>2, RestFacts DEF MoreLines
<1>4. rest = <<>> <=> buf = <<>>
  BY <1>3, RestFacts
<1>5. UNCHANGED (read - Len(linesBuf))
  BY <1>1
<1>6. EndResult(buf) = IF rest = <<>> THEN IF tail = "EOF" THEN "EOF" ELSE "failed"
                       ELSE IF AsRecReader!MatchFails(call.format, rest, tail) THEN "failed"
                       ELSE "unmatched"
  BY <1>1, <1>2, <1>4 DEF EndResult, AtEOF, AsRecReader!MatchFails, Tails
<1>. HIDE DEF rest
<1>7. answer' = [res |-> IF rest = <<>> THEN IF tail = "EOF" THEN "EOF" ELSE "failed"
                        ELSE IF AsRecReader!MatchFails(call.format, rest, tail) THEN "failed"
                        ELSE "unmatched",
                 node |-> AsRecReader!NoNode]
  BY <1>1, <1>6 DEF NoNode, AsRecReader!NoNode
<1>. QED BY <1>1, <1>2, <1>5, <1>7 DEF rest, AsRecReader!NotMatched, AsRecReader!Usable,
                                       AsRecReader!Answer

(* A record of n lines that is found, and made into a node or not. *)
LEMMA MatchedRefines ==
    ASSUME IInv, pc # "idle", NEW buf, Aligned(lines, buf, records, read),
           Len(buf) = Len(linesBuf), NEW n \in 1..Len(buf),
           n = AsRecReader!MatchedLines(call.format, AsRecReader!Rest),
           ReturnMatched(buf, n), UNCHANGED input
    PROVE  AsRecReader!Matched(call.format)
<1>1. /\ lines' = lines /\ tail' = tail /\ read' = read /\ answer.res # "failed"
      /\ lines \in Inputs /\ Aligned(lines, linesBuf, records, read)
      /\ Len(buf) \in Nat /\ read \in Nat /\ n > 0
  BY TypeFacts, BufferFacts DEF IInv, CallInv, ReturnMatched, input
<1>2. CASE ~call.create
  <2>1. linesBuf' = buf /\ answer' = [res |-> "matched", node |-> NoNode]
    BY <1>2 DEF ReturnMatched
  <2>2. UNCHANGED (read - Len(linesBuf)) /\ AsRecReader!Answer("matched")
    BY <1>1, <2>1 DEF AsRecReader!Answer, AsRecReader!NoNode, NoNode
  <2>. QED BY <1>1, <2>2 DEF AsRecReader!Matched, AsRecReader!Usable
<1>3. CASE call.create
  <2>1. /\ PopFront(buf, n)
        /\ answer' = [res |-> "matched", node |-> LinesToNode(call.format, buf, n)]
    BY <1>3 DEF ReturnMatched
  <2>2. n \in 0..Len(buf)
    BY <1>1
  <2>3. LinesToNode(call.format, buf, n) = AsRecReader!NodeOf(call.format, n)
    BY <1>1, <2>2, NodeEqual
  <2>4. Len(linesBuf') = Len(buf) - n
    BY <1>1, <2>1, <2>2, PopFrontStep
  <2>5. (read - Len(linesBuf))' = read - Len(linesBuf) + n
    BY <1>1, <2>4
  <2>. QED BY <1>1, <2>1, <2>3, <2>5 DEF AsRecReader!Matched, AsRecReader!Usable
<1>. QED BY <1>2, <1>3

recReader == <<lines, tail, read - Len(linesBuf), answer>>

(* What the caller does not see: a line read ahead, or a text cached. *)
LEMMA Stutters ==
    ASSUME IInv, NEW buf, Aligned(lines, buf, records, read), Len(buf) = Len(linesBuf),
           UNCHANGED <<input, answer>>,
           \/ ReadLine(buf)
           \/ linesBuf' = buf /\ read' = read
    PROVE  UNCHANGED recReader
<1>1. Len(linesBuf) \in Nat /\ read \in Nat /\ lines \in Inputs /\ UNCHANGED input
  BY TypeFacts, BufferFacts DEF IInv
<1>2. CASE ReadLine(buf)
  BY <1>1, <1>2, ReadLineStep DEF recReader, input
<1>3. CASE linesBuf' = buf /\ read' = read
  BY <1>1, <1>3 DEF recReader, input
<1>. QED BY <1>2, <1>3

LEMMA InitRefines == Init => AsRecReader!Init
<1>. SUFFICES ASSUME Init PROVE AsRecReader!Init
  OBVIOUS
<1>1. read = 0 /\ Len(linesBuf) = 0
  BY DEF Init
<1>2. read - Len(linesBuf) = 0
  BY <1>1
<1>. QED BY <1>2 DEF Init, AsRecReader!Init, NoNode, AsRecReader!NoNode, Tails, AsRecReader!Tails

LEMMA MoreUnprocessedDataRefines ==
    ASSUME IInv, MoreUnprocessedData
    PROVE  AsRecReader!MoreUnprocessedData
<1>. DEFINE rest == AsRecReader!Rest
            more == IF AsRecReader!MoreFails(rest, tail) THEN "failed"
                    ELSE IF rest # <<>> THEN "more" ELSE "nomore"
<1>1. /\ lines' = lines /\ tail' = tail /\ answer.res # "failed" /\ tail \in Tails
      /\ UNCHANGED input /\ lines \in Inputs /\ Aligned(lines, linesBuf, records, read)
      /\ read \in Nat /\ Len(lines) \in Nat /\ read <= Len(lines)
  BY TypeFacts, BufferFacts DEF IInv, MoreUnprocessedData, Idle, input
<1>2. /\ Len(rest) = Len(lines) - read + Len(linesBuf) /\ Len(linesBuf) \in Nat
      /\ rest = <<>> <=> Len(rest) = 0
      /\ linesBuf = <<>> <=> Len(linesBuf) = 0
  BY RestFacts
<1>3. rest = <<>> <=> linesBuf = <<>> /\ ~MoreLines
  BY <1>1, <1>2 DEF MoreLines
<1>4. ASSUME NEW res, Answer(res), res = more, UNCHANGED (read - Len(linesBuf))
      PROVE  AsRecReader!MoreUnprocessedData
  <2>. HIDE DEF more
  <2>1. AsRecReader!Answer(more)
    BY <1>4 DEF Answer, AsRecReader!Answer, NoNode, AsRecReader!NoNode
  <2>. QED BY <1>1, <1>4, <2>1 DEF more, rest, AsRecReader!MoreUnprocessedData, AsRecReader!Usable
<1>5. ASSUME NEW res, Return(res, linesBuf) PROVE Answer(res) /\ UNCHANGED (read - Len(linesBuf))
  BY <1>5 DEF Return
<1>. HIDE DEF rest
<1>6. CASE linesBuf # <<>> /\ Return("more", linesBuf)
  BY <1>3, <1>4, <1>5, <1>6 DEF AsRecReader!MoreFails
<1>7. CASE linesBuf = <<>> /\ ReadLine(<<>>) /\ Answer("more")
  <2>1. "more" = more
    BY <1>3, <1>7 DEF ReadLine, AsRecReader!MoreFails
  <2>2. Len(linesBuf') = Len(linesBuf) + 1 /\ read' = read + 1
    BY <1>1, <1>7, ReadLineStep
  <2>3. UNCHANGED (read - Len(linesBuf))
    BY <1>1, <1>2, <2>2
  <2>. QED BY <1>4, <1>7, <2>1, <2>3
<1>8. CASE linesBuf = <<>> /\ AtEOF /\ Return("nomore", linesBuf)
  BY <1>3, <1>4, <1>5, <1>8 DEF AtEOF, AsRecReader!MoreFails
<1>9. CASE linesBuf = <<>> /\ ~MoreLines /\ ~AtEOF /\ Return("failed", linesBuf)
  BY <1>1, <1>3, <1>4, <1>5, <1>9 DEF AtEOF, AsRecReader!MoreFails, Tails
<1>. QED BY <1>6, <1>7, <1>8, <1>9 DEF MoreUnprocessedData

LEMMA RowsReadRefines ==
    ASSUME IInv, RowsRead
    PROVE  AsRecReader!NotMatched(call.format) \/ UNCHANGED recReader
<1>1. /\ pc = "rows" /\ UNCHANGED input /\ ~(Len(linesBuf) >= call.format.rows)
      /\ Aligned(lines, linesBuf, records, read) /\ call.format.rows \in Nat
      /\ call.format.rows > 0 /\ Len(linesBuf) \in Nat
      /\ read \in Nat /\ Len(lines) \in Nat /\ read <= Len(lines)
  BY TypeFacts, BufferFacts DEF RowsRead, EnoughRows, IInv, CallInv, input
<1>2. CASE ReadLine(linesBuf) /\ UNCHANGED <<pc, answer>>
  BY <1>1, <1>2, Stutters
<1>3. CASE NoLine(linesBuf)
  <2>1. Len(AsRecReader!Rest) < call.format.rows /\ ~(Len(AsRecReader!Rest) >= call.format.rows)
    BY <1>1, <1>3, RestFacts DEF NoLine, MoreLines
  <2>2. /\ AsRecReader!MatchedLines(call.format, AsRecReader!Rest) = 0
        /\ AsRecReader!ReadsPastEnd(call.format, AsRecReader!Rest)
    BY <1>1, <2>1 DEF AsRecReader!MatchedLines, AsRecReader!ReadsPastEnd, AsRecReader!RowsBased
  <2>3. linesBuf = <<>> <=> Len(linesBuf) = 0
    BY RestFacts
  <2>. QED BY <1>1, <1>3, <2>2, <2>3, NoLineRefines
<1>. QED BY <1>2, <1>3 DEF RowsRead

LEMMA RowsMatchRefines ==
    ASSUME IInv, RowsMatch
    PROVE  AsRecReader!Matched(call.format)
<1>. DEFINE n == call.format.rows
<1>1. /\ pc = "rows" /\ UNCHANGED input /\ Len(linesBuf) >= n /\ n > 0 /\ n \in Nat
      /\ Aligned(lines, linesBuf, records, read) /\ Len(linesBuf) \in Nat
      /\ ReturnMatched(linesBuf, n)
  BY TypeFacts, BufferFacts DEF RowsMatch, EnoughRows, IInv, CallInv, input
<1>2. n \in 1..Len(linesBuf) /\ Len(AsRecReader!Rest) >= n
  BY <1>1, RestFacts
<1>3. n = AsRecReader!MatchedLines(call.format, AsRecReader!Rest)
  BY <1>1, <1>2 DEF AsRecReader!MatchedLines, AsRecReader!RowsBased
<1>. QED BY <1>1, <1>2, <1>3, MatchedRefines

LEMMA HeaderReadRefines ==
    ASSUME IInv, HeaderRead
    PROVE  AsRecReader!NotMatched(call.format) \/ UNCHANGED recReader
<1>1. /\ pc = "header" /\ UNCHANGED input /\ linesBuf = <<>>
      /\ Aligned(lines, linesBuf, records, read)
      /\ read \in Nat /\ Len(lines) \in Nat /\ read <= Len(lines)
  BY TypeFacts, BufferFacts DEF HeaderRead, IInv, input
<1>2. CASE ReadLine(linesBuf) /\ UNCHANGED <<pc, answer>>
  BY <1>1, <1>2, Stutters
<1>3. CASE NoLine(linesBuf)
  <2>1. linesBuf = <<>> <=> Len(linesBuf) = 0
    BY RestFacts
  <2>2. AsRecReader!Rest = <<>>
    BY <1>1, <1>3, RestFacts DEF NoLine, MoreLines
  <2>. QED BY <1>1, <1>3, <2>1, <2>2, NoLineRefines
<1>. QED BY <1>2, <1>3 DEF HeaderRead

LEMMA HeaderMatchRefines ==
    ASSUME IInv, HeaderMatch
    PROVE  AsRecReader!NotMatched(call.format) \/ UNCHANGED recReader
<1>. DEFINE rest == AsRecReader!Rest  buf == Joined(linesBuf, 1)
<1>1. /\ pc = "header" /\ UNCHANGED input /\ linesBuf # <<>> /\ linesBuf' = buf /\ read' = read
      /\ Aligned(lines, linesBuf, records, read) /\ lines \in Inputs
      /\ answer.res # "failed" /\ call.format.rows = 0
  BY TypeFacts DEF HeaderMatch, IInv, CallInv, input
<1>2. /\ Len(rest) \in Nat /\ Len(linesBuf) \in Nat /\ Len(linesBuf) # 0
      /\ Len(linesBuf) <= Len(rest)
      /\ rest = <<>> <=> Len(rest) = 0
      /\ \A k \in 1..Len(rest) : rest[k] = lines[LineNo(linesBuf, read, k)]
  BY <1>1, RestFacts
<1>3. 1 \in 1..Len(linesBuf) /\ 1 \in 1..Len(rest) /\ rest # <<>>
  BY <1>2
<1>4. Aligned(lines, buf, records, read) /\ Len(buf) = Len(linesBuf)
  BY <1>1, <1>3, JoinedAligned
<1>5. CASE MatchLine(call.format.header, linesBuf, 1)
  <2>1. UNCHANGED <<input, answer>>
    BY <1>1, <1>5 DEF HeaderMatch
  <2>. QED BY <1>1, <1>4, <2>1, Stutters
<1>6. CASE ~MatchLine(call.format.header, linesBuf, 1)
  <2>1. rest[1] \notin call.format.header
    BY <1>1, <1>2, <1>3, <1>6, MatchesLine
  <2>2. /\ AsRecReader!MatchedLines(call.format, rest) = 0
        /\ ~AsRecReader!MatchFails(call.format, rest, tail)
    BY <1>1, <2>1 DEF AsRecReader!MatchedLines, AsRecReader!MatchFails, AsRecReader!ReadsPastEnd,
                      AsRecReader!RowsBased, AsRecReader!HeaderMatches
  <2>3. answer' = [res |-> "unmatched", node |-> NoNode]
    BY <1>6 DEF HeaderMatch, Answer
  <2>4. UNCHANGED (read - Len(linesBuf)) /\ UNCHANGED <<lines, tail>>
    BY <1>1, <1>4 DEF input
  <2>. QED BY <1>1, <1>3, <2>2, <2>3, <2>4 DEF AsRecReader!NotMatched, AsRecReader!Usable,
                            AsRecReader!Answer, NoNode, AsRecReader!NoNode
<1>. QED BY <1>5, <1>6

(* Where the record ends, as far as the lines that were compared say. *)
LEMMA FooterFacts ==
    ASSUME IInv, pc = "footer"
    PROVE  LET rest == AsRecReader!Rest
               footers == AsRecReader!FooterLines(call.format, rest)
           IN  /\ call.format.rows = 0 /\ AsRecReader!HeaderMatches(call.format, rest)
               /\ i \in 1..Len(rest)
               /\ footers \in SUBSET (1..Len(rest))
               /\ \A k \in footers : i <= k
               /\ FooterMatches <=> i \in footers
<1>. DEFINE rest == AsRecReader!Rest
            footers == AsRecReader!FooterLines(call.format, rest)
<1>1. /\ i \in 1..Len(linesBuf) /\ call.format.rows = 0
      /\ lines[LineNo(linesBuf, read, 1)] \in call.format.header
      /\ \A j \in 1..(i - 1) : lines[LineNo(linesBuf, read, j)] \notin call.format.footer
      /\ FooterMatches <=> lines[LineNo(linesBuf, read, i)] \in call.format.footer
  BY TypeFacts, TriedFacts DEF IInv, CallInv, FooterInv
<1>2. /\ Len(rest) \in Nat /\ Len(linesBuf) \in Nat /\ Len(linesBuf) <= Len(rest)
      /\ rest = <<>> <=> Len(rest) = 0
      /\ \A k \in 1..Len(rest) : rest[k] = lines[LineNo(linesBuf, read, k)]
  BY RestFacts
<1>3. i \in 1..Len(rest) /\ 1 \in 1..Len(rest) /\ rest # <<>>
  BY <1>1, <1>2
<1>4. footers = {k \in 1..Len(rest) : rest[k] \in call.format.footer}
  BY DEF AsRecReader!FooterLines
<1>. HIDE DEF rest, footers
<1>5. AsRecReader!HeaderMatches(call.format, rest)
  BY <1>1, <1>2, <1>3 DEF AsRecReader!HeaderMatches
<1>6. ASSUME NEW k \in footers PROVE i <= k
  <2>1. k \in 1..Len(rest) /\ lines[LineNo(linesBuf, read, k)] \in call.format.footer
    BY <1>2, <1>4
  <2>2. k \notin 1..(i - 1)
    BY <1>1, <2>1
  <2>. QED BY <2>1, <2>2, <1>1, <1>2
<1>7. FooterMatches <=> i \in footers
  BY <1>1, <1>2, <1>3, <1>4
<1>. QED BY <1>1, <1>3, <1>4, <1>5, <1>6, <1>7 DEF rest, footers

(* The first line that matches the footer is the last one of the record. *)
LEMMA FooterMatchRefines ==
    ASSUME IInv, FooterMatch
    PROVE  AsRecReader!Matched(call.format)
<1>. DEFINE rest == AsRecReader!Rest
            footers == AsRecReader!FooterLines(call.format, rest)
<1>1. /\ pc = "footer" /\ FooterMatches /\ UNCHANGED input /\ ReturnMatched(Tried, i)
  BY DEF FooterMatch, input
<1>2. Aligned(lines, Tried, records, read) /\ Len(Tried) = Len(linesBuf) /\ i \in 1..Len(Tried)
  BY <1>1, TriedFacts
<1>3. /\ call.format.rows = 0 /\ AsRecReader!HeaderMatches(call.format, rest)
      /\ i \in footers /\ footers \in SUBSET (1..Len(rest)) /\ \A k \in footers : i <= k
      /\ Len(rest) \in Nat
  BY <1>1, FooterFacts, RestFacts
<1>4. AsRecReader!Min(footers) = i
  <2>. HIDE DEF footers, rest
  <2>1. footers \in SUBSET Nat /\ footers # {}
    BY <1>3
  <2>2. Min(footers) \in footers /\ Min(footers) <= i
    BY <2>1, <1>3, MinFacts
  <2>3. Min(footers) = i
    BY <2>1, <2>2, <1>3
  <2>4. AsRecReader!Min(footers) = Min(footers)
    BY DEF Min, AsRecReader!Min
  <2>. QED BY <2>3, <2>4
<1>5. i = AsRecReader!MatchedLines(call.format, rest)
  BY <1>3, <1>4 DEF AsRecReader!MatchedLines, AsRecReader!RowsBased
<1>. QED BY <1>1, <1>2, <1>5, MatchedRefines

LEMMA FooterReadRefines ==
    ASSUME IInv, FooterRead
    PROVE  AsRecReader!NotMatched(call.format) \/ UNCHANGED recReader
<1>. DEFINE rest == AsRecReader!Rest
            footers == AsRecReader!FooterLines(call.format, rest)
<1>1. /\ pc = "footer" /\ ~FooterMatches /\ UNCHANGED input /\ i >= Len(linesBuf)
      /\ lines \in Inputs /\ read \in Nat /\ Len(lines) \in Nat /\ read <= Len(lines)
  BY TypeFacts, BufferFacts DEF FooterRead, AtBufferEnd, IInv, input
<1>2. Aligned(lines, Tried, records, read) /\ Len(Tried) = Len(linesBuf) /\ i \in 1..Len(linesBuf)
  BY <1>1, TriedFacts
<1>3. CASE ReadLine(Tried) /\ UNCHANGED <<pc, answer>>
  BY <1>1, <1>2, <1>3, Stutters
<1>4. CASE NoLine(Tried)
  <2>1. Len(rest) = Len(linesBuf) /\ Len(rest) \in Nat
    BY <1>1, <1>4, RestFacts DEF NoLine, MoreLines
  <2>2. /\ call.format.rows = 0 /\ AsRecReader!HeaderMatches(call.format, rest)
        /\ i \notin footers /\ footers \in SUBSET (1..Len(rest)) /\ \A k \in footers : i <= k
    BY <1>1, FooterFacts
  <2>3. footers = {}
    <3>. HIDE DEF footers, rest
    <3>. QED BY <2>1, <2>2, <1>1, <1>2
  <2>4. /\ AsRecReader!MatchedLines(call.format, rest) = 0
        /\ AsRecReader!ReadsPastEnd(call.format, rest)
    BY <2>2, <2>3 DEF AsRecReader!MatchedLines, AsRecReader!ReadsPastEnd, AsRecReader!RowsBased
  <2>5. Tried = <<>> <=> Len(Tried) = 0
    <3>1. Tried \in Seq(LinesIn(lines))
      BY <1>2 DEF Aligned
    <3>. QED BY <3>1, EmptySeq
  <2>. QED BY <1>1, <1>2, <1>4, <2>4, <2>5, NoLineRefines
<1>. QED BY <1>3, <1>4 DEF FooterRead

LEMMA NextRefines ==
    IInv /\ [Next]_vars => [AsRecReader!Next]_recReader
<1>. SUFFICES ASSUME IInv, [Next]_vars
              PROVE  AsRecReader!Next \/ UNCHANGED recReader
  OBVIOUS
<1>1. call.format \in Formats
  BY TypeFacts DEF IInv
<1>2. CASE UNCHANGED vars
  BY <1>2 DEF vars, input, recReader
<1>3. CASE MoreUnprocessedData
  BY <1>3, MoreUnprocessedDataRefines DEF AsRecReader!Next
<1>4. ASSUME NEW f \in Formats, NEW create \in BOOLEAN, ReadAndMatch(f, create)
      PROVE  UNCHANGED recReader
  BY <1>4 DEF ReadAndMatch, recReader, input
<1>5. CASE RowsRead
  BY <1>1, <1>5, RowsReadRefines DEF AsRecReader!Next
<1>6. CASE RowsMatch
  BY <1>1, <1>6, RowsMatchRefines DEF AsRecReader!Next
<1>7. CASE HeaderRead
  BY <1>1, <1>7, HeaderReadRefines DEF AsRecReader!Next
<1>8. CASE HeaderMatch
  BY <1>1, <1>8, HeaderMatchRefines DEF AsRecReader!Next
<1>9. CASE FooterMatch
  BY <1>1, <1>9, FooterMatchRefines DEF AsRecReader!Next
<1>10. CASE FooterNext
  <2>1. /\ pc = "footer" /\ linesBuf' = Tried /\ UNCHANGED <<input, read, answer>>
        /\ UNCHANGED <<input, answer>>
    BY <1>10 DEF FooterNext
  <2>2. Aligned(lines, Tried, records, read) /\ Len(Tried) = Len(linesBuf)
    BY <2>1, TriedFacts
  <2>. QED BY <2>1, <2>2, Stutters
<1>11. CASE FooterRead
  BY <1>1, <1>11, FooterReadRefines DEF AsRecReader!Next
<1>. QED BY <1>2, <1>3, <1>4, <1>5, <1>6, <1>7, <1>8, <1>9, <1>10, <1>11 DEF Next

(***************************************************************************)
(* The csv2 reader is a RecReader: whatever it has read ahead for          *)
(* declarations that did not match, each call answers as if it had read    *)
(* nothing, and a node is made of the lines that it takes away.            *)
(***************************************************************************)
THEOREM Refinement == Spec => Implements
  BY InitRefines, NextRefines, Invariance, PTL DEF Spec, Implements, AsRecReader!Spec, recReader
=============================================================================
