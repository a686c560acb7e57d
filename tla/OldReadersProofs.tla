--------------------------- MODULE OldReadersProofs ---------------------------
(***************************************************************************)
(* Theorems about the old csv and fixed-length readers, for all file       *)
(* declarations and inputs and both ways in which an input may end.        *)
(***************************************************************************)
EXTENDS OldReaders, SequenceTheorems, WellFoundedInduction, TLAPS

(* A set of natural numbers that is not empty has a least one. *)
LEMMA MinFacts ==
    ASSUME NEW S \in SUBSET Nat, S # {}
    PROVE  Min(S) \in S /\ \A k \in S : Min(S) <= k
<1>. DEFINE less == {ss \in Nat \X Nat : ss[1] < ss[2]}
<1>1. IsWellFoundedOn(less, Nat)
  BY NatLessThanWellFounded DEF OpToRel
<1>. HIDE DEF less
<1>2. PICK m \in S : \A k \in S : <<k, m>> \notin less
  BY <1>1, WFMin
<1>3. ASSUME NEW k \in S PROVE m <= k
  <2>1. k < m => <<k, m>> \in less
    BY DEF less
  <2>. QED BY <2>1, <1>2
<1>. QED BY <1>2, <1>3 DEF Min

-----------------------------------------------------------------------------
(* Rows and lines are the same, as long as each line up to the data row is a row. *)
InStep ==
    /\ lineNum <= Len(input) => pos = lineNum
    /\ lineNum >= Len(input) => pos = Len(input)

Continuable == IsContinuableError(reply.kind)

(* The rows before the data row are behind. *)
AtData == pos = Len(input) \/ pos >= decl.data - 1

CsvRows == {[row |-> i, node |-> NodeOf(i)] : i \in 1..Len(input)}

CsvTypes ==
    /\ pc \in {"new", "rejected", "idle", "toHeader", "header", "toData", "data"}
    /\ headerChecked \in BOOLEAN /\ lineNum \in Nat
    /\ given \in Seq(CsvRows)
    /\ pc \notin {"new", "rejected"} => decl.header < decl.data

(* Where each part of Read is. *)
CsvCalls ==
    /\ ~headerChecked => /\ pc \in {"new", "rejected", "idle"} /\ reply.kind = "none"
                         /\ pos = 0 /\ lineNum = 0 /\ given = <<>>
    /\ pc \in {"new", "rejected"} => ~headerChecked
    /\ pc \in {"toHeader", "header"} =>
          decl.header # 0 /\ InStep /\ pos < decl.header /\ given = <<>> /\ Continuable
    /\ pc = "header" => JustBefore(decl.header)
    /\ pc = "toData" =>
          HeaderFound /\ InStep /\ pos < decl.data /\ given = <<>> /\ Continuable
    /\ pc = "data" => HeaderFound /\ AtData /\ GivenAre(decl.data..pos) /\ Continuable
    /\ pc = "idle" /\ headerChecked /\ Continuable => HeaderFound /\ AtData

CsvInv == format = "csv" => CsvTypes /\ (Plain => CsvCalls) /\ RowsAsDeclared

-----------------------------------------------------------------------------
IsEnvelope(n) ==
    /\ n.env \in DOMAIN decl.envelopes /\ n.lines \in Seq(1..Len(input))
    /\ n = Node(n.env, n.lines)

(* The envelope after which the next one is declared. *)
After == IF envelopes = <<>> THEN 1 ELSE Last(envelopes).env

FixedLengthTypes ==
    /\ pc \in {"new", "rejected", "idle", "envelope"}
    /\ taken \in Seq(1..Len(input))
    /\ envelopes \in Seq(Range(envelopes))
    /\ \A n \in Range(envelopes) : IsEnvelope(n)

(* The lines taken so far start the envelope and do not end it. *)
TakenInv ==
    IF taken = <<>> THEN envelopeIndex = After
    ELSE LET e == decl.envelopes[envelopeIndex]
         IN  /\ envelopeIndex \in DOMAIN decl.envelopes
             /\ ByRows => Len(taken) < e.rows
             /\ ~ByRows =>
                   /\ envelopeIndex >= After
                   /\ \A i \in After..envelopeIndex :
                         (decl.envelopes[i].header \in input[taken[1]]) <=> (i = envelopeIndex)
                   /\ \A k \in 1..Len(taken) : e.footer \notin input[taken[k]]

FixedLengthCalls ==
    /\ pc \in {"new", "rejected"} => pos = 0 /\ envelopes = <<>> /\ reply.kind = "none"
    /\ Continuable => TakenInv
    /\ Continuable /\ pc # "envelope" => taken = <<>>
    /\ ByRows => envelopeIndex = 1
    /\ pc = "envelope" => Continuable /\ target = {}

TargetInv ==
    target # {} => envelopes # <<>> /\ target = {Last(envelopes)} /\ IsTarget(Last(envelopes))

FixedLengthInv ==
    format = "fixed-length" =>
        FixedLengthTypes /\ FixedLengthCalls /\ TargetInv /\ EnvelopesTile /\ TreeHoldsGlobals

Types ==
    /\ format \in Formats \cap {"csv", "fixed-length"}
    /\ decl \in Decls[format] /\ input \in Inputs[format] /\ tail \in Tails
    /\ pos \in 0..Len(input)
    /\ reply.kind \in {"none", "node", "error", "eof", "invalid"}

IInv == Types /\ CsvInv /\ FixedLengthInv

-----------------------------------------------------------------------------
(* The declaration and the input stay, and so does all that they decide. *)
LEMMA ConfigFacts ==
    ASSUME UNCHANGED config
    PROVE  /\ Plain' <=> Plain
           /\ HeaderFound' <=> HeaderFound
           /\ \A i : NodeOf(i)' = NodeOf(i)
           /\ \A i : Kept(i)' <=> Kept(i)
           /\ CsvRows' = CsvRows
<1>1. decl' = decl /\ input' = input
  BY DEF config
<1>2. \A i : NodeOf(i)' = NodeOf(i)
  BY <1>1 DEF NodeOf, RecordToNode, ColumnName
<1>3. \A i : Kept(i)' <=> Kept(i)
  BY <1>1, <1>2 DEF Kept, Passes
<1>4. CsvRows' = CsvRows
  BY <1>1, <1>2 DEF CsvRows
<1>. QED BY <1>1, <1>2, <1>3, <1>4 DEF Plain, HeaderFound, HeaderMatches

(* An input of csv is a sequence of rows with the numbers of their last lines. *)
LEMMA CsvInputFacts ==
    ASSUME Types, format = "csv"
    PROVE  /\ Len(input) \in Nat /\ DOMAIN input = 1..Len(input)
           /\ pos \in Nat /\ pos <= Len(input)
           /\ \A i \in 1..Len(input) : input[i].upto \in Nat /\ input[i].bad \in BOOLEAN
           /\ decl.header \in Nat /\ decl.data \in Nat
           /\ LastLine \in Nat
<1>1. "csv" \in Formats /\ decl \in Decls["csv"] /\ input \in Inputs["csv"] /\ pos \in 0..Len(input)
  BY DEF Types
<1>2. /\ decl.header \in Nat /\ decl.data \in Nat
      /\ input \in Seq(Range(input))
      /\ \A row \in Range(input) : row.upto \in Nat /\ row.bad \in BOOLEAN
  BY <1>1, CsvAssumption
<1>3. Len(input) \in Nat /\ DOMAIN input = 1..Len(input)
  BY <1>2, LenProperties
<1>4. \A i \in 1..Len(input) : input[i] \in Range(input)
  BY <1>3 DEF Range
<1>5. LastLine \in Nat
  <2>1. CASE input = <<>>
    BY <2>1 DEF LastLine
  <2>2. CASE input # <<>>
    <3>1. Len(input) \in 1..Len(input)
      BY <2>2, <1>2, <1>3, EmptySeq
    <3>. QED BY <3>1, <2>2, <1>2, <1>4 DEF LastLine, Last
  <2>. QED BY <2>1, <2>2
<1>. QED BY <1>1, <1>2, <1>3, <1>4, <1>5

(* The next row is the first one that is not blank. *)
LEMMA NextRowFacts ==
    ASSUME Types, format = "csv"
    PROVE  /\ NextRow \in (pos + 1)..(Len(input) + 1)
           /\ ~AtEnd => NextRow \in 1..Len(input) /\ input[NextRow].cells # <<>>
           /\ \A i \in (pos + 1)..Len(input) : i < NextRow => input[i].cells = <<>>
           /\ pos = Len(input) => AtEnd
<1>. DEFINE S == {i \in (pos + 1)..Len(input) : input[i].cells # <<>>} \cup {Len(input) + 1}
<1>1. Len(input) \in Nat /\ pos \in Nat /\ pos <= Len(input)
  BY CsvInputFacts
<1>2. S \in SUBSET Nat /\ S # {}
  BY <1>1
<1>3. \A k \in S : k \in (pos + 1)..(Len(input) + 1)
  BY <1>1
<1>4. \A k \in S : k <= Len(input) => input[k].cells # <<>>
  BY <1>1
<1>5. \A i \in (pos + 1)..Len(input) : input[i].cells # <<>> => i \in S
  OBVIOUS
<1>. HIDE DEF S
<1>6. Min(S) \in S /\ \A k \in S : Min(S) <= k
  BY <1>2, MinFacts
<1>7. NextRow = Min(S)
  BY DEF NextRow, S
<1>8. ASSUME NEW i \in (pos + 1)..Len(input), i < NextRow PROVE input[i].cells = <<>>
  <2>1. i \in Nat
    BY <1>1
  <2>2. NextRow \in Nat /\ \A k \in S : NextRow <= k
    BY <1>2, <1>6, <1>7
  <2>3. i \notin S
    BY <2>1, <2>2, <1>8
  <2>. QED BY <2>3, <1>5
<1>. QED BY <1>1, <1>3, <1>4, <1>6, <1>7, <1>8 DEF AtEnd

(* The larger of two numbers. *)
LEMMA MaxOfTwo ==
    ASSUME NEW a \in Nat, NEW b \in Nat
    PROVE  Max({a, b}) \in Nat /\ Max({a, b}) >= a /\ Max({a, b}) >= b
<1>1. \E x \in {a, b} : \A y \in {a, b} : x >= y
  <2>1. CASE a >= b
    BY <2>1
  <2>2. CASE b >= a
    BY <2>2
  <2>. QED BY <2>1, <2>2
<1>. QED BY <1>1 DEF Max

(* Reading a row moves on to it, or to the end. *)
LEMMA ReadRecordFacts ==
    ASSUME Types, format = "csv", lineNum \in Nat, ReadRecord
    PROVE  /\ pos' \in pos..Len(input) /\ pos' \in Nat
           /\ lineNum' \in Nat
           /\ AtEnd => pos' = Len(input) /\ lineNum' > lineNum /\ lineNum' > LastLine
           /\ ~AtEnd => pos' = NextRow /\ pos' > pos /\ lineNum' = input[pos'].upto
<1>1. /\ Len(input) \in Nat /\ pos \in Nat /\ pos <= Len(input) /\ LastLine \in Nat
      /\ \A i \in 1..Len(input) : input[i].upto \in Nat
  BY CsvInputFacts
<1>2. /\ NextRow \in (pos + 1)..(Len(input) + 1)
      /\ ~AtEnd => NextRow \in 1..Len(input)
  BY NextRowFacts
<1>3. pos' = Min({NextRow, Len(input)})
  BY DEF ReadRecord
<1>4. pos' \in {NextRow, Len(input)} /\ pos' <= NextRow /\ pos' <= Len(input)
  <2>1. {NextRow, Len(input)} \in SUBSET Nat /\ {NextRow, Len(input)} # {}
    BY <1>1, <1>2
  <2>. QED BY <2>1, <1>3, MinFacts
<1>5. AtEnd => pos' = Len(input)
  BY <1>1, <1>2, <1>4 DEF AtEnd
<1>6. ~AtEnd => pos' = NextRow
  BY <1>1, <1>2, <1>4 DEF AtEnd
<1>7. Max({lineNum, LastLine}) \in Nat /\ Max({lineNum, LastLine}) >= lineNum
      /\ Max({lineNum, LastLine}) >= LastLine
  BY <1>1, MaxOfTwo
<1>8. lineNum' = IF AtEnd THEN Max({lineNum, LastLine}) + 1 ELSE input[NextRow].upto
  BY DEF ReadRecord, NewLineNum
<1>9. CASE AtEnd
  BY <1>9, <1>1, <1>5, <1>7, <1>8
<1>10. CASE ~AtEnd
  BY <1>10, <1>1, <1>2, <1>6, <1>8
<1>. QED BY <1>9, <1>10

(* As long as each line is a row, one more row is one more line. *)
LEMMA JumpFacts ==
    ASSUME Types, format = "csv", lineNum \in Nat, Plain, InStep, ReadRecord, UNCHANGED config,
           NEW b \in Nat, b <= decl.data, pos < b, ~JustBefore(b)
    PROVE  InStep' /\ pos' < b /\ (AtEnd => Len(input) < b)
<1>1. /\ Len(input) \in Nat /\ DOMAIN input = 1..Len(input)
      /\ pos \in Nat /\ pos <= Len(input) /\ decl.data \in Nat
  BY CsvInputFacts
<1>2. lineNum + 1 < b
  BY DEF JustBefore
<1>3. input' = input
  BY DEF config
<1>4. CASE lineNum >= Len(input)
  <2>1. pos = Len(input)
    BY <1>1, <1>4 DEF InStep
  <2>2. AtEnd
    BY <2>1, NextRowFacts
  <2>3. pos' = Len(input) /\ lineNum' > lineNum /\ lineNum' \in Nat
    BY <2>2, ReadRecordFacts
  <2>4. InStep'
    BY <2>3, <1>1, <1>3, <1>4 DEF InStep
  <2>. QED BY <2>1, <2>3, <2>4
<1>5. CASE lineNum < Len(input)
  <2>1. pos = lineNum
    BY <1>5 DEF InStep
  <2>2. pos + 1 \in 1..Len(input) /\ pos + 1 < decl.data
    BY <2>1, <1>1, <1>2, <1>5
  <2>3. input[pos + 1].cells # <<>> /\ input[pos + 1].upto = pos + 1
    BY <2>2, <1>1 DEF Plain
  <2>4. NextRow = pos + 1 /\ ~AtEnd
    <3>1. /\ NextRow \in (pos + 1)..(Len(input) + 1)
          /\ \A i \in (pos + 1)..Len(input) : i < NextRow => input[i].cells = <<>>
      BY NextRowFacts
    <3>2. pos + 1 \in (pos + 1)..Len(input)
      BY <2>2, <1>1
    <3>. QED BY <3>1, <3>2, <2>2, <2>3, <1>1 DEF AtEnd
  <2>5. pos' = pos + 1 /\ lineNum' = pos + 1
    BY <2>3, <2>4, ReadRecordFacts
  <2>6. InStep'
    BY <2>2, <2>5, <1>3 DEF InStep
  <2>. QED BY <2>1, <2>4, <2>5, <2>6, <1>1, <1>2
<1>. QED BY <1>1, <1>4, <1>5

(* A row that is read is the only one up to there that may be kept. *)
LEMMA KeptRows ==
    ASSUME Types, format = "csv", lineNum \in Nat, AtData, ReadRecord
    PROVE  {k \in decl.data..pos' : Kept(k)} =
               {k \in decl.data..pos : Kept(k)} \cup {k \in {NextRow} : ~AtEnd /\ Kept(k)}
<1>1. /\ Len(input) \in Nat /\ pos \in Nat /\ pos <= Len(input) /\ decl.data \in Nat
  BY CsvInputFacts
<1>2. /\ pos' \in pos..Len(input) /\ pos' \in Nat
      /\ AtEnd => pos' = Len(input)
      /\ ~AtEnd => pos' = NextRow /\ pos' > pos
  BY ReadRecordFacts
<1>3. /\ NextRow \in (pos + 1)..(Len(input) + 1)
      /\ \A i \in (pos + 1)..Len(input) : i < NextRow => input[i].cells = <<>>
      /\ pos = Len(input) => AtEnd
  BY NextRowFacts
<1>4. ASSUME NEW k \in decl.data..pos', Kept(k)
      PROVE  k \in decl.data..pos \/ (k = NextRow /\ ~AtEnd)
  <2>1. CASE k <= pos
    BY <2>1, <1>1
  <2>2. CASE k > pos
    <3>1. k \in (pos + 1)..Len(input)
      BY <2>2, <1>1, <1>2
    <3>2. input[k].cells # <<>>
      BY <1>4 DEF Kept
    <3>3. ~(k < NextRow)
      BY <3>1, <3>2, <1>3
    <3>4. ~AtEnd
      BY <3>1, <3>3, <1>1, <1>3 DEF AtEnd
    <3>. QED BY <3>1, <3>3, <3>4, <1>1, <1>2, <1>3
  <2>. QED BY <2>1, <2>2, <1>1, <1>2
<1>5. ASSUME NEW k \in decl.data..pos PROVE k \in decl.data..pos'
  BY <1>1, <1>2
<1>6. ~AtEnd => NextRow \in decl.data..pos'
  BY <1>1, <1>2, <1>3 DEF AtData
<1>. QED BY <1>4, <1>5, <1>6

(* What was returned stays what it should be while the rows to return do. *)
LEMMA GivenSame ==
    ASSUME UNCHANGED config, UNCHANGED given, GivenAre(decl.data..pos),
           {k \in decl.data..pos' : Kept(k)} = {k \in decl.data..pos : Kept(k)}
    PROVE  GivenAre(decl.data..pos)'
<1>. DEFINE Now == {k \in decl.data..pos : Kept(k)}
            Then == {k \in decl.data'..pos' : Kept(k)'}
<1>1. decl' = decl
  BY DEF config
<1>2. \A i : NodeOf(i)' = NodeOf(i) /\ (Kept(i)' <=> Kept(i))
  BY ConfigFacts
<1>3. Then = Now
  BY <1>1, <1>2
<1>4. Range(given) = {[row |-> i, node |-> NodeOf(i)] : i \in Now}
  BY DEF GivenAre
<1>. HIDE DEF Now
<1>5. Range(given)' = {[row |-> i, node |-> NodeOf(i)'] : i \in Then}
  BY <1>2, <1>3, <1>4
<1>6. \A i, j \in DOMAIN given' : i < j => given'[i].row < given'[j].row
  BY DEF GivenAre
<1>. QED BY <1>5, <1>6 DEF GivenAre

(* As long as the data row is ahead there is nothing to return. *)
LEMMA GivenNone ==
    ASSUME decl'.data \in Nat, pos' \in Nat, pos' < decl'.data, given' = <<>>
    PROVE  GivenAre(decl.data..pos)'
<1>1. {k \in decl'.data..pos' : Kept(k)'} = {}
  OBVIOUS
<1>2. Range(given)' = {} /\ DOMAIN given' = {}
  BY DEF Range
<1>. QED BY <1>1, <1>2 DEF GivenAre

(* A row that is kept is returned as the last one. *)
LEMMA GivenMore ==
    ASSUME Types, format = "csv", UNCHANGED config, lineNum \in Nat,
           given \in Seq(CsvRows), GivenAre(decl.data..pos), AtData, ReadRecord,
           ~AtEnd, Kept(NextRow),
           given' = Append(given, [row |-> NextRow, node |-> NodeOf(NextRow)])
    PROVE  GivenAre(decl.data..pos)'
<1>. DEFINE new == [row |-> NextRow, node |-> NodeOf(NextRow)]
            n == Len(given)
            Now == {k \in decl.data..pos : Kept(k)}
<1>1. /\ Len(input) \in Nat /\ pos \in Nat /\ pos <= Len(input) /\ decl.data \in Nat
  BY CsvInputFacts
<1>2. NextRow \in 1..Len(input) /\ NextRow > pos /\ decl' = decl
  BY <1>1, NextRowFacts DEF config
<1>3. new \in CsvRows
  BY <1>2 DEF CsvRows
<1>4. /\ Len(given') = n + 1 /\ n \in Nat /\ DOMAIN given = 1..n /\ DOMAIN given' = 1..(n + 1)
      /\ given'[n + 1] = new /\ \A i \in 1..n : given'[i] = given[i]
  <2>. HIDE DEF new
  <2>1. given' = Append(given, new)
    BY DEF new
  <2>2. given' \in Seq(CsvRows)
    BY <2>1, <1>3, AppendProperties
  <2>. QED BY <2>1, <2>2, <1>3, AppendProperties, LenProperties
<1>5. \A i : NodeOf(i)' = NodeOf(i) /\ (Kept(i)' <=> Kept(i))
  BY ConfigFacts
<1>6. {k \in decl.data..pos' : Kept(k)} = Now \cup {NextRow}
  BY KeptRows
<1>7. {k \in decl'.data..pos' : Kept(k)'} = Now \cup {NextRow}
  BY <1>2, <1>5, <1>6
<1>8. Range(given) = {[row |-> i, node |-> NodeOf(i)] : i \in Now}
  BY DEF GivenAre
<1>9. ASSUME NEW i \in 1..n PROVE given[i].row \in Nat /\ given[i].row < NextRow
  <2>1. given[i] \in Range(given)
    BY <1>4 DEF Range
  <2>2. PICK k \in Now : given[i] = [row |-> k, node |-> NodeOf(k)]
    BY <2>1, <1>8
  <2>3. k \in Nat /\ k < NextRow
    BY <1>1, <1>2
  <2>. QED BY <2>2, <2>3
<1>10. Range(given') = Range(given) \cup {new}
  BY <1>4 DEF Range
<1>. HIDE DEF Now
<1>11. Range(given') = {[row |-> i, node |-> NodeOf(i)'] : i \in Now \cup {NextRow}}
  BY <1>5, <1>8, <1>10
<1>12. \A i, j \in DOMAIN given' : i < j => given'[i].row < given'[j].row
  <2>. SUFFICES ASSUME NEW i \in 1..(n + 1), NEW j \in 1..(n + 1), i < j
                PROVE  given'[i].row < given'[j].row
    BY <1>4
  <2>1. i \in 1..n
    BY <1>4
  <2>2. CASE j = n + 1
    BY <2>1, <2>2, <1>4, <1>9
  <2>3. CASE j # n + 1
    <3>1. j \in 1..n
      BY <2>3, <1>4
    <3>. QED BY <2>1, <3>1, <1>4 DEF GivenAre
  <2>. QED BY <2>2, <2>3
<1>. QED BY <1>7, <1>11, <1>12 DEF GivenAre

-----------------------------------------------------------------------------
(* Each step of the csv reader preserves its invariant. *)
LEMMA CsvCreateKeeps ==
    ASSUME Types, format = "csv", CsvInv, CsvCreate
    PROVE  Types' /\ CsvInv'
<1>1. /\ pc = "new" /\ pc' = IF CsvValid THEN "idle" ELSE "rejected"
      /\ UNCHANGED <<config, pos, reply, headerChecked, lineNum, given>>
  BY DEF CsvCreate, Create, csvVars
<1>2. CsvTypes /\ (Plain => CsvCalls) /\ (Plain' <=> Plain) /\ CsvRows' = CsvRows
  BY <1>1, ConfigFacts DEF CsvInv
<1>3. Types'
  BY <1>1 DEF Types, config
<1>4. CsvTypes'
  BY <1>1, <1>2 DEF CsvTypes, CsvValid, config
<1>5. Plain' => CsvCalls' /\ ~headerChecked'
  BY <1>1, <1>2 DEF CsvCalls
<1>. QED BY <1>2, <1>3, <1>4, <1>5 DEF CsvInv, RowsAsDeclared

LEMMA CsvReadKeeps ==
    ASSUME Types, format = "csv", CsvInv, CsvRead
    PROVE  Types' /\ CsvInv'
<1>1. /\ pc = "idle" /\ Continuable
      /\ pc' = IF headerChecked THEN "data"
               ELSE IF decl.header = 0 THEN "toData" ELSE "toHeader"
      /\ headerChecked' = TRUE
      /\ UNCHANGED <<config, pos, reply, lineNum, given>>
  BY DEF CsvRead, CanRead, Continuable
<1>2. /\ CsvTypes /\ (Plain => CsvCalls) /\ RowsAsDeclared
      /\ (Plain' <=> Plain) /\ (HeaderFound' <=> HeaderFound) /\ CsvRows' = CsvRows
  BY <1>1, ConfigFacts DEF CsvInv
<1>3. /\ Len(input) \in Nat /\ pos \in Nat /\ pos <= Len(input)
      /\ decl.header \in Nat /\ decl.data \in Nat /\ decl.header < decl.data
  BY <1>1, <1>2, CsvInputFacts DEF CsvTypes
<1>4. Types'
  BY <1>1 DEF Types, config
<1>5. decl' = decl /\ input' = input /\ format' = format /\ Continuable'
  BY <1>1 DEF config, Continuable
<1>6. CASE headerChecked
  <2>1. pc' = "data"
    BY <1>1, <1>6
  <2>2. CsvTypes'
    BY <2>1, <1>1, <1>2, <1>3, <1>5 DEF CsvTypes
  <2>3. ASSUME Plain PROVE CsvCalls'
    <3>1. HeaderFound /\ AtData
      BY <2>3, <1>1, <1>2, <1>6 DEF CsvCalls
    <3>2. GivenAre(decl.data..pos)
      BY <2>3, <3>1, <1>1, <1>2, <1>6 DEF RowsAsDeclared
    <3>3. GivenAre(decl.data..pos)'
      BY <3>2, <1>1, GivenSame
    <3>. QED BY <2>1, <3>1, <3>3, <1>1, <1>2, <1>5 DEF CsvCalls, AtData
  <2>. QED BY <2>1, <2>2, <2>3, <1>2, <1>4 DEF CsvInv, RowsAsDeclared
<1>7. CASE ~headerChecked
  <2>1. pc' \in {"toData", "toHeader"} /\ (pc' = "toData" <=> decl.header = 0)
    BY <1>1, <1>7
  <2>2. CsvTypes'
    BY <2>1, <1>1, <1>2, <1>3, <1>5 DEF CsvTypes
  <2>3. ASSUME Plain PROVE CsvCalls'
    <3>1. pos = 0 /\ lineNum = 0 /\ given = <<>>
      BY <2>3, <1>2, <1>7 DEF CsvCalls
    <3>2. InStep'
      BY <3>1, <1>1, <1>3, <1>5 DEF InStep
    <3>3. pc' = "toData" => HeaderFound
      BY <2>1 DEF HeaderFound
    <3>. QED BY <2>1, <3>1, <3>2, <3>3, <1>1, <1>2, <1>3, <1>5 DEF CsvCalls
  <2>. QED BY <2>1, <2>2, <2>3, <1>2, <1>4 DEF CsvInv, RowsAsDeclared
<1>. QED BY <1>6, <1>7

(* A step on the way to the header or the data row, either of them row b. *)
LEMMA JumpToKeeps ==
    ASSUME Types, format = "csv", CsvTypes,
           NEW b \in Nat, NEW next \in {"header", "data"}, NEW failure \in {"eof", "invalid"},
           pc \in {"toHeader", "toData"},
           JumpTo(b, next, failure), UNCHANGED <<config, headerChecked, given>>
    PROVE  /\ Types' /\ CsvTypes' /\ UNCHANGED given
           /\ \/ pc' = next /\ UNCHANGED <<pos, lineNum, reply>> /\ JustBefore(b)
              \/ pc' = pc /\ UNCHANGED reply /\ ReadRecord /\ ~JustBefore(b)
              \/ pc' = "idle" /\ reply'.kind = failure /\ ReadRecord /\ AtEnd /\ ~JustBefore(b)
<1>1. \/ pc' = next /\ UNCHANGED <<pos, lineNum, reply>> /\ JustBefore(b)
      \/ pc' = pc /\ UNCHANGED reply /\ ReadRecord /\ ~JustBefore(b)
      \/ pc' = "idle" /\ reply'.kind = failure /\ ReadRecord /\ AtEnd /\ ~JustBefore(b)
  BY DEF JumpTo, Reply
<1>2. pos' \in 0..Len(input) /\ lineNum' \in Nat
  <2>1. CASE UNCHANGED <<pos, lineNum>>
    BY <2>1 DEF Types, CsvTypes
  <2>2. CASE ReadRecord
    <3>1. pos' \in pos..Len(input) /\ pos' \in Nat /\ lineNum' \in Nat
      BY <2>2, ReadRecordFacts DEF CsvTypes
    <3>. QED BY <3>1, CsvInputFacts
  <2>. QED BY <2>1, <2>2, <1>1
<1>3. decl' = decl /\ input' = input /\ CsvRows' = CsvRows
  BY ConfigFacts DEF config
<1>4. Types'
  BY <1>1, <1>2, <1>3 DEF Types, config
<1>5. decl.header < decl.data
  BY DEF CsvTypes
<1>6. pc' \in {"idle", "toHeader", "header", "toData", "data"}
  BY <1>1
<1>7. CsvTypes'
  BY <1>2, <1>3, <1>5, <1>6 DEF CsvTypes
<1>. QED BY <1>1, <1>4, <1>7

LEMMA JumpToHeaderKeeps ==
    ASSUME Types, format = "csv", CsvInv, JumpToHeader
    PROVE  Types' /\ CsvInv'
<1>1. /\ pc = "toHeader" /\ JumpTo(decl.header, "header", "invalid")
      /\ UNCHANGED <<config, headerChecked, given>>
  BY DEF JumpToHeader
<1>2. /\ Len(input) \in Nat /\ pos \in Nat /\ pos <= Len(input)
      /\ decl.header \in Nat /\ decl.data \in Nat
  BY CsvInputFacts
<1>3. /\ CsvTypes /\ (Plain => CsvCalls)
      /\ (Plain' <=> Plain) /\ (HeaderFound' <=> HeaderFound)
      /\ decl' = decl /\ input' = input
  BY <1>1, ConfigFacts DEF CsvInv, config
<1>4. decl.header < decl.data /\ lineNum \in Nat
  BY <1>1, <1>3 DEF CsvTypes
<1>5. /\ Types' /\ CsvTypes' /\ UNCHANGED given
      /\ \/ pc' = "header" /\ UNCHANGED <<pos, lineNum, reply>> /\ JustBefore(decl.header)
         \/ pc' = pc /\ UNCHANGED reply /\ ReadRecord /\ ~JustBefore(decl.header)
         \/ /\ pc' = "idle" /\ reply'.kind = "invalid" /\ ReadRecord /\ AtEnd
            /\ ~JustBefore(decl.header)
  BY <1>1, <1>2, <1>3, JumpToKeeps
<1>6. CASE ~Plain
  BY <1>5, <1>6, <1>3 DEF CsvInv, RowsAsDeclared
<1>7. CASE Plain
  <2>1. /\ decl.header # 0 /\ InStep /\ pos < decl.header /\ given = <<>> /\ Continuable
        /\ headerChecked
    BY <1>7, <1>1, <1>3 DEF CsvCalls
  <2>2. CASE pc' = "header" /\ UNCHANGED <<pos, lineNum, reply>> /\ JustBefore(decl.header)
    <3>1. InStep' /\ Continuable' /\ JustBefore(decl.header)'
      BY <2>1, <2>2, <1>3 DEF InStep, Continuable, JustBefore
    <3>2. CsvCalls'
      BY <2>1, <2>2, <3>1, <1>1, <1>3 DEF CsvCalls
    <3>. QED BY <2>2, <3>2, <1>5 DEF CsvInv, RowsAsDeclared
  <2>3. CASE pc' = pc /\ UNCHANGED reply /\ ReadRecord /\ ~JustBefore(decl.header)
    <3>1. InStep' /\ pos' < decl.header
      BY <2>1, <2>3, <1>1, <1>2, <1>4, <1>7, JumpFacts
    <3>2. CsvCalls'
      BY <2>1, <2>3, <3>1, <1>1, <1>3 DEF CsvCalls, Continuable
    <3>. QED BY <2>3, <3>2, <1>1, <1>5 DEF CsvInv, RowsAsDeclared
  <2>4. CASE /\ pc' = "idle" /\ reply'.kind = "invalid" /\ ReadRecord /\ AtEnd
             /\ ~JustBefore(decl.header)
    <3>1. Len(input) < decl.header
      BY <2>1, <2>4, <1>1, <1>2, <1>4, <1>7, JumpFacts
    <3>2. ~HeaderFound
      BY <2>1, <3>1, <1>2 DEF HeaderFound
    <3>3. ~Continuable'
      BY <2>4 DEF Continuable, IsContinuableError
    <3>4. CsvCalls'
      BY <2>1, <2>4, <3>3, <1>1 DEF CsvCalls
    <3>5. RowsAsDeclared'
      BY <2>1, <2>4, <3>2, <1>3, <1>5 DEF RowsAsDeclared
    <3>. QED BY <3>4, <3>5, <1>5 DEF CsvInv
  <2>. QED BY <2>2, <2>3, <2>4, <1>5
<1>. QED BY <1>6, <1>7

LEMMA JumpToDataKeeps ==
    ASSUME Types, format = "csv", CsvInv, JumpToData
    PROVE  Types' /\ CsvInv'
<1>1. /\ pc = "toData" /\ JumpTo(decl.data, "data", "eof")
      /\ UNCHANGED <<config, headerChecked, given>>
  BY DEF JumpToData
<1>2. /\ Len(input) \in Nat /\ pos \in Nat /\ pos <= Len(input)
      /\ decl.header \in Nat /\ decl.data \in Nat
  BY CsvInputFacts
<1>3. /\ CsvTypes /\ (Plain => CsvCalls)
      /\ (Plain' <=> Plain) /\ (HeaderFound' <=> HeaderFound)
      /\ decl' = decl /\ input' = input
  BY <1>1, ConfigFacts DEF CsvInv, config
<1>4. lineNum \in Nat
  BY <1>3 DEF CsvTypes
<1>5. /\ Types' /\ CsvTypes' /\ UNCHANGED given
      /\ \/ pc' = "data" /\ UNCHANGED <<pos, lineNum, reply>> /\ JustBefore(decl.data)
         \/ pc' = pc /\ UNCHANGED reply /\ ReadRecord /\ ~JustBefore(decl.data)
         \/ /\ pc' = "idle" /\ reply'.kind = "eof" /\ ReadRecord /\ AtEnd
            /\ ~JustBefore(decl.data)
  BY <1>1, <1>2, <1>3, JumpToKeeps
<1>6. CASE ~Plain
  BY <1>5, <1>6, <1>3 DEF CsvInv, RowsAsDeclared
<1>7. CASE Plain
  <2>1. HeaderFound /\ InStep /\ pos < decl.data /\ given = <<>> /\ Continuable /\ headerChecked
    BY <1>7, <1>1, <1>3 DEF CsvCalls
  <2>2. CASE pc' = "data" /\ UNCHANGED <<pos, lineNum, reply>> /\ JustBefore(decl.data)
    <3>1. AtData'
      BY <2>1, <2>2, <1>2, <1>3, <1>4 DEF InStep, AtData, JustBefore
    <3>2. GivenAre(decl.data..pos)'
      BY <2>1, <2>2, <1>1, <1>2, <1>3, GivenNone
    <3>3. CsvCalls'
      BY <2>1, <2>2, <3>1, <3>2, <1>1, <1>3 DEF CsvCalls, Continuable
    <3>. QED BY <2>2, <3>3, <1>5 DEF CsvInv, RowsAsDeclared
  <2>3. CASE pc' = pc /\ UNCHANGED reply /\ ReadRecord /\ ~JustBefore(decl.data)
    <3>1. InStep' /\ pos' < decl.data
      BY <2>1, <2>3, <1>1, <1>2, <1>4, <1>7, JumpFacts
    <3>2. CsvCalls'
      BY <2>1, <2>3, <3>1, <1>1, <1>3 DEF CsvCalls, Continuable
    <3>. QED BY <2>3, <3>2, <1>1, <1>5 DEF CsvInv, RowsAsDeclared
  <2>4. CASE /\ pc' = "idle" /\ reply'.kind = "eof" /\ ReadRecord /\ AtEnd
             /\ ~JustBefore(decl.data)
    <3>1. pos' < decl.data /\ pos' \in Nat
      BY <2>1, <2>4, <1>1, <1>2, <1>4, <1>7, JumpFacts, ReadRecordFacts
    <3>2. ~Continuable'
      BY <2>4 DEF Continuable, IsContinuableError
    <3>3. CsvCalls'
      BY <2>1, <2>4, <3>2, <1>1 DEF CsvCalls
    <3>4. GivenAre(decl.data..pos)'
      BY <2>1, <3>1, <1>1, <1>2, <1>3, GivenNone
    <3>5. RowsAsDeclared'
      BY <2>1, <2>4, <3>4, <1>3 DEF RowsAsDeclared
    <3>. QED BY <3>3, <3>5, <1>5 DEF CsvInv
  <2>. QED BY <2>2, <2>3, <2>4, <1>5
<1>. QED BY <1>6, <1>7

(* Just before a row up to the data row, that row is the next, or there is none. *)
LEMMA JustBeforeFacts ==
    ASSUME Types, format = "csv", lineNum \in Nat, Plain, InStep,
           NEW h \in Nat, h < decl.data, pos < h, JustBefore(h)
    PROVE  \/ AtEnd /\ Len(input) < h
           \/ ~AtEnd /\ NextRow = h /\ h \in 1..Len(input) /\ input[h].upto = h
<1>1. /\ Len(input) \in Nat /\ DOMAIN input = 1..Len(input)
      /\ pos \in Nat /\ pos <= Len(input) /\ decl.data \in Nat
  BY CsvInputFacts
<1>2. CASE lineNum >= Len(input)
  <2>1. pos = Len(input)
    BY <1>2 DEF InStep
  <2>. QED BY <2>1, <1>1, NextRowFacts
<1>3. CASE lineNum < Len(input)
  <2>0. lineNum >= h - 1
    BY DEF JustBefore
  <2>1. pos = lineNum /\ lineNum >= h - 1
    BY <2>0, <1>3 DEF InStep
  <2>2. pos = h - 1 /\ h \in 1..Len(input)
    BY <2>1, <1>1, <1>3
  <2>3. input[h].cells # <<>> /\ input[h].upto = h
    BY <2>2, <1>1 DEF Plain
  <2>4. /\ NextRow \in (pos + 1)..(Len(input) + 1)
        /\ \A i \in (pos + 1)..Len(input) : i < NextRow => input[i].cells = <<>>
    BY NextRowFacts
  <2>5. NextRow = h
    BY <2>2, <2>3, <2>4, <1>1
  <2>. QED BY <2>2, <2>3, <2>5, <1>1 DEF AtEnd
<1>. QED BY <1>1, <1>2, <1>3

LEMMA CheckHeaderKeeps ==
    ASSUME Types, format = "csv", CsvInv, CheckHeader
    PROVE  Types' /\ CsvInv'
<1>. DEFINE matches == HasRow /\ HeaderMatches(Row.cells)
<1>1. /\ pc = "header" /\ ReadRecord
      /\ UNCHANGED <<config, headerChecked, given>>
      /\ matches => pc' = "toData" /\ UNCHANGED reply
      /\ ~matches => pc' = "idle" /\ reply'.kind = "invalid"
  BY DEF CheckHeader, Reply
<1>2. /\ Len(input) \in Nat /\ DOMAIN input = 1..Len(input)
      /\ pos \in Nat /\ pos <= Len(input)
      /\ decl.header \in Nat /\ decl.data \in Nat
      /\ \A i \in 1..Len(input) : input[i].bad \in BOOLEAN
  BY CsvInputFacts
<1>3. /\ CsvTypes /\ (Plain => CsvCalls)
      /\ (Plain' <=> Plain) /\ (HeaderFound' <=> HeaderFound)
      /\ decl' = decl /\ input' = input /\ CsvRows' = CsvRows
  BY <1>1, ConfigFacts DEF CsvInv, config
<1>4. decl.header < decl.data /\ lineNum \in Nat
  BY <1>1, <1>3 DEF CsvTypes
<1>5. /\ pos' \in pos..Len(input) /\ pos' \in Nat /\ lineNum' \in Nat
      /\ ~AtEnd => pos' = NextRow /\ pos' > pos /\ lineNum' = input[pos'].upto
  BY <1>1, <1>4, ReadRecordFacts
<1>6. Types'
  BY <1>1, <1>2, <1>3, <1>5 DEF Types, config
<1>7. CsvTypes'
  BY <1>1, <1>3, <1>4, <1>5 DEF CsvTypes
<1>8. CASE ~Plain
  BY <1>6, <1>7, <1>8, <1>3 DEF CsvInv, RowsAsDeclared
<1>9. CASE Plain
  <2>1. /\ decl.header # 0 /\ InStep /\ pos < decl.header /\ given = <<>> /\ Continuable
        /\ headerChecked /\ JustBefore(decl.header)
    BY <1>9, <1>1, <1>3 DEF CsvCalls
  <2>2. \/ AtEnd /\ Len(input) < decl.header
        \/ /\ ~AtEnd /\ NextRow = decl.header
           /\ decl.header \in 1..Len(input) /\ input[decl.header].upto = decl.header
    BY <2>1, <1>2, <1>4, <1>9, JustBeforeFacts
  <2>3. matches <=> HeaderFound
    <3>1. CASE AtEnd /\ Len(input) < decl.header
      BY <3>1, <2>1, <1>2 DEF HeaderFound, HasRow
    <3>2. CASE ~AtEnd /\ NextRow = decl.header /\ decl.header \in 1..Len(input)
      BY <3>2, <2>1, <1>2 DEF HeaderFound, HasRow, Row
    <3>. QED BY <2>2, <3>1, <3>2
  <2>4. CASE matches
    <3>1. ~AtEnd
      BY <2>4 DEF HasRow
    <3>2. pos' = decl.header /\ lineNum' = decl.header
      BY <2>2, <3>1, <1>5
    <3>3. InStep' /\ pos' < decl.data
      BY <3>2, <1>2, <1>3, <1>4, <1>5 DEF InStep
    <3>4. CsvCalls'
      BY <2>1, <2>3, <2>4, <3>3, <1>1, <1>3 DEF CsvCalls, Continuable
    <3>. QED BY <2>4, <3>4, <1>1, <1>6, <1>7 DEF CsvInv, RowsAsDeclared
  <2>5. CASE ~matches
    <3>1. ~Continuable'
      BY <2>5, <1>1 DEF Continuable, IsContinuableError
    <3>2. CsvCalls'
      BY <2>1, <2>5, <3>1, <1>1 DEF CsvCalls
    <3>3. RowsAsDeclared'
      BY <2>1, <2>3, <2>5, <1>1, <1>3 DEF RowsAsDeclared
    <3>. QED BY <3>2, <3>3, <1>6, <1>7 DEF CsvInv
  <2>. QED BY <2>4, <2>5
<1>. QED BY <1>8, <1>9

(* A row of the data: kept and returned, or passed over. *)
LEMMA ReadDataKeeps ==
    ASSUME Types, format = "csv", CsvInv, pc = "data", ReadRecord,
           UNCHANGED <<config, headerChecked>>,
           reply'.kind \in {"none", "node", "error", "eof", "invalid"},
           pc' \in {"idle", "data"}, pc' = "data" => UNCHANGED reply,
           pc' = "idle" => reply'.kind # "invalid",
           \/ (AtEnd \/ ~Kept(NextRow)) /\ UNCHANGED given
           \/ /\ ~AtEnd /\ Kept(NextRow)
              /\ given' = Append(given, [row |-> NextRow, node |-> NodeOf(NextRow)])
    PROVE  Types' /\ CsvInv'
<1>1. /\ Len(input) \in Nat /\ pos \in Nat /\ pos <= Len(input) /\ decl.data \in Nat
  BY CsvInputFacts
<1>2. /\ CsvTypes /\ (Plain => CsvCalls)
      /\ (Plain' <=> Plain) /\ (HeaderFound' <=> HeaderFound)
      /\ decl' = decl /\ input' = input /\ CsvRows' = CsvRows
  BY ConfigFacts DEF CsvInv, config
<1>3. decl.header < decl.data /\ lineNum \in Nat /\ given \in Seq(CsvRows)
  BY <1>2 DEF CsvTypes
<1>4. /\ pos' \in pos..Len(input) /\ pos' \in Nat /\ lineNum' \in Nat
      /\ AtEnd => pos' = Len(input)
      /\ ~AtEnd => pos' = NextRow /\ pos' > pos
  BY <1>3, ReadRecordFacts
<1>5. Types'
  BY <1>1, <1>2, <1>4 DEF Types, config
<1>6. given' \in Seq(CsvRows)
  <2>1. CASE ~AtEnd /\ given' = Append(given, [row |-> NextRow, node |-> NodeOf(NextRow)])
    <3>. DEFINE new == [row |-> NextRow, node |-> NodeOf(NextRow)]
    <3>1. NextRow \in 1..Len(input)
      BY <2>1, NextRowFacts
    <3>2. new \in CsvRows
      BY <3>1 DEF CsvRows
    <3>3. given' = Append(given, new)
      BY <2>1
    <3>. HIDE DEF new
    <3>. QED BY <3>2, <3>3, <1>3, AppendProperties
  <2>. QED BY <2>1, <1>3
<1>7. CsvTypes'
  BY <1>2, <1>3, <1>4, <1>6 DEF CsvTypes
<1>8. CASE ~Plain
  BY <1>2, <1>5, <1>7, <1>8 DEF CsvInv, RowsAsDeclared
<1>9. CASE Plain
  <2>1. HeaderFound /\ AtData /\ GivenAre(decl.data..pos) /\ Continuable /\ headerChecked
    BY <1>2, <1>9 DEF CsvCalls
  <2>2. AtData'
    BY <2>1, <1>1, <1>2, <1>4 DEF AtData
  <2>3. GivenAre(decl.data..pos)'
    <3>1. CASE (AtEnd \/ ~Kept(NextRow)) /\ UNCHANGED given
      <4>1. {k \in decl.data..pos' : Kept(k)} = {k \in decl.data..pos : Kept(k)}
        BY <3>1, <2>1, <1>3, KeptRows
      <4>. QED BY <3>1, <4>1, <2>1, GivenSame
    <3>2. CASE /\ ~AtEnd /\ Kept(NextRow)
               /\ given' = Append(given, [row |-> NextRow, node |-> NodeOf(NextRow)])
      BY <3>2, <2>1, <1>3, GivenMore
    <3>. QED BY <3>1, <3>2
  <2>4. pc' = "data" => Continuable'
    BY <2>1 DEF Continuable
  <2>5. CsvCalls'
    BY <2>1, <2>2, <2>3, <2>4, <1>2 DEF CsvCalls
  <2>6. RowsAsDeclared'
    BY <2>1, <2>3, <1>2 DEF RowsAsDeclared
  <2>. QED BY <2>5, <2>6, <1>5, <1>7 DEF CsvInv
<1>. QED BY <1>8, <1>9

LEMMA EndOfRowsKeeps ==
    ASSUME Types, format = "csv", CsvInv, EndOfRows
    PROVE  Types' /\ CsvInv'
<1>1. /\ pc = "data" /\ AtEnd /\ ReadRecord /\ pc' = "idle"
      /\ reply'.kind \in {"eof", "error"}
      /\ UNCHANGED <<config, headerChecked>> /\ UNCHANGED given
  BY DEF EndOfRows, Reply
<1>. QED BY <1>1, ReadDataKeeps

LEMMA BadRowKeeps ==
    ASSUME Types, format = "csv", CsvInv, BadRow
    PROVE  Types' /\ CsvInv'
<1>1. /\ pc = "data" /\ ~AtEnd /\ Row.bad /\ ReadRecord /\ pc' = "idle"
      /\ reply'.kind = "error"
      /\ given' = Append(given, [row |-> NextRow, node |-> NoNode])
      /\ UNCHANGED <<config, headerChecked>>
  BY DEF BadRow, Reply
<1>2. input[NextRow].bad /\ input[NextRow].cells # <<>>
  BY <1>1, NextRowFacts DEF Row
<1>3. Kept(NextRow) /\ NodeOf(NextRow) = NoNode
  BY <1>2 DEF Kept, NodeOf
<1>. QED BY <1>1, <1>3, ReadDataKeeps

LEMMA DataRowKeeps ==
    ASSUME Types, format = "csv", CsvInv, DataRow
    PROVE  Types' /\ CsvInv'
<1>1. /\ pc = "data" /\ ~AtEnd /\ ~Row.bad /\ ReadRecord
      /\ UNCHANGED <<config, headerChecked>>
  BY DEF DataRow, HasRow
<1>2. ~input[NextRow].bad /\ input[NextRow].cells # <<>>
  BY <1>1, NextRowFacts DEF Row
<1>3. NodeOf(NextRow) = RecordToNode(Row.cells)
  BY <1>2 DEF NodeOf, Row
<1>4. Kept(NextRow) <=> Passes(RecordToNode(Row.cells))
  BY <1>2, <1>3 DEF Kept
<1>5. CASE Passes(RecordToNode(Row.cells))
  <2>1. /\ pc' = "idle" /\ reply'.kind = "node"
        /\ given' = Append(given, [row |-> NextRow, node |-> NodeOf(NextRow)])
    BY <1>3, <1>5 DEF DataRow, Reply
  <2>. QED BY <2>1, <1>1, <1>4, <1>5, ReadDataKeeps
<1>6. CASE ~Passes(RecordToNode(Row.cells))
  <2>1. UNCHANGED pc /\ UNCHANGED reply /\ UNCHANGED given
    BY <1>6 DEF DataRow
  <2>2. reply'.kind \in {"none", "node", "error", "eof", "invalid"}
    BY <2>1 DEF Types
  <2>3. pc' = "data"
    BY <1>1, <2>1
  <2>. QED BY <2>1, <2>2, <2>3, <1>1, <1>4, <1>6, ReadDataKeeps
<1>. QED BY <1>5, <1>6

-----------------------------------------------------------------------------
(* What an appended element adds to a sequence. *)
LEMMA AppendFacts ==
    ASSUME NEW S, NEW s \in Seq(S), NEW x
    PROVE  /\ Append(s, x) \in Seq(S \cup {x})
           /\ Append(s, x) \in Seq(Range(Append(s, x)))
           /\ Append(s, x) # <<>> /\ Last(Append(s, x)) = x
           /\ Len(s) \in Nat /\ Len(Append(s, x)) = Len(s) + 1
           /\ DOMAIN s = 1..Len(s) /\ DOMAIN Append(s, x) = 1..(Len(s) + 1)
           /\ \A i \in 1..Len(s) : Append(s, x)[i] = s[i]
           /\ Append(s, x)[Len(s) + 1] = x
           /\ Range(Append(s, x)) = Range(s) \cup {x}
<1>1. /\ Len(s) \in Nat /\ DOMAIN s = 1..Len(s)
      /\ \A i \in 1..Len(s) : s[i] \in S
  BY LenProperties, ElementOfSeq
<1>2. s \in Seq(S \cup {x})
  BY SeqDef
<1>3. /\ Append(s, x) \in Seq(S \cup {x})
      /\ Len(Append(s, x)) = Len(s) + 1
      /\ \A i \in 1..Len(s) : Append(s, x)[i] = s[i]
      /\ Append(s, x)[Len(s) + 1] = x
  BY <1>2, AppendProperties
<1>4. DOMAIN Append(s, x) = 1..(Len(s) + 1)
  BY <1>3, LenProperties
<1>5. Range(Append(s, x)) = Range(s) \cup {x}
  BY <1>1, <1>3, <1>4 DEF Range
<1>. DEFINE t == Append(s, x)
<1>6. t \in [1..(Len(s) + 1) -> Range(t)]
  <2>1. t \in Seq(S \cup {x}) /\ DOMAIN t = 1..(Len(s) + 1)
    BY <1>3, <1>4
  <2>. HIDE DEF t
  <2>2. t = [i \in DOMAIN t |-> t[i]]
    BY <2>1
  <2>. QED BY <2>1, <2>2 DEF Range
<1>7. t \in Seq(Range(t))
  <2>. HIDE DEF t
  <2>. QED BY <1>1, <1>6
<1>8. t # <<>>
  <2>1. Len(t) # 0
    BY <1>1, <1>3
  <2>. HIDE DEF t
  <2>. QED BY <2>1
<1>. QED BY <1>1, <1>3, <1>4, <1>5, <1>7, <1>8 DEF Last

(* A fixed-length input and the declaration it is read with. *)
LEMMA LinesFacts ==
    ASSUME Types, format = "fixed-length"
    PROVE  /\ Len(input) \in Nat
           /\ pos \in Nat /\ pos <= Len(input)
           /\ Len(decl.envelopes) \in Nat /\ DOMAIN decl.envelopes = 1..Len(decl.envelopes)
           /\ 1 \in DOMAIN decl.envelopes
           /\ \A e \in DOMAIN decl.envelopes :
                 decl.envelopes[e].rows \in Nat /\ decl.envelopes[e].notTarget \in BOOLEAN
<1>1. /\ "fixed-length" \in Formats /\ decl \in Decls["fixed-length"]
      /\ input \in Inputs["fixed-length"] /\ pos \in 0..Len(input)
  BY DEF Types
<1>. DEFINE es == decl.envelopes
<1>2. /\ es \in Seq(Range(es)) /\ es # <<>>
      /\ \A e \in Range(es) : e.rows \in Nat /\ e.notTarget \in BOOLEAN
      /\ input \in Seq(Range(input))
  BY <1>1, FixedLengthAssumption
<1>. HIDE DEF es
<1>3. Len(input) \in Nat /\ Len(es) \in Nat /\ DOMAIN es = 1..Len(es)
  BY <1>2, LenProperties
<1>4. Len(es) # 0
  BY <1>2, EmptySeq
<1>5. \A e \in DOMAIN es : es[e] \in Range(es)
  BY DEF Range
<1>6. 1 \in DOMAIN es /\ \A e \in DOMAIN es : es[e].rows \in Nat /\ es[e].notTarget \in BOOLEAN
  BY <1>2, <1>3, <1>4, <1>5
<1>. QED BY <1>1, <1>3, <1>6 DEF es

(* The next line is the first one that is not empty. *)
LEMMA NextLineFacts ==
    ASSUME Types, format = "fixed-length"
    PROVE  /\ NextLine \in (pos + 1)..(Len(input) + 1)
           /\ ~AtEndOfLines => NextLine \in 1..Len(input) /\ input[NextLine] # EmptyLine
           /\ \A i \in (pos + 1)..Len(input) : i < NextLine => input[i] = EmptyLine
<1>. DEFINE S == {i \in (pos + 1)..Len(input) : input[i] # EmptyLine} \cup {Len(input) + 1}
<1>1. Len(input) \in Nat /\ pos \in Nat /\ pos <= Len(input)
  BY LinesFacts
<1>2. S \in SUBSET Nat /\ S # {}
  BY <1>1
<1>3. \A k \in S : k \in (pos + 1)..(Len(input) + 1)
  BY <1>1
<1>4. \A k \in S : k <= Len(input) => input[k] # EmptyLine
  BY <1>1
<1>5. \A i \in (pos + 1)..Len(input) : input[i] # EmptyLine => i \in S
  OBVIOUS
<1>. HIDE DEF S
<1>6. Min(S) \in S /\ \A k \in S : Min(S) <= k
  BY <1>2, MinFacts
<1>7. NextLine = Min(S)
  BY DEF NextLine, S
<1>8. ASSUME NEW i \in (pos + 1)..Len(input), i < NextLine PROVE input[i] = EmptyLine
  <2>1. i \in Nat
    BY <1>1
  <2>2. NextLine \in Nat /\ \A k \in S : NextLine <= k
    BY <1>2, <1>6, <1>7
  <2>3. i \notin S
    BY <2>1, <2>2, <1>8
  <2>. QED BY <2>3, <1>5
<1>. QED BY <1>1, <1>3, <1>4, <1>6, <1>7, <1>8 DEF AtEndOfLines

(* The lines that are not empty grow by the one that is read, behind them all. *)
LEMMA NonEmptyFacts ==
    ASSUME Types, format = "fixed-length", UNCHANGED config
    PROVE  /\ NonEmptyLines \subseteq Nat
           /\ pos' = pos => NonEmptyLines' = NonEmptyLines
           /\ AtEndOfLines /\ pos' = Len(input) => NonEmptyLines' = NonEmptyLines
           /\ ~AtEndOfLines /\ pos' = NextLine =>
                 NonEmptyLines' = NonEmptyLines \cup {NextLine}
           /\ \A k \in NonEmptyLines : k < NextLine
<1>1. /\ Len(input) \in Nat /\ pos \in Nat /\ pos <= Len(input)
      /\ NextLine \in (pos + 1)..(Len(input) + 1)
      /\ ~AtEndOfLines => NextLine \in 1..Len(input) /\ input[NextLine] # EmptyLine
      /\ \A i \in (pos + 1)..Len(input) : i < NextLine => input[i] = EmptyLine
  BY LinesFacts, NextLineFacts
<1>2. NonEmptyLines' = {i \in 1..pos' : input[i] # EmptyLine}
  BY DEF NonEmptyLines, config
<1>3. CASE AtEndOfLines /\ pos' = Len(input)
  <2>1. \A i \in (pos + 1)..Len(input) : input[i] = EmptyLine
    BY <1>1, <1>3 DEF AtEndOfLines
  <2>2. \A i \in 1..Len(input) : i \in 1..pos \/ i \in (pos + 1)..Len(input)
    BY <1>1
  <2>3. \A i \in 1..pos : i \in 1..Len(input)
    BY <1>1
  <2>. QED BY <2>1, <2>2, <2>3, <1>1, <1>2, <1>3 DEF NonEmptyLines
<1>4. CASE ~AtEndOfLines /\ pos' = NextLine
  <2>1. \A i \in 1..NextLine : i \in 1..pos \/ i = NextLine \/ input[i] = EmptyLine
    BY <1>1, <1>4
  <2>2. \A i \in 1..pos : i \in 1..NextLine
    BY <1>1
  <2>3. NextLine \in 1..NextLine
    BY <1>1
  <2>. QED BY <2>1, <2>2, <2>3, <1>1, <1>2, <1>4 DEF NonEmptyLines
<1>. QED BY <1>1, <1>2, <1>3, <1>4 DEF NonEmptyLines

(* The last of n pieces P takes one more line, behind all others, and perhaps *)
(* another one is begun; there are then m pieces Q.                           *)
Grows(P, Q, n, m, l) ==
    /\ n \in Nat \ {0} /\ m \in {n, n + 1} /\ l \in Nat
    /\ DOMAIN P = 1..n /\ DOMAIN Q = 1..m
    /\ \A i \in 1..n : P[i] \in Seq(Nat)
    /\ \A i \in 1..n : i # n => Q[i] = P[i]
    /\ Q[n] = Append(P[n], l)
    /\ m # n => Q[m] = <<>>
    /\ InInputOrder(P)
    /\ \A k \in LinesIn(P) : k < l

(* Then there is one more line, and the lines are still in order. *)
LEMMA PiecesGrow ==
    ASSUME NEW P, NEW Q, NEW n, NEW m, NEW l, Grows(P, Q, n, m, l)
    PROVE  InInputOrder(Q) /\ LinesIn(Q) = LinesIn(P) \cup {l}
<1>0. /\ n \in Nat \ {0} /\ m \in {n, n + 1} /\ l \in Nat
      /\ DOMAIN P = 1..n /\ DOMAIN Q = 1..m
      /\ \A i \in 1..n : P[i] \in Seq(Nat)
      /\ \A i \in 1..n : i # n => Q[i] = P[i]
      /\ Q[n] = Append(P[n], l)
      /\ m # n => Q[m] = <<>>
      /\ InInputOrder(P)
      /\ \A k \in LinesIn(P) : k < l
  BY DEF Grows
<1>. USE <1>0
<1>1. \A i \in 1..n : DOMAIN P[i] = 1..Len(P[i]) /\ Len(P[i]) \in Nat /\ Range(P[i]) \subseteq Nat
  BY LenProperties, ElementOfSeq DEF Range
<1>2. n \in 1..n
  OBVIOUS
<1>. DEFINE last == Len(P[n])
<1>3. /\ last \in Nat /\ DOMAIN Q[n] = 1..(last + 1) /\ DOMAIN P[n] = 1..last
      /\ \A k \in 1..last : Q[n][k] = P[n][k]
      /\ Q[n][last + 1] = l
      /\ Range(Q[n]) = Range(P[n]) \cup {l}
  BY <1>2, AppendFacts
<1>4. m # n => Range(Q[m]) = {} /\ DOMAIN Q[m] = {}
  BY DEF Range
<1>5. \A i \in 1..m : i \in 1..n \/ (i = m /\ m # n)
  OBVIOUS
<1>6. \A i \in 1..n : i \in 1..m
  OBVIOUS
<1>7. ASSUME NEW i \in 1..n, NEW k \in DOMAIN P[i] PROVE P[i][k] \in Nat /\ P[i][k] < l
  <2>1. P[i][k] \in Range(P[i])
    BY DEF Range
  <2>2. P[i][k] \in LinesIn(P)
    BY <2>1 DEF LinesIn
  <2>. QED BY <2>1, <2>2, <1>1
<1>8. LinesIn(Q) = LinesIn(P) \cup {l}
  <2>1. ASSUME NEW x \in LinesIn(Q) PROVE x \in LinesIn(P) \cup {l}
    <3>1. PICK i \in 1..m : x \in Range(Q[i])
      BY <2>1 DEF LinesIn
    <3>2. i \in 1..n
      BY <3>1, <1>4, <1>5
    <3>3. x \in Range(P[i]) \cup {l}
      BY <3>1, <3>2, <1>3
    <3>. QED BY <3>2, <3>3 DEF LinesIn
  <2>2. ASSUME NEW x \in LinesIn(P) PROVE x \in LinesIn(Q)
    <3>1. PICK i \in 1..n : x \in Range(P[i])
      BY <2>2 DEF LinesIn
    <3>2. x \in Range(Q[i])
      BY <3>1, <1>3
    <3>. QED BY <3>2, <1>6 DEF LinesIn
  <2>3. l \in LinesIn(Q)
    BY <1>2, <1>3, <1>6 DEF LinesIn
  <2>. QED BY <2>1, <2>2, <2>3
<1>9. ASSUME NEW i \in 1..n, NEW k \in DOMAIN Q[i], ~(i = n /\ k = last + 1)
      PROVE  k \in DOMAIN P[i] /\ Q[i][k] = P[i][k]
  <2>1. CASE i = n
    <3>1. k \in 1..(last + 1) /\ k # last + 1
      BY <1>3, <1>9, <2>1
    <3>2. k \in 1..last
      BY <3>1, <1>3
    <3>. QED BY <3>2, <2>1, <1>3
  <2>2. CASE i # n
    BY <1>9, <2>2
  <2>. QED BY <2>1, <2>2
<1>10. InInputOrder(Q)
  <2>. SUFFICES ASSUME NEW i \in 1..m, NEW j \in 1..m,
                       NEW k \in DOMAIN Q[i], NEW h \in DOMAIN Q[j],
                       i < j \/ (i = j /\ k < h)
                PROVE  Q[i][k] < Q[j][h]
    BY DEF InInputOrder
  <2>1. i \in 1..n /\ j \in 1..n
    BY <1>4, <1>5
  <2>2. i = n /\ k = last + 1 => j = n /\ h \in 1..(last + 1) /\ h > k
    BY <2>1, <1>3
  <2>3. ~(i = n /\ k = last + 1)
    BY <2>2, <1>3
  <2>4. k \in DOMAIN P[i] /\ Q[i][k] = P[i][k]
    BY <2>1, <2>3, <1>9
  <2>5. CASE j = n /\ h = last + 1
    BY <2>1, <2>4, <2>5, <1>3, <1>7
  <2>6. CASE ~(j = n /\ h = last + 1)
    <3>1. h \in DOMAIN P[j] /\ Q[j][h] = P[j][h]
      BY <2>1, <2>6, <1>9
    <3>. QED BY <2>1, <2>4, <3>1 DEF InInputOrder
  <2>. QED BY <2>5, <2>6
<1>. QED BY <1>8, <1>10

(* The declaration decides what an envelope is, and the input where it is cut. *)
LEMMA EnvelopeFacts ==
    ASSUME UNCHANGED config
    PROVE  /\ ByRows' <=> ByRows
           /\ \A n : IsTarget(n)' <=> IsTarget(n)
           /\ \A n : IsEnvelope(n)' <=> IsEnvelope(n)
           /\ \A n, after : WellCut(n, after)' <=> WellCut(n, after)
<1>1. decl' = decl /\ input' = input
  BY DEF config
<1>2. \A e, lines : Node(e, lines)' = Node(e, lines)
  BY <1>1 DEF Node, ColumnValues, LineMatch
<1>3. \A n : IsEnvelope(n)' <=> IsEnvelope(n)
  BY <1>1, <1>2 DEF IsEnvelope
<1>4. ByRows' <=> ByRows
  BY <1>1 DEF ByRows
<1>5. ASSUME NEW n, NEW after PROVE WellCut(n, after)' <=> WellCut(n, after)
  BY <1>1, <1>4 DEF WellCut
<1>6. \A n : IsTarget(n)' <=> IsTarget(n)
  BY <1>1 DEF IsTarget
<1>. QED BY <1>3, <1>4, <1>5, <1>6

(* The pieces: the lines of the envelopes, and last those that are taken. *)
LEMMA PiecesFacts ==
    ASSUME FixedLengthTypes
    PROVE  /\ Len(envelopes) \in Nat /\ DOMAIN envelopes = 1..Len(envelopes)
           /\ DOMAIN Pieces = 1..(Len(envelopes) + 1)
           /\ \A i \in 1..Len(envelopes) :
                 Pieces[i] = envelopes[i].lines /\ IsEnvelope(envelopes[i])
           /\ Pieces[Len(envelopes) + 1] = taken
           /\ \A i \in DOMAIN Pieces : Pieces[i] \in Seq(Nat)
<1>. DEFINE n == Len(envelopes)
<1>1. /\ n \in Nat /\ DOMAIN envelopes = 1..n
      /\ \A i \in 1..n : IsEnvelope(envelopes[i])
  <2>1. n \in Nat /\ DOMAIN envelopes = 1..n
    BY LenProperties DEF FixedLengthTypes
  <2>2. \A i \in 1..n : envelopes[i] \in Range(envelopes)
    BY <2>1 DEF Range
  <2>. QED BY <2>1, <2>2 DEF FixedLengthTypes
<1>2. DOMAIN Pieces = 1..(n + 1)
  BY DEF Pieces
<1>3. \A i \in 1..n : Pieces[i] = envelopes[i].lines
  BY <1>1 DEF Pieces
<1>4. Pieces[n + 1] = taken
  BY <1>1 DEF Pieces
<1>5. ASSUME NEW i \in 1..(n + 1) PROVE Pieces[i] \in Seq(Nat)
  <2>1. Pieces[i] \in Seq(1..Len(input))
    <3>1. CASE i = n + 1
      BY <3>1, <1>4 DEF FixedLengthTypes
    <3>2. CASE i # n + 1
      <4>1. i \in 1..n
        BY <3>2, <1>1
      <4>. QED BY <4>1, <1>1, <1>3 DEF IsEnvelope
    <3>. QED BY <3>1, <3>2
  <2>2. DOMAIN Pieces[i] = 1..Len(Pieces[i]) /\ Len(Pieces[i]) \in Nat
    BY <2>1, LenProperties
  <2>3. \A k \in 1..Len(Pieces[i]) : Pieces[i][k] \in Nat
    BY <2>1, ElementOfSeq
  <2>. QED BY <2>1, <2>2, <2>3
<1>. QED BY <1>1, <1>2, <1>3, <1>4, <1>5

(* The lines that were read make up the envelopes and what is taken. *)
Tiled == InInputOrder(Pieces) /\ LinesIn(Pieces) = NonEmptyLines

AllWellCut ==
    \A i \in DOMAIN envelopes : WellCut(envelopes[i], IF i = 1 THEN 1 ELSE envelopes[i - 1].env)

(* One more envelope that is well cut leaves all of them so. *)
LEMMA WellCutMore ==
    ASSUME FixedLengthTypes, UNCHANGED config, AllWellCut, NEW node, WellCut(node, After),
           envelopes' = Append(envelopes, node)
    PROVE  AllWellCut'
<1>. DEFINE n == Len(envelopes)
<1>1. /\ n \in Nat /\ DOMAIN envelopes = 1..n /\ DOMAIN envelopes' = 1..(n + 1)
      /\ \A i \in 1..n : envelopes'[i] = envelopes[i]
      /\ envelopes'[n + 1] = node
  BY AppendFacts DEF FixedLengthTypes
<1>2. \A m, after : WellCut(m, after)' <=> WellCut(m, after)
  BY EnvelopeFacts
<1>3. ASSUME NEW i \in 1..(n + 1)
      PROVE  WellCut(envelopes'[i], IF i = 1 THEN 1 ELSE envelopes'[i - 1].env)
  <2>1. CASE i = n + 1
    <3>1. CASE n = 0
      <4>1. envelopes = <<>>
        BY <3>1, EmptySeq DEF FixedLengthTypes
      <4>2. After = 1
        BY <4>1 DEF After
      <4>. QED BY <2>1, <3>1, <4>2, <1>1
    <3>2. CASE n # 0
      <4>1. envelopes # <<>>
        BY <3>2
      <4>2. After = envelopes[n].env /\ n \in 1..n
        BY <3>2, <4>1, <1>1 DEF After, Last
      <4>3. envelopes'[i - 1] = envelopes[n] /\ i # 1
        BY <2>1, <3>2, <4>2, <1>1
      <4>. QED BY <2>1, <4>2, <4>3, <1>1
    <3>. QED BY <3>1, <3>2
  <2>2. CASE i # n + 1
    <3>1. i \in 1..n
      BY <2>2, <1>1
    <3>2. i # 1 => envelopes'[i - 1] = envelopes[i - 1]
      BY <3>1, <1>1
    <3>3. WellCut(envelopes[i], IF i = 1 THEN 1 ELSE envelopes[i - 1].env)
      BY <3>1, <1>1 DEF AllWellCut
    <3>. QED BY <3>1, <3>2, <3>3, <1>1
  <2>. QED BY <2>1, <2>2
<1>4. ASSUME NEW i \in 1..(n + 1)
      PROVE  WellCut(envelopes[i], IF i = 1 THEN 1 ELSE envelopes[i - 1].env)'
  BY <1>3, <1>4 DEF WellCut, ByRows, config
<1>. QED BY <1>1, <1>4 DEF AllWellCut

(* A line that is read goes behind the others, be it the last of its envelope or not. *)
LEMMA TiledMore ==
    ASSUME Types, format = "fixed-length", FixedLengthTypes, UNCHANGED config, Tiled,
           ~AtEndOfLines, pos' = NextLine, NEW node,
           \/ taken' = Append(taken, NextLine) /\ UNCHANGED envelopes
           \/ /\ taken' = <<>> /\ envelopes' = Append(envelopes, node)
              /\ node.lines = Append(taken, NextLine)
    PROVE  Tiled'
<1>. DEFINE n == Len(envelopes) + 1
<1>1. /\ Len(envelopes) \in Nat /\ DOMAIN envelopes = 1..Len(envelopes)
      /\ DOMAIN Pieces = 1..n
      /\ \A i \in 1..Len(envelopes) : Pieces[i] = envelopes[i].lines
      /\ Pieces[n] = taken
      /\ \A i \in 1..n : Pieces[i] \in Seq(Nat)
  BY PiecesFacts
<1>2. NextLine \in Nat
  BY NextLineFacts, LinesFacts
<1>3. InInputOrder(Pieces) /\ \A k \in LinesIn(Pieces) : k < NextLine
  BY NonEmptyFacts DEF Tiled
<1>4. NonEmptyLines' = NonEmptyLines \cup {NextLine}
  BY NonEmptyFacts
<1>5. PICK m \in {n, n + 1} :
          /\ DOMAIN Pieces' = 1..m
          /\ \A i \in 1..n : i # n => Pieces'[i] = Pieces[i]
          /\ Pieces'[n] = Append(Pieces[n], NextLine)
          /\ m # n => Pieces'[m] = <<>>
  <2>1. CASE taken' = Append(taken, NextLine) /\ UNCHANGED envelopes
    <3>1. Pieces' = [i \in 1..n |-> IF i > Len(envelopes) THEN taken' ELSE envelopes[i].lines]
      BY <2>1 DEF Pieces
    <3>2. DOMAIN Pieces' = 1..n /\ Pieces'[n] = taken'
      BY <3>1, <1>1
    <3>3. \A i \in 1..n : i # n => Pieces'[i] = Pieces[i]
      BY <3>1, <1>1
    <3>. QED BY <2>1, <3>2, <3>3, <1>1
  <2>2. CASE /\ taken' = <<>> /\ envelopes' = Append(envelopes, node)
             /\ node.lines = Append(taken, NextLine)
    <3>1. /\ Len(envelopes') = n /\ envelopes'[n] = node
          /\ \A i \in 1..Len(envelopes) : envelopes'[i] = envelopes[i]
      BY <2>2, AppendFacts DEF FixedLengthTypes
    <3>2. Pieces' = [i \in 1..(n + 1) |-> IF i > n THEN taken' ELSE envelopes'[i].lines]
      BY <3>1 DEF Pieces
    <3>3. DOMAIN Pieces' = 1..(n + 1) /\ Pieces'[n + 1] = <<>> /\ Pieces'[n] = node.lines
      BY <2>2, <3>1, <3>2, <1>1
    <3>4. ASSUME NEW i \in 1..n, i # n PROVE Pieces'[i] = Pieces[i]
      <4>1. i \in 1..Len(envelopes) /\ i \in 1..(n + 1) /\ ~(i > n)
        BY <3>4, <1>1
      <4>2. Pieces'[i] = envelopes'[i].lines
        BY <3>2, <4>1
      <4>3. Pieces[i] = envelopes[i].lines /\ envelopes'[i] = envelopes[i]
        BY <3>1, <4>1, <1>1
      <4>. QED BY <4>2, <4>3
    <3>. QED BY <2>2, <3>3, <3>4, <1>1
  <2>. QED BY <2>1, <2>2
<1>. HIDE DEF n
<1>6. n \in Nat \ {0}
  BY <1>1 DEF n
<1>7. InInputOrder(Pieces') /\ LinesIn(Pieces') = LinesIn(Pieces) \cup {NextLine}
  <2>. DEFINE P == Pieces
              Q == Pieces'
  <2>1. DOMAIN P = 1..n /\ (\A i \in 1..n : P[i] \in Seq(Nat))
    BY <1>1
  <2>2. /\ DOMAIN Q = 1..m /\ (\A i \in 1..n : i # n => Q[i] = P[i])
        /\ Q[n] = Append(P[n], NextLine) /\ (m # n => Q[m] = <<>>)
    BY <1>5
  <2>3. InInputOrder(P) /\ (\A k \in LinesIn(P) : k < NextLine)
    BY <1>3
  <2>. HIDE DEF P, Q
  <2>4. Grows(P, Q, n, m, NextLine)
    BY <2>1, <2>2, <2>3, <1>2, <1>5, <1>6 DEF Grows
  <2>5. InInputOrder(Q) /\ LinesIn(Q) = LinesIn(P) \cup {NextLine}
    BY <2>4, PiecesGrow
  <2>. QED BY <2>5 DEF P, Q
<1>. QED BY <1>4, <1>7 DEF Tiled

(* While a reader goes on, all lines but the empty ones are in some piece. *)
LEMMA TiledWhileReading ==
    ASSUME FixedLengthInv, format = "fixed-length", Continuable, pc # "rejected"
    PROVE  Tiled /\ AllWellCut
BY DEF FixedLengthInv, EnvelopesTile, Tiled, AllWellCut, Continuable, IsContinuableError

(* An envelope that is completed comes last. *)
LEMMA EnvelopeMore ==
    ASSUME FixedLengthTypes, NEW node, envelopes' = Append(envelopes, node)
    PROVE  /\ envelopes' # <<>> /\ Last(envelopes') = node
           /\ Range(envelopes') = Range(envelopes) \cup {node}
           /\ envelopes' \in Seq(Range(envelopes'))
<1>1. envelopes \in Seq(Range(envelopes))
  BY DEF FixedLengthTypes
<1>2. /\ envelopes' # <<>>
      /\ Len(envelopes) \in Nat /\ Len(envelopes') = Len(envelopes) + 1
      /\ DOMAIN envelopes = 1..Len(envelopes) /\ DOMAIN envelopes' = 1..(Len(envelopes) + 1)
      /\ \A i \in 1..Len(envelopes) : envelopes'[i] = envelopes[i]
      /\ envelopes'[Len(envelopes) + 1] = node
  BY <1>1, AppendFacts
<1>3. Append(envelopes, node) \in Seq(Range(Append(envelopes, node)))
  BY <1>1, AppendFacts
<1>4. Last(envelopes') = node
  BY <1>2 DEF Last
<1>5. Range(envelopes') = Range(envelopes) \cup {node}
  BY <1>2 DEF Range
<1>. QED BY <1>2, <1>3, <1>4, <1>5

(* A line that is taken for an envelope e, which it may complete. *)
LEMMA TakeLineKeeps ==
    ASSUME Types, format = "fixed-length", FixedLengthInv, pc = "envelope", ~AtEndOfLines,
           pos' = NextLine, UNCHANGED config,
           NEW e \in DOMAIN decl.envelopes, envelopeIndex' = e, ByRows => e = 1,
           NEW completes \in BOOLEAN, TakeLine(e, completes),
           completes => WellCut(Node(e, Append(taken, NextLine)), After),
           ~completes => TakenInv'
    PROVE  Types' /\ FixedLengthInv'
<1>. DEFINE lines == Append(taken, NextLine)
            node == Node(e, lines)
<1>1. /\ Len(input) \in Nat /\ pos \in Nat /\ pos <= Len(input)
      /\ NextLine \in 1..Len(input)
  BY LinesFacts, NextLineFacts
<1>2. /\ FixedLengthTypes /\ Continuable /\ target = {} /\ TreeHoldsGlobals
      /\ reply.kind # "eof" /\ reply.kind # "invalid"
  BY DEF FixedLengthInv, FixedLengthCalls, Continuable, IsContinuableError
<1>3. Tiled /\ AllWellCut
  BY <1>2, TiledWhileReading
<1>4. /\ decl' = decl /\ input' = input /\ format' = format
      /\ ByRows' <=> ByRows
      /\ \A n : IsTarget(n)' <=> IsTarget(n)
      /\ \A n : IsEnvelope(n)' <=> IsEnvelope(n)
  BY EnvelopeFacts DEF config
<1>5. lines \in Seq(1..Len(input))
  BY <1>1, <1>2, AppendProperties DEF FixedLengthTypes
<1>6. node.env = e /\ node.lines = lines /\ IsEnvelope(node)
  BY <1>5 DEF Node, IsEnvelope
<1>7. root = {m \in Range(envelopes) : ~IsTarget(m)}
  BY <1>2 DEF TreeHoldsGlobals
<1>8. CASE ~completes
  <2>1. taken' = lines /\ UNCHANGED <<pc, reply, root, target, envelopes>>
    BY <1>8 DEF TakeLine
  <2>2. Types'
    BY <2>1, <1>1, <1>4 DEF Types, config
  <2>3. FixedLengthTypes'
    BY <2>1, <1>2, <1>4, <1>5 DEF FixedLengthTypes
  <2>4. FixedLengthCalls'
    BY <2>1, <1>2, <1>4, <1>8 DEF FixedLengthCalls, Continuable
  <2>5. TargetInv' /\ TreeHoldsGlobals'
    BY <2>1, <1>2, <1>4, <1>7 DEF TargetInv, TreeHoldsGlobals
  <2>6. AllWellCut'
    BY <2>1, <1>3, <1>4, EnvelopeFacts DEF AllWellCut
  <2>7. Tiled'
    BY <2>1, <1>2, <1>3, TiledMore
  <2>8. EnvelopesTile'
    BY <2>1, <2>6, <2>7, <1>2 DEF EnvelopesTile, AllWellCut, Tiled
  <2>. QED BY <2>2, <2>3, <2>4, <2>5, <2>8 DEF FixedLengthInv
<1>9. CASE completes
  <2>1. /\ envelopes' = Append(envelopes, node) /\ taken' = <<>>
        /\ \/ ~IsTarget(node) /\ root' = root \cup {node} /\ UNCHANGED <<pc, target, reply>>
           \/ IsTarget(node) /\ UNCHANGED <<pc, root, target, reply>>
           \/ /\ IsTarget(node) /\ root' = root \cup {node} /\ target' = {node}
              /\ pc' = "idle" /\ reply'.kind = "node"
    BY <1>9 DEF TakeLine, Complete, Reply
  <2>. HIDE DEF node
  <2>2. /\ envelopes' # <<>> /\ Last(envelopes') = node
        /\ Range(envelopes') = Range(envelopes) \cup {node}
        /\ envelopes' \in Seq(Range(envelopes'))
    BY <2>1, <1>2, EnvelopeMore
  <2>3. /\ pc' \in {"idle", "envelope"} /\ reply'.kind # "eof" /\ reply'.kind # "invalid"
        /\ reply'.kind \in {"none", "node", "error", "eof", "invalid"}
        /\ pc' = "envelope" => target' = {}
    BY <2>1, <1>2 DEF Types
  <2>4. Types'
    BY <2>3, <1>1, <1>4 DEF Types, config
  <2>5. FixedLengthTypes'
    <3>1. \A m \in Range(envelopes') : IsEnvelope(m)'
      BY <2>2, <1>2, <1>4, <1>6 DEF FixedLengthTypes
    <3>2. taken' \in Seq(1..Len(input))
      BY <2>1, EmptySeq
    <3>. QED BY <2>2, <2>3, <3>1, <3>2, <1>4 DEF FixedLengthTypes
  <2>6. FixedLengthCalls'
    <3>1. After' = e
      BY <2>2, <1>6 DEF After
    <3>2. TakenInv'
      BY <2>1, <3>1 DEF TakenInv
    <3>3. Continuable'
      BY <2>3 DEF Continuable, IsContinuableError
    <3>. QED BY <2>1, <2>3, <3>2, <3>3, <1>4 DEF FixedLengthCalls
  <2>7. TargetInv'
    <3>1. CASE target' = {}
      BY <3>1 DEF TargetInv
    <3>2. CASE target' = {node} /\ IsTarget(node)
      <4>1. IsTarget(Last(envelopes))'
        BY <3>2, <2>2, <1>4 DEF IsTarget
      <4>. QED BY <3>2, <4>1, <2>2 DEF TargetInv
    <3>. QED BY <3>1, <3>2, <2>1, <1>2
  <2>8. TreeHoldsGlobals'
    <3>1. {m \in Range(envelopes') : ~IsTarget(m)'} =
              root \cup {m \in {node} : ~IsTarget(m)}
      BY <2>2, <1>4, <1>7
    <3>2. CASE target' = {}
      <4>1. root' = root \cup {m \in {node} : ~IsTarget(m)}
        BY <3>2, <2>1
      <4>. QED BY <3>1, <3>2, <4>1 DEF TreeHoldsGlobals
    <3>3. CASE target' = {node} /\ IsTarget(node) /\ root' = root \cup {node}
      <4>1. root' = {m \in Range(envelopes') : ~IsTarget(m)'} \cup {Last(envelopes')}
        BY <3>1, <3>3, <2>2
      <4>. QED BY <3>3, <4>1 DEF TreeHoldsGlobals
    <3>. QED BY <3>2, <3>3, <2>1, <1>2
  <2>9. AllWellCut'
    BY <2>1, <1>2, <1>3, <1>9, WellCutMore DEF node
  <2>10. Tiled'
    BY <2>1, <1>2, <1>3, <1>6, TiledMore
  <2>11. EnvelopesTile'
    BY <2>3, <2>9, <2>10 DEF EnvelopesTile, AllWellCut, Tiled
  <2>. QED BY <2>4, <2>5, <2>6, <2>7, <2>8, <2>11 DEF FixedLengthInv
<1>. QED BY <1>8, <1>9

(* The envelope that is current, or the last one, is a declared one. *)
LEMMA AfterFacts ==
    ASSUME Types, format = "fixed-length", FixedLengthTypes
    PROVE  /\ After \in DOMAIN decl.envelopes
           /\ taken = <<>> /\ TakenInv => envelopeIndex = After
           /\ TakenInv => envelopeIndex \in DOMAIN decl.envelopes
<1>1. CASE envelopes = <<>>
  BY <1>1, LinesFacts DEF After, TakenInv
<1>2. CASE envelopes # <<>>
  <2>1. /\ Len(envelopes) \in Nat /\ DOMAIN envelopes = 1..Len(envelopes)
        /\ \A i \in 1..Len(envelopes) : IsEnvelope(envelopes[i])
    BY PiecesFacts
  <2>2. Len(envelopes) \in 1..Len(envelopes)
    <3>1. Len(envelopes) # 0
      BY <1>2, EmptySeq DEF FixedLengthTypes
    <3>. QED BY <3>1, <2>1
  <2>3. After = envelopes[Len(envelopes)].env
    BY <1>2 DEF After, Last
  <2>4. After \in DOMAIN decl.envelopes
    BY <2>1, <2>2, <2>3 DEF IsEnvelope
  <2>. QED BY <2>4 DEF TakenInv
<1>. QED BY <1>1, <1>2

(* The lines of the envelope being read, with one more. *)
LEMMA TakenMore ==
    ASSUME Types, format = "fixed-length", FixedLengthTypes, ~AtEndOfLines
    PROVE  /\ Append(taken, NextLine) # <<>>
           /\ Len(taken) \in Nat /\ Len(Append(taken, NextLine)) = Len(taken) + 1
           /\ \A i \in 1..Len(taken) : Append(taken, NextLine)[i] = taken[i]
           /\ Append(taken, NextLine)[Len(taken) + 1] = NextLine
           /\ taken = <<>> <=> Len(taken) = 0
BY AppendFacts, EmptySeq DEF FixedLengthTypes

LEMMA ReadRowKeeps ==
    ASSUME Types, format = "fixed-length", FixedLengthInv, ReadRow
    PROVE  Types' /\ FixedLengthInv'
<1>. DEFINE lines == Append(taken, NextLine)
            rows == decl.envelopes[1].rows
<1>1. /\ pc = "envelope" /\ ByRows /\ ~AtEndOfLines /\ pos' = NextLine
      /\ TakeLine(envelopeIndex, Len(taken) + 1 = decl.envelopes[envelopeIndex].rows)
      /\ UNCHANGED config /\ envelopeIndex' = envelopeIndex
  BY DEF ReadRow
<1>2. FixedLengthTypes /\ TakenInv /\ envelopeIndex = 1
  BY <1>1 DEF FixedLengthInv, FixedLengthCalls
<1>3. /\ 1 \in DOMAIN decl.envelopes /\ rows \in Nat /\ rows # 0
  BY <1>1, LinesFacts DEF ByRows
<1>4. /\ lines # <<>> /\ Len(taken) \in Nat /\ Len(lines) = Len(taken) + 1
      /\ taken = <<>> <=> Len(taken) = 0
  BY <1>1, <1>2, TakenMore
<1>5. Len(taken) < rows
  BY <1>1, <1>2, <1>3, <1>4 DEF TakenInv
<1>6. ASSUME Len(taken) + 1 = rows PROVE WellCut(Node(1, lines), After)
  BY <1>1, <1>4, <1>6 DEF WellCut, Node
<1>7. ASSUME ~(Len(taken) + 1 = rows) PROVE TakenInv'
  <2>1. taken' = lines
    BY <1>1, <1>2, <1>7 DEF TakeLine
  <2>2. Len(lines) < rows
    BY <1>3, <1>4, <1>5, <1>7
  <2>3. decl' = decl /\ ByRows'
    BY <1>1, EnvelopeFacts DEF config
  <2>. HIDE DEF lines
  <2>. QED BY <2>1, <2>2, <2>3, <1>1, <1>2, <1>3, <1>4 DEF TakenInv
<1>8. TakeLine(1, Len(taken) + 1 = rows)
  BY <1>1, <1>2
<1>. HIDE DEF rows
<1>. QED BY <1>1, <1>2, <1>3, <1>6, <1>7, <1>8, TakeLineKeeps

(* A line of an envelope e, which it starts or goes on with. *)
LEMMA HeaderFooterKeeps ==
    ASSUME Types, format = "fixed-length", FixedLengthInv, pc = "envelope", ~AtEndOfLines,
           ~ByRows, pos' = NextLine, UNCHANGED config,
           NEW e \in DOMAIN decl.envelopes, envelopeIndex' = e, e >= After,
           TakeLine(e, MatchFooter(e, input[NextLine])),
           \A i \in After..e :
               (decl.envelopes[i].header \in input[Append(taken, NextLine)[1]]) <=> (i = e),
           \A k \in 1..Len(taken) : decl.envelopes[e].footer \notin input[taken[k]]
    PROVE  Types' /\ FixedLengthInv'
<1>. DEFINE lines == Append(taken, NextLine)
            completes == MatchFooter(e, input[NextLine])
<1>1. FixedLengthTypes
  BY DEF FixedLengthInv
<1>2. /\ lines # <<>> /\ Len(taken) \in Nat /\ Len(lines) = Len(taken) + 1
      /\ \A i \in 1..Len(taken) : lines[i] = taken[i]
      /\ lines[Len(taken) + 1] = NextLine
  BY <1>1, TakenMore
<1>3. decl' = decl /\ input' = input /\ (ByRows' <=> ByRows)
  BY EnvelopeFacts DEF config
<1>4. completes <=> decl.envelopes[e].footer \in input[NextLine]
  BY DEF MatchFooter
<1>5. ASSUME NEW k \in 1..(Len(taken) + 1)
      PROVE  (decl.envelopes[e].footer \in input[lines[k]]) <=> (completes /\ k = Len(taken) + 1)
  <2>1. CASE k = Len(taken) + 1
    BY <2>1, <1>2, <1>4
  <2>2. CASE k # Len(taken) + 1
    <3>1. k \in 1..Len(taken)
      BY <2>2, <1>2
    <3>. QED BY <2>2, <3>1, <1>2
  <2>. QED BY <2>1, <2>2
<1>6. ASSUME completes PROVE WellCut(Node(e, lines), After)
  <2>1. /\ Node(e, lines).env = e /\ Node(e, lines).lines = lines
    BY DEF Node
  <2>. HIDE DEF lines
  <2>. QED BY <2>1, <1>2, <1>5, <1>6 DEF WellCut
<1>7. ASSUME ~completes PROVE TakenInv'
  <2>1. taken' = lines /\ UNCHANGED envelopes
    BY <1>7 DEF TakeLine
  <2>2. After' = After
    BY <2>1 DEF After
  <2>3. \A k \in 1..Len(lines) : decl.envelopes[e].footer \notin input[lines[k]]
    BY <1>2, <1>5, <1>7
  <2>. HIDE DEF lines
  <2>. QED BY <2>1, <2>2, <2>3, <1>2, <1>3 DEF TakenInv, lines
<1>8. completes \in BOOLEAN
  BY DEF MatchFooter
<1>. HIDE DEF completes
<1>9. TakeLine(e, completes)
  BY DEF completes
<1>. QED BY <1>6, <1>7, <1>8, <1>9, TakeLineKeeps

LEMMA ReadBodyKeeps ==
    ASSUME Types, format = "fixed-length", FixedLengthInv, ReadBody
    PROVE  Types' /\ FixedLengthInv'
<1>1. /\ pc = "envelope" /\ ~ByRows /\ taken # <<>> /\ ~AtEndOfLines /\ pos' = NextLine
      /\ TakeLine(envelopeIndex, MatchFooter(envelopeIndex, input[NextLine]))
      /\ UNCHANGED config /\ envelopeIndex' = envelopeIndex
  BY DEF ReadBody
<1>2. FixedLengthTypes /\ TakenInv
  BY <1>1 DEF FixedLengthInv, FixedLengthCalls
<1>3. PICK e \in DOMAIN decl.envelopes : e = envelopeIndex
  BY <1>2, AfterFacts
<1>4. /\ e >= After
      /\ \A i \in After..e : (decl.envelopes[i].header \in input[taken[1]]) <=> (i = e)
      /\ \A k \in 1..Len(taken) : decl.envelopes[e].footer \notin input[taken[k]]
  BY <1>1, <1>2, <1>3 DEF TakenInv
<1>5. Append(taken, NextLine)[1] = taken[1]
  BY <1>1, <1>2, TakenMore
<1>6. TakeLine(e, MatchFooter(e, input[NextLine])) /\ envelopeIndex' = e
  BY <1>1, <1>3
<1>. QED BY <1>1, <1>4, <1>5, <1>6, HeaderFooterKeeps

(* The first envelope from the current one on with that header, if there is one. *)
LEMMA HeaderFacts ==
    ASSUME Types, format = "fixed-length", envelopeIndex \in DOMAIN decl.envelopes, NEW line
    PROVE  /\ MatchHeader(line) \in envelopeIndex..(Len(decl.envelopes) + 1)
           /\ MatchHeader(line) <= Len(decl.envelopes) =>
                 decl.envelopes[MatchHeader(line)].header \in line
           /\ \A i \in envelopeIndex..Len(decl.envelopes) :
                 i < MatchHeader(line) => decl.envelopes[i].header \notin line
<1>. DEFINE n == Len(decl.envelopes)
            S == {e \in envelopeIndex..n : decl.envelopes[e].header \in line} \cup {n + 1}
            m == MatchHeader(line)
<1>1. n \in Nat /\ envelopeIndex \in 1..n
  BY LinesFacts
<1>2. S \in SUBSET Nat /\ S # {}
  BY <1>1
<1>3. /\ \A k \in S : k \in envelopeIndex..(n + 1)
      /\ \A k \in S : k <= n => decl.envelopes[k].header \in line
      /\ \A i \in envelopeIndex..n : decl.envelopes[i].header \in line => i \in S
  BY <1>1
<1>4. m = Min(S)
  BY DEF MatchHeader, HeadersFrom
<1>. HIDE DEF S, m
<1>5. m \in S /\ \A k \in S : m <= k
  BY <1>2, <1>4, MinFacts
<1>6. ASSUME NEW i \in envelopeIndex..n, i < m PROVE decl.envelopes[i].header \notin line
  <2>1. i \in Nat /\ m \in Nat
    BY <1>1, <1>2, <1>5
  <2>2. i \notin S
    BY <2>1, <1>5, <1>6
  <2>. QED BY <2>2, <1>3
<1>. QED BY <1>3, <1>5, <1>6 DEF m

LEMMA ReadHeaderKeeps ==
    ASSUME Types, format = "fixed-length", FixedLengthInv, ReadHeader
    PROVE  Types' /\ FixedLengthInv'
<1>. DEFINE line == input[NextLine]
            n == Len(decl.envelopes)
<1>1. /\ pc = "envelope" /\ ~ByRows /\ taken = <<>> /\ ~AtEndOfLines /\ pos' = NextLine
      /\ envelopeIndex' = MatchHeader(line) /\ UNCHANGED config
      /\ envelopeIndex' > n => NoMoreEnvelopes("eof")
      /\ ~(envelopeIndex' > n) =>
            TakeLine(envelopeIndex', MatchFooter(envelopeIndex', line))
  BY DEF ReadHeader
<1>2. /\ FixedLengthTypes /\ TakenInv /\ TreeHoldsGlobals /\ TargetInv /\ target = {}
      /\ reply.kind # "eof" /\ reply.kind # "invalid" /\ Continuable
  BY <1>1 DEF FixedLengthInv, FixedLengthCalls, Continuable, IsContinuableError
<1>3. envelopeIndex = After /\ After \in DOMAIN decl.envelopes
  BY <1>1, <1>2, AfterFacts
<1>4. n \in Nat /\ DOMAIN decl.envelopes = 1..n /\ After \in 1..n
  BY <1>3, LinesFacts
<1>5. /\ envelopeIndex' \in After..(n + 1)
      /\ envelopeIndex' <= n => decl.envelopes[envelopeIndex'].header \in line
      /\ \A i \in After..n : i < envelopeIndex' => decl.envelopes[i].header \notin line
  BY <1>1, <1>3, HeaderFacts
<1>6. CASE envelopeIndex' > n
  <2>1. /\ pc' = "idle" /\ reply'.kind = "eof"
        /\ UNCHANGED <<taken, root, target, envelopes>>
    BY <1>1, <1>6 DEF NoMoreEnvelopes, Reply
  <2>2. /\ decl' = decl /\ input' = input /\ format' = format
        /\ ByRows' <=> ByRows
        /\ \A x : IsTarget(x)' <=> IsTarget(x)
        /\ \A x : IsEnvelope(x)' <=> IsEnvelope(x)
        /\ \A x, after : WellCut(x, after)' <=> WellCut(x, after)
    BY <1>1, EnvelopeFacts DEF config
  <2>3. /\ Len(input) \in Nat /\ NextLine \in 1..Len(input) /\ NextLine \in Nat
    BY <1>1, LinesFacts, NextLineFacts
  <2>4. Types'
    BY <2>1, <2>2, <2>3, <1>1 DEF Types, config
  <2>5. FixedLengthTypes'
    BY <2>1, <2>2, <1>2 DEF FixedLengthTypes
  <2>6. FixedLengthCalls'
    BY <2>1, <2>2, <1>1 DEF FixedLengthCalls, Continuable, IsContinuableError
  <2>7. TargetInv' /\ TreeHoldsGlobals'
    BY <2>1, <2>2, <1>2 DEF TargetInv, TreeHoldsGlobals
  <2>8. Tiled /\ AllWellCut
    BY <1>1, <1>2, TiledWhileReading
  <2>9. AllWellCut'
    BY <2>1, <2>2, <2>8 DEF AllWellCut
  <2>10. InInputOrder(Pieces)' /\ LinesIn(Pieces)' = NonEmptyLines
    <3>1. Pieces' = Pieces
      BY <2>1 DEF Pieces
    <3>. QED BY <3>1, <2>8 DEF Tiled, InInputOrder, LinesIn
  <2>11. NonEmptyLines = NonEmptyLines' \ {pos'}
    <3>1. /\ NonEmptyLines' = NonEmptyLines \cup {NextLine}
          /\ \A k \in NonEmptyLines : k < NextLine
      BY <1>1, NonEmptyFacts
    <3>2. NextLine \notin NonEmptyLines
      BY <3>1, <2>3
    <3>. QED BY <3>1, <3>2, <1>1
  <2>12. NoHeaderFor(input[pos])'
    <3>1. ASSUME NEW e \in 1..n, envelopes = <<>> \/ e >= Last(envelopes).env
          PROVE  decl.envelopes[e].header \notin line
      <4>1. e >= After
        BY <3>1 DEF After
      <4>. QED BY <4>1, <1>4, <1>5, <1>6
    <3>. QED BY <3>1, <2>1, <2>2, <1>1, <1>4 DEF NoHeaderFor
  <2>13. EnvelopesTile'
    BY <2>1, <2>2, <2>9, <2>10, <2>11, <2>12, <1>1 DEF EnvelopesTile, AllWellCut
  <2>. QED BY <2>4, <2>5, <2>6, <2>7, <2>13 DEF FixedLengthInv
<1>7. CASE ~(envelopeIndex' > n)
  <2>1. PICK e \in DOMAIN decl.envelopes : e = envelopeIndex'
    BY <1>4, <1>5, <1>7
  <2>2. e >= After
    BY <2>1, <1>4, <1>5
  <2>3. Append(taken, NextLine)[1] = NextLine /\ Len(taken) = 0
    BY <1>1, <1>2, TakenMore
  <2>4. \A i \in After..e : (decl.envelopes[i].header \in line) <=> (i = e)
    <3>1. ASSUME NEW i \in After..e PROVE (decl.envelopes[i].header \in line) <=> (i = e)
      <4>1. i \in After..n /\ (i = e \/ i < e)
        BY <2>1, <1>4
      <4>. QED BY <4>1, <2>1, <1>4, <1>5, <1>7
    <3>. QED BY <3>1
  <2>5. TakeLine(e, MatchFooter(e, line))
    BY <2>1, <1>1, <1>7
  <2>. QED BY <2>1, <2>2, <2>3, <2>4, <2>5, <1>1, HeaderFooterKeeps
<1>. QED BY <1>6, <1>7

LEMMA EndOfLinesKeeps ==
    ASSUME Types, format = "fixed-length", FixedLengthInv, EndOfLines
    PROVE  Types' /\ FixedLengthInv'
<1>1. /\ pc = "envelope" /\ AtEndOfLines /\ pos' = Len(input)
      /\ pc' = "idle" /\ UNCHANGED <<taken, root, target, envelopes>>
      /\ UNCHANGED config /\ envelopeIndex' = envelopeIndex
      /\ \/ reply'.kind = "eof" /\ taken = <<>>
         \/ reply'.kind = "invalid" /\ (taken # <<>> \/ tail # "eof")
  BY DEF EndOfLines, NoMoreEnvelopes, Reply
<1>2. /\ FixedLengthTypes /\ TreeHoldsGlobals /\ TargetInv /\ Continuable
      /\ ByRows => envelopeIndex = 1
  BY <1>1 DEF FixedLengthInv, FixedLengthCalls
<1>3. /\ decl' = decl /\ input' = input /\ format' = format /\ tail' = tail
      /\ ByRows' <=> ByRows
      /\ \A x : IsTarget(x)' <=> IsTarget(x)
      /\ \A x : IsEnvelope(x)' <=> IsEnvelope(x)
      /\ \A x, after : WellCut(x, after)' <=> WellCut(x, after)
  BY <1>1, EnvelopeFacts DEF config
<1>4. Types'
  BY <1>1, <1>3, LinesFacts DEF Types, config
<1>5. FixedLengthTypes' /\ TargetInv' /\ TreeHoldsGlobals'
  BY <1>1, <1>2, <1>3 DEF FixedLengthTypes, TargetInv, TreeHoldsGlobals
<1>6. FixedLengthCalls'
  BY <1>1, <1>2, <1>3 DEF FixedLengthCalls, Continuable, IsContinuableError
<1>7. Tiled /\ AllWellCut
  BY <1>1, <1>2, TiledWhileReading
<1>8. AllWellCut'
  BY <1>1, <1>3, <1>7 DEF AllWellCut
<1>9. Pieces' = Pieces /\ NonEmptyLines' = NonEmptyLines
  BY <1>1, NonEmptyFacts DEF Pieces
<1>10. Tiled'
  BY <1>7, <1>9 DEF Tiled, InInputOrder, LinesIn
<1>11. tail # "eof" => tail = "failure"
  BY DEF Types, Tails
<1>12. EnvelopesTile'
  BY <1>1, <1>3, <1>8, <1>10, <1>11 DEF EnvelopesTile, AllWellCut, Tiled
<1>. QED BY <1>4, <1>5, <1>6, <1>12 DEF FixedLengthInv

(* A step that takes no line leaves all envelopes as they are. *)
LEMMA NoLineKeeps ==
    ASSUME Types, format = "fixed-length", FixedLengthInv, pc # "rejected",
           UNCHANGED <<config, pos, reply, envelopeIndex, taken, envelopes>>
    PROVE  /\ Types' /\ EnvelopesTile' /\ (TakenInv => TakenInv')
           /\ pc' \in {"rejected", "idle", "envelope"} => FixedLengthTypes'
<1>1. /\ decl' = decl /\ input' = input /\ format' = format /\ tail' = tail
      /\ ByRows' <=> ByRows
      /\ \A x : IsTarget(x)' <=> IsTarget(x)
      /\ \A x : IsEnvelope(x)' <=> IsEnvelope(x)
      /\ \A x, after : WellCut(x, after)' <=> WellCut(x, after)
  BY EnvelopeFacts DEF config
<1>2. Pieces' = Pieces /\ NonEmptyLines' = NonEmptyLines
  BY <1>1 DEF Pieces, NonEmptyLines
<1>3. EnvelopesTile /\ FixedLengthTypes
  BY DEF FixedLengthInv
<1>4. AllWellCut => AllWellCut'
  BY <1>1 DEF AllWellCut
<1>5. NoHeaderFor(input[pos]) => NoHeaderFor(input[pos])'
  BY <1>1 DEF NoHeaderFor
<1>6. InInputOrder(Pieces) => InInputOrder(Pieces)'
  BY <1>2 DEF InInputOrder
<1>7. LinesIn(Pieces)' = LinesIn(Pieces)
  BY <1>2 DEF LinesIn
<1>8. EnvelopesTile'
  BY <1>1, <1>2, <1>3, <1>4, <1>5, <1>6, <1>7 DEF EnvelopesTile, AllWellCut
<1>9. TakenInv => TakenInv'
  BY <1>1 DEF TakenInv, After
<1>10. Types'
  BY <1>1 DEF Types, config
<1>11. pc' \in {"rejected", "idle", "envelope"} => FixedLengthTypes'
  BY <1>1, <1>3 DEF FixedLengthTypes
<1>. QED BY <1>8, <1>9, <1>10, <1>11

LEMMA FixedLengthCreateKeeps ==
    ASSUME Types, format = "fixed-length", FixedLengthInv, FixedLengthCreate
    PROVE  Types' /\ FixedLengthInv'
<1>1. /\ pc = "new" /\ pc' \in {"idle", "rejected"}
      /\ UNCHANGED <<config, pos, reply, envelopeIndex, taken, root, target, envelopes>>
  BY DEF FixedLengthCreate, Create, flVars
<1>2. FixedLengthCalls /\ TargetInv /\ TreeHoldsGlobals
  BY DEF FixedLengthInv
<1>3. Types' /\ EnvelopesTile' /\ (TakenInv => TakenInv') /\ FixedLengthTypes'
  BY <1>1, NoLineKeeps
<1>4. decl' = decl /\ format' = format /\ (ByRows' <=> ByRows) /\ (\A x : IsTarget(x)' <=> IsTarget(x))
  BY <1>1, EnvelopeFacts DEF config
<1>5. FixedLengthCalls'
  BY <1>1, <1>2, <1>3, <1>4 DEF FixedLengthCalls, Continuable
<1>6. TargetInv' /\ TreeHoldsGlobals'
  BY <1>1, <1>2, <1>4 DEF TargetInv, TreeHoldsGlobals
<1>. QED BY <1>3, <1>5, <1>6 DEF FixedLengthInv

(* A target that goes leaves the global envelopes in the tree. *)
LEMMA TargetGoes ==
    ASSUME FixedLengthInv, format = "fixed-length", UNCHANGED <<config, envelopes>>,
           root' = RemoveTarget, target' = {}
    PROVE  TargetInv' /\ TreeHoldsGlobals'
<1>1. TargetInv /\ TreeHoldsGlobals
  BY DEF FixedLengthInv
<1>. DEFINE globals == {n \in Range(envelopes) : ~IsTarget(n)}
<1>2. root' = globals
  <2>1. CASE target = {}
    BY <2>1, <1>1 DEF TreeHoldsGlobals, RemoveTarget
  <2>2. CASE target # {}
    <3>1. target = {Last(envelopes)} /\ IsTarget(Last(envelopes))
      BY <2>2, <1>1 DEF TargetInv
    <3>2. Last(envelopes) \notin globals
      BY <3>1
    <3>3. root = globals \cup {Last(envelopes)}
      BY <2>2, <1>1 DEF TreeHoldsGlobals
    <3>. HIDE DEF globals
    <3>. QED BY <3>1, <3>2, <3>3 DEF RemoveTarget
  <2>. QED BY <2>1, <2>2
<1>3. \A x : IsTarget(x)' <=> IsTarget(x)
  BY EnvelopeFacts
<1>4. TreeHoldsGlobals'
  BY <1>2, <1>3 DEF TreeHoldsGlobals
<1>. QED BY <1>4 DEF TargetInv

LEMMA FixedLengthReadKeeps ==
    ASSUME Types, format = "fixed-length", FixedLengthInv, FixedLengthRead
    PROVE  Types' /\ FixedLengthInv'
<1>1. /\ pc = "idle" /\ Continuable /\ pc' = "envelope"
      /\ root' = RemoveTarget /\ target' = {}
      /\ UNCHANGED <<config, pos, reply, envelopeIndex, taken, envelopes>>
  BY DEF FixedLengthRead, CanRead, Continuable
<1>2. FixedLengthCalls
  BY DEF FixedLengthInv
<1>3. Types' /\ EnvelopesTile' /\ (TakenInv => TakenInv') /\ FixedLengthTypes'
  BY <1>1, NoLineKeeps
<1>4. ByRows' <=> ByRows
  BY <1>1, EnvelopeFacts
<1>5. FixedLengthCalls'
  BY <1>1, <1>2, <1>3, <1>4 DEF FixedLengthCalls, Continuable
<1>6. TargetInv' /\ TreeHoldsGlobals'
  BY <1>1, TargetGoes
<1>. QED BY <1>3, <1>5, <1>6 DEF FixedLengthInv

LEMMA ReleaseKeeps ==
    ASSUME Types, format = "fixed-length", FixedLengthInv, Release
    PROVE  Types' /\ FixedLengthInv'
<1>1. /\ pc = "idle" /\ pc' = pc
      /\ root' = RemoveTarget /\ target' = {}
      /\ UNCHANGED <<config, pos, reply, envelopeIndex, taken, envelopes>>
  BY DEF Release
<1>2. FixedLengthCalls
  BY DEF FixedLengthInv
<1>3. Types' /\ EnvelopesTile' /\ (TakenInv => TakenInv') /\ FixedLengthTypes'
  BY <1>1, NoLineKeeps
<1>4. ByRows' <=> ByRows
  BY <1>1, EnvelopeFacts
<1>5. FixedLengthCalls'
  BY <1>1, <1>2, <1>3, <1>4 DEF FixedLengthCalls, Continuable
<1>6. TargetInv' /\ TreeHoldsGlobals'
  BY <1>1, TargetGoes
<1>. QED BY <1>3, <1>5, <1>6 DEF FixedLengthInv

-----------------------------------------------------------------------------
LEMMA InitHolds ==
    ASSUME Init
    PROVE  IInv
<1>1. /\ format \in Formats /\ decl \in Decls[format] /\ input \in Inputs[format]
      /\ tail \in Tails /\ pc = "new" /\ pos = 0
      /\ reply = [kind |-> "none", node |-> NoNode]
      /\ headerChecked = FALSE /\ lineNum = 0 /\ given = <<>>
      /\ envelopeIndex = 1 /\ taken = <<>> /\ root = {} /\ target = {} /\ envelopes = <<>>
  BY DEF Init, OldReaderInit, CsvInit, FixedLengthInit
<1>2. format \in {"csv", "fixed-length"}
  BY <1>1, FormatsAssumption
<1>3. Len(input) \in Nat
  <2>1. CASE format = "csv"
    <3>1. input \in Seq(Range(input))
      BY <2>1, <1>1, CsvAssumption
    <3>. QED BY <3>1, LenProperties
  <2>2. CASE format = "fixed-length"
    <3>1. input \in Seq(Range(input))
      BY <2>2, <1>1, FixedLengthAssumption
    <3>. QED BY <3>1, LenProperties
  <2>. QED BY <2>1, <2>2, <1>2
<1>4. Types
  BY <1>1, <1>2, <1>3 DEF Types
<1>5. CsvInv
  <2>1. given \in Seq(CsvRows)
    BY <1>1, EmptySeq
  <2>. QED BY <2>1, <1>1 DEF CsvInv, CsvTypes, CsvCalls, RowsAsDeclared
<1>6. ASSUME format = "fixed-length" PROVE FixedLengthInv
  <2>1. Range(envelopes) = {} /\ Len(envelopes) = 0
    BY <1>1 DEF Range
  <2>2. taken \in Seq(1..Len(input)) /\ envelopes \in Seq(Range(envelopes))
    BY <1>1, EmptySeq
  <2>3. FixedLengthTypes
    BY <2>1, <2>2, <1>1 DEF FixedLengthTypes
  <2>4. FixedLengthCalls
    BY <1>1 DEF FixedLengthCalls, TakenInv, After
  <2>5. TargetInv /\ TreeHoldsGlobals
    BY <2>1, <1>1 DEF TargetInv, TreeHoldsGlobals
  <2>6. Pieces = [i \in {1} |-> <<>>]
    <3>1. Pieces = [i \in 1..(0 + 1) |-> IF i > 0 THEN <<>> ELSE envelopes[i].lines]
      BY <2>1, <1>1 DEF Pieces
    <3>2. 1..(0 + 1) = {1}
      OBVIOUS
    <3>. QED BY <3>1, <3>2
  <2>7. DOMAIN Pieces = {1} /\ Pieces[1] = <<>>
    BY <2>6
  <2>8. InInputOrder(Pieces)
    BY <2>7 DEF InInputOrder
  <2>9. LinesIn(Pieces) = {}
    BY <2>7 DEF LinesIn, Range
  <2>10. NonEmptyLines = {}
    BY <1>1 DEF NonEmptyLines
  <2>11. EnvelopesTile
    BY <2>8, <2>9, <2>10, <1>1 DEF EnvelopesTile
  <2>. QED BY <2>3, <2>4, <2>5, <2>11 DEF FixedLengthInv
<1>. QED BY <1>4, <1>5, <1>6 DEF IInv, FixedLengthInv

LEMMA StepKeeps ==
    ASSUME IInv, [Next]_vars
    PROVE  IInv'
<1>1. Types /\ CsvInv /\ FixedLengthInv
  BY DEF IInv
<1>2. CASE CsvNext
  <2>1. format = "csv" /\ format' = "csv"
    BY <1>2 DEF CsvNext, CsvCreate, Create, CsvRead, CsvStep, JumpToHeader, JumpToData,
                CheckHeader, EndOfRows, BadRow, DataRow, config
  <2>2. Types' /\ CsvInv'
    BY <1>1, <1>2, <2>1, CsvCreateKeeps, CsvReadKeeps, JumpToHeaderKeeps, JumpToDataKeeps,
       CheckHeaderKeeps, EndOfRowsKeeps, BadRowKeeps, DataRowKeeps DEF CsvNext, CsvStep
  <2>3. FixedLengthInv'
    BY <2>1 DEF FixedLengthInv
  <2>. QED BY <2>2, <2>3 DEF IInv
<1>3. CASE FixedLengthNext
  <2>1. format = "fixed-length" /\ format' = "fixed-length"
    BY <1>3 DEF FixedLengthNext, FixedLengthCreate, Create, FixedLengthRead, FixedLengthStep,
                EndOfLines, ReadRow, ReadHeader, ReadBody, Release, config
  <2>2. Types' /\ FixedLengthInv'
    BY <1>1, <1>3, <2>1, FixedLengthCreateKeeps, FixedLengthReadKeeps, EndOfLinesKeeps,
       ReadRowKeeps, ReadHeaderKeeps, ReadBodyKeeps, ReleaseKeeps
       DEF FixedLengthNext, FixedLengthStep
  <2>3. CsvInv'
    BY <2>1 DEF CsvInv
  <2>. QED BY <2>2, <2>3 DEF IInv
<1>4. CASE UNCHANGED vars
  <2>1. UNCHANGED <<config, pc, pos, reply, csvVars, flVars>>
    BY <1>4 DEF vars
  <2>2. /\ UNCHANGED <<config, pc, pos, reply, headerChecked, lineNum, given>>
        /\ UNCHANGED <<envelopeIndex, taken, root, target, envelopes>>
        /\ format' = format /\ decl' = decl /\ input' = input
    BY <2>1 DEF csvVars, flVars, config
  <2>3. Types'
    BY <2>2, <1>1 DEF Types, config
  <2>4. CsvInv'
    <3>1. CASE format = "csv"
      <4>1. /\ CsvTypes /\ (Plain => CsvCalls) /\ RowsAsDeclared
            /\ (Plain' <=> Plain) /\ (HeaderFound' <=> HeaderFound) /\ CsvRows' = CsvRows
        BY <3>1, <2>2, <1>1, ConfigFacts DEF CsvInv
      <4>2. GivenAre(decl.data..pos) => GivenAre(decl.data..pos)'
        BY <2>2, GivenSame
      <4>3. CsvTypes'
        BY <4>1, <2>2 DEF CsvTypes
      <4>4. CsvCalls => CsvCalls'
        BY <4>1, <4>2, <2>2 DEF CsvCalls, InStep, Continuable, AtData, JustBefore
      <4>5. RowsAsDeclared'
        BY <4>1, <4>2, <2>2 DEF RowsAsDeclared
      <4>. QED BY <4>1, <4>3, <4>4, <4>5 DEF CsvInv
    <3>. QED BY <3>1, <2>2 DEF CsvInv
  <2>5. FixedLengthInv'
    <3>1. CASE format = "fixed-length" /\ pc # "rejected"
      <4>1. EnvelopesTile' /\ (TakenInv => TakenInv')
        BY <3>1, <2>2, <1>1, NoLineKeeps
      <4>2. /\ FixedLengthTypes /\ FixedLengthCalls /\ TargetInv /\ TreeHoldsGlobals
            /\ (ByRows' <=> ByRows) /\ (\A x : IsTarget(x)' <=> IsTarget(x))
            /\ \A x : IsEnvelope(x)' <=> IsEnvelope(x)
        BY <3>1, <2>2, <1>1, EnvelopeFacts DEF FixedLengthInv
      <4>3. FixedLengthTypes'
        BY <4>2, <2>2 DEF FixedLengthTypes
      <4>4. FixedLengthCalls'
        BY <4>1, <4>2, <2>2 DEF FixedLengthCalls, Continuable
      <4>5. TargetInv' /\ TreeHoldsGlobals'
        BY <4>2, <2>2 DEF TargetInv, TreeHoldsGlobals
      <4>. QED BY <4>1, <4>3, <4>4, <4>5 DEF FixedLengthInv
    <3>2. CASE format = "fixed-length" /\ pc = "rejected"
      <4>1. /\ FixedLengthTypes /\ FixedLengthCalls /\ TargetInv /\ TreeHoldsGlobals
            /\ (ByRows' <=> ByRows) /\ (\A x : IsTarget(x)' <=> IsTarget(x))
            /\ \A x : IsEnvelope(x)' <=> IsEnvelope(x)
        BY <3>2, <2>2, <1>1, EnvelopeFacts DEF FixedLengthInv
      <4>2. FixedLengthTypes' /\ TargetInv' /\ TreeHoldsGlobals'
        BY <4>1, <2>2 DEF FixedLengthTypes, TargetInv, TreeHoldsGlobals
      <4>3. TakenInv => TakenInv'
        BY <4>1, <2>2 DEF TakenInv, After
      <4>4. FixedLengthCalls'
        BY <4>1, <4>3, <2>2 DEF FixedLengthCalls, Continuable
      <4>5. EnvelopesTile'
        BY <3>2, <2>2 DEF EnvelopesTile
      <4>. QED BY <4>2, <4>4, <4>5 DEF FixedLengthInv
    <3>. QED BY <3>1, <3>2, <2>2 DEF FixedLengthInv
  <2>. QED BY <2>3, <2>4, <2>5 DEF IInv
<1>. QED BY <1>2, <1>3, <1>4 DEF Next

(* Where each part of a call of either old reader stands (csv/reader.go:41-111, *)
(* fixedlength/reader.go:44-180), with what it has returned or built by then.   *)
THEOREM Invariance == Spec => []IInv
<1>1. Init => IInv
  BY InitHolds
<1>2. IInv /\ [Next]_vars => IInv'
  BY StepKeeps
<1>. QED BY <1>1, <1>2, PTL DEF Spec

(* For every declaration and input of one-line rows up to the data row, the old *)
(* csv reader returns just the rows from the data row on that pass, and none    *)
(* without the declared header (csv/reader.go:64-111).                          *)
THEOREM RowsCorrect == Spec => []RowsAsDeclared
<1>1. IInv => RowsAsDeclared
  BY DEF IInv, CsvInv, RowsAsDeclared
<1>. QED BY <1>1, Invariance, PTL

(* The envelopes of every fixed-length input tile its lines, each as long as its *)
(* declaration says (fixedlength/reader.go:61-138).                              *)
THEOREM Tiling == Spec => []EnvelopesTile
<1>1. IInv => EnvelopesTile
  BY DEF IInv, FixedLengthInv, EnvelopesTile
<1>. QED BY <1>1, Invariance, PTL

(* The tree of the fixed-length reader has the global envelopes so far, and no *)
(* target but the one that was returned last (fixedlength/reader.go:140-180).  *)
THEOREM GlobalsCorrect == Spec => []TreeHoldsGlobals
<1>1. IInv => TreeHoldsGlobals
  BY DEF IInv, FixedLengthInv, TreeHoldsGlobals
<1>. QED BY <1>1, Invariance, PTL
=============================================================================
