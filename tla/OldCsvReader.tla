---------------------------- MODULE OldCsvReader ----------------------------
(***************************************************************************)
(* fileformat/csv: a header row at a given line, data rows from another    *)
(* on.  A row is [upto, bad, cells]: the number of its last line, whether  *)
(* encoding/csv cannot parse it, and its cells, of which a blank line has  *)
(* none.  The file declaration is [header, data, columns, xpath], with     *)
(* header 0 if it is nil; xpath is a column that must be there.            *)
(***************************************************************************)
EXTENDS OldReader

CONSTANT MaxLineNum     \* no Read starts behind this line

ASSUME CsvAssumption == "csv" \in Formats =>
    /\ \A d \in Decls["csv"] : d.header \in Nat /\ d.data \in Nat
    /\ \A rows \in Inputs["csv"] :
          /\ rows \in Seq(Range(rows))
          /\ \A row \in Range(rows) : row.upto \in Nat /\ row.bad \in BOOLEAN
          /\ \A i \in 2..Len(rows) : rows[i - 1].upto < rows[i].upto

VARIABLES
    headerChecked,
    lineNum,    \* the lines encoding/csv has read, or tried to
    given       \* the rows returned so far: [row, node], an error with NoNode

csvVars == <<headerChecked, lineNum, given>>

CsvInit == headerChecked = FALSE /\ lineNum = 0 /\ given = <<>>

-----------------------------------------------------------------------------
(* validateFileDecl *)
ValidColumns(columns) ==
    /\ AllDistinct([i \in DOMAIN columns |-> columns[i].name])
    /\ LET aliased == SelectSeq(columns, LAMBDA c : c.alias # None)
       IN  AllDistinct([i \in DOMAIN aliased |-> aliased[i].alias])

CsvValid == decl.header < decl.data /\ ValidColumns(decl.columns)

(* encoding/csv: the next row that is not blank; or, behind the last one, the *)
(* end or the failure, which also counts as a line.                           *)
NextRow == Min({i \in (pos + 1)..Len(input) : input[i].cells # <<>>} \cup {Len(input) + 1})

AtEnd == NextRow > Len(input)

LastLine == IF input = <<>> THEN 0 ELSE Last(input).upto

(* The lines read by then; without the attempt that fails. *)
LineNumOfRows == IF AtEnd THEN Max({lineNum, LastLine}) ELSE input[NextRow].upto
NewLineNum == IF AtEnd THEN Max({lineNum, LastLine}) + 1 ELSE input[NextRow].upto

ReadRecord ==
    /\ lineNum' = NewLineNum
    /\ pos' = Min({NextRow, Len(input)})

Row == input[NextRow]
HasRow == ~AtEnd /\ ~Row.bad

-----------------------------------------------------------------------------
ColumnName(c) == IF c.alias # None THEN c.alias ELSE c.name

RecordToNode(cells) ==
    [i \in 1..Min({Len(cells), Len(decl.columns)}) |-> <<ColumnName(decl.columns[i]), cells[i]>>]

Passes(node) == decl.xpath = None \/ \E i \in DOMAIN node : node[i][1] = decl.xpath

HeaderMatches(cells) ==
    /\ Len(cells) >= Len(decl.columns)
    /\ \A i \in DOMAIN decl.columns : cells[i] = decl.columns[i].name

CsvCreate == Create(CsvValid) /\ UNCHANGED csvVars

CsvRead ==
    /\ CanRead /\ lineNum < MaxLineNum
    /\ pc' = IF headerChecked THEN "data"
             ELSE IF decl.header = 0 THEN "toData" ELSE "toHeader"
    /\ headerChecked' = TRUE
    /\ UNCHANGED <<config, pos, reply, lineNum, given>>

(* Row index comes next; one that is off by one. *)
JustPast(index) == lineNum >= index
JustBefore(index) == lineNum >= index - 1

(* jumpTo: every error is ignored but the end of the input. *)
JumpTo(index, next, failure) ==
    \/ /\ JustBefore(index)
       /\ pc' = next
       /\ UNCHANGED <<pos, lineNum, reply>>
    \/ /\ ~JustBefore(index)
       /\ ReadRecord
       /\ IF AtEnd /\ tail = "eof"
          THEN pc' = "idle" /\ Reply(failure, NoNode)
          ELSE UNCHANGED <<pc, reply>>

JumpToHeader ==
    /\ pc = "toHeader" /\ JumpTo(decl.header, "header", "invalid")
    /\ UNCHANGED <<config, headerChecked, given>>

JumpToData ==
    /\ pc = "toData" /\ JumpTo(decl.data, "data", "eof")
    /\ UNCHANGED <<config, headerChecked, given>>

CheckHeader ==
    /\ pc = "header"
    /\ ReadRecord
    /\ IF HasRow /\ HeaderMatches(Row.cells)
       THEN pc' = "toData" /\ UNCHANGED reply
       ELSE pc' = "idle" /\ Reply("invalid", NoNode)
    /\ UNCHANGED <<config, headerChecked, given>>

EndOfRows ==
    /\ pc = "data" /\ AtEnd
    /\ ReadRecord
    /\ pc' = "idle"
    /\ Reply(IF tail = "eof" THEN "eof" ELSE "error", NoNode)
    /\ UNCHANGED <<config, headerChecked, given>>

BadRow ==
    /\ pc = "data" /\ ~AtEnd /\ Row.bad
    /\ ReadRecord
    /\ pc' = "idle" /\ Reply("error", NoNode)
    /\ given' = Append(given, [row |-> NextRow, node |-> NoNode])
    /\ UNCHANGED <<config, headerChecked>>

DataRow ==
    /\ pc = "data" /\ HasRow
    /\ ReadRecord
    /\ LET node == RecordToNode(Row.cells)
       IN  IF Passes(node)
           THEN /\ pc' = "idle" /\ Reply("node", node)
                /\ given' = Append(given, [row |-> NextRow, node |-> node])
           ELSE UNCHANGED <<pc, reply, given>>
    /\ UNCHANGED <<config, headerChecked>>

CsvStep == JumpToHeader \/ JumpToData \/ CheckHeader \/ EndOfRows \/ BadRow \/ DataRow

-----------------------------------------------------------------------------
NodeOf(i) == IF input[i].bad THEN NoNode ELSE RecordToNode(input[i].cells)

Kept(i) == input[i].cells # <<>> /\ (input[i].bad \/ Passes(NodeOf(i)))

(* What was returned are, in order and once each, the rows among these that *)
(* are not blank and pass, or fail.                                         *)
GivenAre(rows) ==
    /\ \A i, j \in DOMAIN given : i < j => given[i].row < given[j].row
    /\ Range(given) = {[row |-> i, node |-> NodeOf(i)] : i \in {k \in rows : Kept(k)}}

HeaderFound == decl.header = 0 \/
    /\ decl.header <= Len(input) /\ ~input[decl.header].bad
    /\ HeaderMatches(input[decl.header].cells)

(* So far each line is a row. *)
Plain == \A i \in DOMAIN input : i < decl.data => input[i].cells # <<>> /\ input[i].upto = i

(* If each line up to the data row is a row, then what was returned are the  *)
(* rows from there on; and nothing is, for good, if the header row does not  *)
(* match (csv/reader.go:64-111).                                             *)
RowsAsDeclared ==
    format = "csv" /\ pc = "idle" /\ Plain /\ headerChecked =>
        IF HeaderFound THEN reply.kind # "invalid" /\ GivenAre(decl.data..pos)
        ELSE reply.kind = "invalid" /\ given = <<>>

(* The line a row starts at. *)
LineOf(i) == IF i = 1 THEN 1 ELSE input[i - 1].upto + 1

(* Data starts at the line number data_row_index (doc/csv_in_depth.md). *)
DataFromItsLine ==
    format = "csv" /\ reply.kind \in {"node", "eof"} =>
        GivenAre({i \in 1..pos : LineOf(i) >= decl.data})
=============================================================================
