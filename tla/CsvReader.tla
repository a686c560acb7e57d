------------------------------ MODULE CsvReader ------------------------------
(***************************************************************************)
(* The csv2 reader as a RecReader (flatfile/csv/reader.go): lines are read *)
(* ahead into linesBuf, and their values into records, a slice of its own  *)
(* that the lines point into by start and count.  Every popped line shifts *)
(* both.  A line's text is joined from its values once a regexp needs it,  *)
(* and then cached.                                                        *)
(*                                                                         *)
(* The values of line n are <<n, 1>>, <<n, 2>> ...; its text is the        *)
(* sequence of its values; its kind is told by the first one.              *)
(* encoding/csv below is external: a call gives the next line or its end.  *)
(***************************************************************************)
EXTENDS RecReader, SequencesExt

CONSTANTS
    Inputs, Formats,
    Width,      \* of a kind, the number of its values
    Upto        \* of an input, the physical line that each of its lines ends on

(* encoding/csv skips the lines that have no value, and a quoted value may go *)
(* on over several: a line of an input is what one of its calls gives.        *)
ASSUME CsvAssumption ==
    /\ Width \in [DOMAIN Width -> Nat \ {0}]
    /\ Inputs \subseteq Seq(DOMAIN Width)
    /\ \A in \in Inputs :
          /\ Upto[in] \in Seq(Nat) /\ Len(Upto[in]) = Len(in)
          /\ \A n \in 2..Len(in) : Upto[in][n - 1] < Upto[in][n]
    /\ \A f \in Formats : f.rows \in Nat
    /\ Formats # {}

VARIABLES
    lines, tail,    \* the input
    read,           \* the number of lines read from it
    linesBuf,       \* the unprocessed lines
    records,        \* their values
    pc,             \* "idle", or where ReadAndMatch() is
    call,           \* its arguments: the declaration's format, createIDR
    i,              \* the line it compares with the footer, 1-based
    answer          \* what the last call returned

input == <<lines, tail>>
vars  == <<lines, tail, read, linesBuf, records, pc, call, i, answer>>

Absent == <<>>
Empty  == <<0, 0>>
NoNode == <<>>

Cells(n) == [j \in 1..Width[lines[n]] |-> <<n, j>>]

Init ==
    /\ lines \in Inputs /\ tail \in Tails
    /\ read = 0
    /\ linesBuf = <<>> /\ records = <<>>
    /\ pc = "idle" /\ i = 1
    /\ call = [format |-> CHOOSE f \in Formats : TRUE, create |-> FALSE]
    /\ answer = [res |-> "none", node |-> NoNode]

-----------------------------------------------------------------------------
(* readLine: the next line, io.EOF, or an error. *)

MoreLines == read < Len(lines)
AtEOF     == ~MoreLines /\ tail = "EOF"

(* LineNum(): the physical line that line n ends on; none is read at first. *)
LastLine(n) == IF n = 0 THEN 0 ELSE Upto[lines][n]

(* The next line goes behind those of buf. *)
ReadLine(buf) ==
    LET cells == Cells(read + 1)
    IN  /\ MoreLines
        /\ read' = read + 1
        /\ records' = records \o cells
        /\ linesBuf' = Append(buf, [lineNum |-> LastLine(read) + 1,
                                    recordStart |-> Len(records),
                                    recordNum |-> Len(cells),
                                    raw |-> <<>>])

(* The values a line points at. *)
CellsAt(buf, k) ==
    SubSeq(records, buf[k].recordStart + 1, buf[k].recordStart + buf[k].recordNum)

(* matchLine caches the text: linesBuf with the text of line k. *)
Joined(buf, k) ==
    IF buf[k].raw = <<>> THEN [buf EXCEPT ![k].raw = CellsAt(buf, k)] ELSE buf

(* Whether a regexp, the set of kinds it matches, matches line k. *)
MatchLine(re, buf, k) == lines[Joined(buf, k)[k].raw[1][1]] \in re

(* No regexp is the one that matches everything: it does not need the text. *)
NoRegexp(re) == Range(lines) \subseteq re

-----------------------------------------------------------------------------
(* linesToNode *)

LineMatch(c, buf, k) ==
    IF c.lineIndex # 0 THEN c.lineIndex = k ELSE MatchLine(c.pattern, buf, k)

LineToColumnValue(c, buf, k) ==
    IF c.index \in 1..buf[k].recordNum
    THEN records[buf[k].recordStart + c.index]
    ELSE Empty

LinesToNode(f, buf, n) ==
    [j \in DOMAIN f.columns |->
        LET c == f.columns[j]
            at == {k \in 1..n : LineMatch(c, buf, k)}
        IN  IF at = {} THEN Absent ELSE LineToColumnValue(c, buf, Min(at))]

(* popFrontLinesBuf: the values of the lines go, and the other lines move up. *)
RecordShift(buf, n) ==
    LET shift[k \in 0..Len(buf)] == IF k = 0 THEN 0 ELSE shift[k - 1] + buf[k].recordNum
    IN  shift[n]

ShiftedNot(ln, shift) == ln
Shifted(ln, shift) == [ln EXCEPT !.recordStart = @ - shift]

PopFront(buf, n) ==
    LET shift == RecordShift(buf, n)
    IN  /\ records' = SubSeq(records, shift + 1, Len(records))
        /\ linesBuf' = [k \in 1..(Len(buf) - n) |-> Shifted(buf[k + n], shift)]

-----------------------------------------------------------------------------
(* A reader that failed is not asked again: its error is fatal. *)
Idle == pc = "idle" /\ answer.res # "failed"

Answer(res) ==
    /\ answer' = [res |-> res, node |-> NoNode]
    /\ pc' = "idle"

Return(res, buf) ==
    /\ Answer(res)
    /\ linesBuf' = buf
    /\ UNCHANGED <<read, records>>

MoreUnprocessedData ==
    /\ Idle
    /\ \/ linesBuf # <<>> /\ Return("more", linesBuf)
       \/ linesBuf = <<>> /\ ReadLine(<<>>) /\ Answer("more")
       \/ linesBuf = <<>> /\ AtEOF /\ Return("nomore", linesBuf)
       \/ linesBuf = <<>> /\ ~MoreLines /\ ~AtEOF /\ Return("failed", linesBuf)
    /\ UNCHANGED <<input, call, i>>

ReadAndMatch(f, create) ==
    /\ Idle
    /\ call' = [format |-> f, create |-> create]
    /\ pc' = IF RowsBased(f) THEN "rows" ELSE "header"
    /\ i' = 1
    /\ UNCHANGED <<input, read, linesBuf, records, answer>>

(* Fatal or not; in the latter case no match if there is any line left. *)
EndResultEOF(buf) == IF ~AtEOF THEN "failed" ELSE "EOF"
EndResult(buf) ==
    IF ~AtEOF THEN "failed" ELSE IF buf = <<>> THEN "EOF" ELSE "unmatched"

(* No line to read on with. *)
NoLine(buf) == ~MoreLines /\ Return(EndResult(buf), buf)

(* The first n lines of the buffer match. *)
ReturnMatched(buf, n) ==
    /\ pc' = "idle"
    /\ IF call.create
       THEN /\ answer' = [res |-> "matched", node |-> LinesToNode(call.format, buf, n)]
            /\ PopFront(buf, n)
       ELSE /\ answer' = [res |-> "matched", node |-> NoNode]
            /\ linesBuf' = buf
            /\ UNCHANGED records
    /\ UNCHANGED read

-----------------------------------------------------------------------------
(* readAndMatchRowsBasedRecord *)

EnoughRows == Len(linesBuf) >= call.format.rows

RowsRead ==
    /\ pc = "rows" /\ ~EnoughRows
    /\ \/ ReadLine(linesBuf) /\ UNCHANGED <<pc, answer>>
       \/ NoLine(linesBuf)
    /\ UNCHANGED <<input, call, i>>

RowsMatch ==
    /\ pc = "rows" /\ EnoughRows
    /\ ReturnMatched(linesBuf, call.format.rows)
    /\ UNCHANGED <<input, call, i>>

-----------------------------------------------------------------------------
(* readAndMatchHeaderFooterBasedRecord *)

HeaderRead ==
    /\ pc = "header" /\ linesBuf = <<>>
    /\ \/ ReadLine(linesBuf) /\ UNCHANGED <<pc, answer>>
       \/ NoLine(linesBuf)
    /\ UNCHANGED <<input, call, i>>

HeaderMatch ==
    /\ pc = "header" /\ linesBuf # <<>>
    /\ linesBuf' = Joined(linesBuf, 1)
    /\ IF MatchLine(call.format.header, linesBuf, 1)
       THEN pc' = "footer" /\ UNCHANGED answer
       ELSE Answer("unmatched")
    /\ UNCHANGED <<input, read, records, call, i>>

(* The buffer after the footer's regexp, if there is one, is tried on line i. *)
Tried == IF NoRegexp(call.format.footer) THEN linesBuf ELSE Joined(linesBuf, i)

FooterMatches ==
    NoRegexp(call.format.footer) \/ MatchLine(call.format.footer, linesBuf, i)

FooterMatch ==
    /\ pc = "footer" /\ FooterMatches
    /\ ReturnMatched(Tried, i)
    /\ UNCHANGED <<input, call, i>>

(* Whether line i is the last one in the buffer. *)
AtBufferEndOffByOne == i > Len(linesBuf)
AtBufferEnd == i >= Len(linesBuf)

(* The next line is in the buffer already, from an earlier attempt. *)
FooterNext ==
    /\ pc = "footer" /\ ~FooterMatches
    /\ ~AtBufferEnd
    /\ linesBuf' = Tried
    /\ i' = i + 1
    /\ UNCHANGED <<input, read, records, pc, call, answer>>

FooterRead ==
    /\ pc = "footer" /\ ~FooterMatches
    /\ AtBufferEnd
    /\ \/ ReadLine(Tried) /\ i' = i + 1 /\ UNCHANGED <<pc, answer>>
       \/ NoLine(Tried) /\ UNCHANGED i
    /\ UNCHANGED <<input, call>>

-----------------------------------------------------------------------------
Next ==
    \/ MoreUnprocessedData
    \/ \E f \in Formats, create \in BOOLEAN : ReadAndMatch(f, create)
    \/ RowsRead \/ RowsMatch
    \/ HeaderRead \/ HeaderMatch \/ FooterMatch \/ FooterNext \/ FooterRead

Spec == Init /\ [][Next]_vars

-----------------------------------------------------------------------------
(* The type invariant. *)
CellTypes == (1..Len(lines)) \X (Nat \ {0})

LineTypes == [lineNum : Nat, recordStart : Nat, recordNum : Nat, raw : Seq(CellTypes)]

TypeOK ==
    /\ lines \in Inputs /\ tail \in Tails
    /\ read \in 0..Len(lines)
    /\ linesBuf \in Seq(LineTypes)
    /\ records \in Seq(CellTypes)
    /\ pc \in {"idle", "rows", "header", "footer"}
    /\ call \in [format : Formats, create : BOOLEAN]
    /\ i \in Nat \ {0}
    /\ pc = "footer" => i \in 1..Len(linesBuf)
    /\ answer.res \in {"none", "more", "nomore", "failed", "EOF", "matched", "unmatched"}

(***************************************************************************)
(* However often lines are popped and read, every buffered line points at  *)
(* its own values and no others, its cached text is its own, no value is   *)
(* left over, and it has the number of the physical line that encoding/csv *)
(* was about to read, blank or not, for it to report                       *)
(* (csv/reader.go:165, :206-226).                                          *)
(***************************************************************************)
BufferAligned ==
    /\ \A k \in 1..Len(linesBuf) :
          LET n == read - Len(linesBuf) + k
          IN  /\ linesBuf[k].lineNum = LastLine(n - 1) + 1
              /\ linesBuf[k].recordStart + linesBuf[k].recordNum <= Len(records)
              /\ CellsAt(linesBuf, k) = Cells(n)
              /\ linesBuf[k].raw \in {<<>>, Cells(n)}
    /\ Len(records) = RecordShift(linesBuf, Len(linesBuf))

(***************************************************************************)
(* The reader is a RecReader: whatever it has read ahead for declarations  *)
(* that did not match, each call answers as if it had read nothing, and a  *)
(* node is made of the lines that it takes away (recreader.go:9-30).       *)
(***************************************************************************)
AsRecReader == INSTANCE RecReaderSpec WITH pos <- read - Len(linesBuf)

Implements == AsRecReader!Spec
==============================================================================
