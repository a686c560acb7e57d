-------------------------- MODULE FixedLengthReader --------------------------
(***************************************************************************)
(* The fixedlength2 reader as a RecReader (flatfile/fixedlength/reader.go).*)
(* A buffered line is either a copy, or a slice of the internal buffer of  *)
(* the bufio.Reader, which any later read from that may overwrite: only    *)
(* the line that was read last may be a slice, and it is copied before the *)
(* next read.  Empty lines are skipped.                                    *)
(*                                                                         *)
(* The bytes of line n are told apart by n; 0 are overwritten ones.  The   *)
(* value of a column in a line is <<n, index>>.                            *)
(***************************************************************************)
EXTENDS RecReader, SequencesExt

CONSTANTS Inputs, Formats, Width, Blank

(* A column beyond the end of a line is the empty end of it, but it is there. *)
ASSUME FixedLengthAssumption ==
    /\ Inputs \subseteq Seq(DOMAIN Width \cup {Blank}) /\ Blank \notin DOMAIN Width
    /\ \A f \in Formats : f.rows \in Nat
    /\ \A f \in Formats : \A j \in DOMAIN f.columns : \A l \in DOMAIN Width :
          f.columns[j].index \in 1..Width[l]
    /\ Formats # {}

VARIABLES
    lines, tail,    \* the input, empty lines included
    linesRead,      \* the number of lines read from it
    linesBuf,       \* the unprocessed lines
    pc,             \* "idle", or where ReadAndMatch() is
    call,           \* its arguments: the declaration's format, createIDR
    i,              \* the line it compares with the footer, 1-based
    answer          \* what the last call returned

input == <<lines, tail>>
vars  == <<lines, tail, linesRead, linesBuf, pc, call, i, answer>>

Absent  == <<>>
NoNode  == <<>>
Garbled == 0

Init ==
    /\ lines \in Inputs /\ tail \in Tails
    /\ linesRead = 0
    /\ linesBuf = <<>>
    /\ pc = "idle" /\ i = 1
    /\ call = [format |-> CHOOSE f \in Formats : TRUE, create |-> FALSE]
    /\ answer = [res |-> "none", node |-> NoNode]

-----------------------------------------------------------------------------
(* readLine: the next line that is not empty, io.EOF, or an error. *)

Ahead   == {n \in (linesRead + 1)..Len(lines) : lines[n] # Blank}
AtEOF   == tail = "EOF"

(* The last line is copied before the next read, if it is not yet a copy; not at all. *)
LastCopiedNever(buf) == buf
LastCopied(buf) ==
    IF buf = <<>> THEN buf ELSE [buf EXCEPT ![Len(buf)].copied = TRUE]

(* A read from the bufio.Reader leaves the copies as they are. *)
AfterRead(buf) ==
    { [k \in 1..Len(buf) |-> IF k \in lost THEN [buf[k] EXCEPT !.b = Garbled] ELSE buf[k]] :
      lost \in SUBSET {k \in 1..Len(buf) : ~buf[k].copied} }

ReadLine ==
    /\ Ahead # {}
    /\ linesRead' = Min(Ahead)
    /\ \E buf \in AfterRead(LastCopied(linesBuf)) :
          linesBuf' = Append(buf, [lineNum |-> linesRead', b |-> linesRead', copied |-> FALSE])

(* The same, but nothing except empty lines is left. *)
ReadNothing ==
    /\ Ahead = {}
    /\ linesRead' = Len(lines)
    /\ linesBuf' \in AfterRead(LastCopied(linesBuf))

-----------------------------------------------------------------------------
(* Whether a regexp, the set of kinds it matches, matches line k. *)
MatchLine(re, k) == linesBuf[k].b # Garbled /\ lines[linesBuf[k].b] \in re

LineMatch(c, k) ==
    IF c.lineIndex # 0 THEN c.lineIndex = k ELSE MatchLine(c.pattern, k)

(* linesToNode *)
LinesToNode(f, n) ==
    [j \in DOMAIN f.columns |->
        LET c == f.columns[j]
            at == {k \in 1..n : LineMatch(c, k)}
        IN  IF at = {} THEN Absent ELSE <<linesBuf[Min(at)].b, c.index>>]

(* popFrontLinesBuf *)
PopFront(n) == linesBuf' = SubSeq(linesBuf, n + 1, Len(linesBuf))

-----------------------------------------------------------------------------
(* A reader that failed is not asked again: its error is fatal. *)
Idle == pc = "idle" /\ answer.res # "failed"

Answer(res) ==
    /\ answer' = [res |-> res, node |-> NoNode]
    /\ pc' = "idle"

MoreUnprocessedData ==
    /\ Idle
    /\ \/ linesBuf # <<>> /\ Answer("more") /\ UNCHANGED <<linesRead, linesBuf>>
       \/ linesBuf = <<>> /\ ReadLine /\ Answer("more")
       \/ linesBuf = <<>> /\ ReadNothing /\ Answer(IF AtEOF THEN "nomore" ELSE "failed")
    /\ UNCHANGED <<input, call, i>>

ReadAndMatch(f, create) ==
    /\ Idle
    /\ call' = [format |-> f, create |-> create]
    /\ pc' = IF RowsBased(f) THEN "rows" ELSE "header"
    /\ i' = 1
    /\ UNCHANGED <<input, linesRead, linesBuf, answer>>

(* Fatal or not; in the latter case no match if there is any line left. *)
EndResultEOF == IF ~AtEOF THEN "failed" ELSE "EOF"
EndResult ==
    IF ~AtEOF THEN "failed" ELSE IF linesBuf = <<>> THEN "EOF" ELSE "unmatched"

NoLine == ReadNothing /\ Answer(EndResult)

(* The first n lines of the buffer match. *)
ReturnMatched(n) ==
    /\ pc' = "idle"
    /\ IF call.create
       THEN /\ answer' = [res |-> "matched", node |-> LinesToNode(call.format, n)]
            /\ PopFront(n)
       ELSE /\ answer' = [res |-> "matched", node |-> NoNode]
            /\ UNCHANGED linesBuf
    /\ UNCHANGED linesRead

-----------------------------------------------------------------------------
(* readAndMatchRowsBasedEnvelope *)

EnoughRows == Len(linesBuf) >= call.format.rows

RowsRead ==
    /\ pc = "rows" /\ ~EnoughRows
    /\ \/ ReadLine /\ UNCHANGED <<pc, answer>>
       \/ NoLine
    /\ UNCHANGED <<input, call, i>>

RowsMatch ==
    /\ pc = "rows" /\ EnoughRows
    /\ ReturnMatched(call.format.rows)
    /\ UNCHANGED <<input, call, i>>

-----------------------------------------------------------------------------
(* readAndMatchHeaderFooterBasedEnvelope *)

HeaderRead ==
    /\ pc = "header" /\ linesBuf = <<>>
    /\ \/ ReadLine /\ UNCHANGED <<pc, answer>>
       \/ NoLine
    /\ UNCHANGED <<input, call, i>>

HeaderMatch ==
    /\ pc = "header" /\ linesBuf # <<>>
    /\ IF MatchLine(call.format.header, 1)
       THEN pc' = "footer" /\ UNCHANGED answer
       ELSE Answer("unmatched")
    /\ UNCHANGED <<input, linesRead, linesBuf, call, i>>

FooterMatches == MatchLine(call.format.footer, i)

FooterMatch ==
    /\ pc = "footer" /\ FooterMatches
    /\ ReturnMatched(i)
    /\ UNCHANGED <<input, call, i>>

(* Whether line i is the last one in the buffer. *)
AtBufferEndOffByOne == i > Len(linesBuf)
AtBufferEnd == i >= Len(linesBuf)

(* The next line is in the buffer already, from an earlier attempt. *)
FooterNext ==
    /\ pc = "footer" /\ ~FooterMatches
    /\ ~AtBufferEnd
    /\ i' = i + 1
    /\ UNCHANGED <<input, linesRead, linesBuf, pc, call, answer>>

FooterRead ==
    /\ pc = "footer" /\ ~FooterMatches
    /\ AtBufferEnd
    /\ \/ ReadLine /\ i' = i + 1 /\ UNCHANGED <<pc, answer>>
       \/ NoLine /\ UNCHANGED i
    /\ UNCHANGED <<input, call>>

-----------------------------------------------------------------------------
Next ==
    \/ MoreUnprocessedData
    \/ \E f \in Formats, create \in BOOLEAN : ReadAndMatch(f, create)
    \/ RowsRead \/ RowsMatch
    \/ HeaderRead \/ HeaderMatch \/ FooterMatch \/ FooterNext \/ FooterRead

Spec == Init /\ [][Next]_vars

-----------------------------------------------------------------------------
(* The type invariant. *)
LineTypes == [lineNum : Nat, b : Nat, copied : BOOLEAN]

TypeOK ==
    /\ lines \in Inputs /\ tail \in Tails
    /\ linesRead \in 0..Len(lines)
    /\ linesBuf \in Seq(LineTypes)
    /\ pc \in {"idle", "rows", "header", "footer"}
    /\ call \in [format : Formats, create : BOOLEAN]
    /\ i \in Nat \ {0}
    /\ pc = "footer" => i \in 1..Len(linesBuf)
    /\ answer.res \in {"none", "more", "nomore", "failed", "EOF", "matched", "unmatched"}

(* The number of the first n lines of an input that are not empty. *)
NonBlank(ls, n) == Cardinality({m \in 1..n : ls[m] # Blank})

(***************************************************************************)
(* The bytes of a buffered line are still those of its line, and the       *)
(* buffer holds the lines that were read last, without the empty ones and  *)
(* without a gap (the corruption of issue 213, fixedlength/reader.go:151). *)
(***************************************************************************)
BufferIntact ==
    \A k \in 1..Len(linesBuf) :
        /\ linesBuf[k].b = linesBuf[k].lineNum
        /\ lines[linesBuf[k].lineNum] # Blank
        /\ NonBlank(lines, linesBuf[k].lineNum) =
               NonBlank(lines, linesRead) - Len(linesBuf) + k

(* The lines of an input that are not empty. *)
NonBlankLines(ls) ==
    [k \in 1..NonBlank(ls, Len(ls)) |->
        ls[Min({n \in 1..Len(ls) : NonBlank(ls, n) = k})]]

(* The values of the node, by the numbers of the lines that are not empty. *)
NodeValues ==
    [j \in DOMAIN answer.node |->
        LET v == answer.node[j]
        IN  IF v = Absent THEN v ELSE <<NonBlank(lines, v[1]), v[2]>>]

(***************************************************************************)
(* The reader is a RecReader over the lines that are not empty: whatever   *)
(* it has read ahead for declarations that did not match, each call        *)
(* answers as if it had read nothing, and a node is made of the lines that *)
(* it takes away (recreader.go:9-30).                                      *)
(***************************************************************************)
AsRecReader == INSTANCE RecReaderSpec
    WITH Inputs <- {NonBlankLines(s) : s \in Inputs},
         lines  <- NonBlankLines(lines),
         pos    <- NonBlank(lines, linesRead) - Len(linesBuf),
         answer <- [res |-> answer.res, node |-> NodeValues]

Implements == AsRecReader!Spec
==============================================================================
