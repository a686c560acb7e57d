---------------------------- MODULE RecReaderSpec ----------------------------
(***************************************************************************)
(* What a RecReader promises to the HierarchyReader, as a state machine:   *)
(* the interface comments of flatfile/recreader.go, over an input that is  *)
(* a sequence of lines.  It remembers nothing but how many lines have been *)
(* turned into nodes; how far a reader has read ahead does not show.       *)
(*                                                                         *)
(* A node is made of columns.  The format of a declaration has, besides    *)
(* what RecReader says, a sequence of columns                              *)
(*   [index |-> of the value in its line, lineIndex |-> 0 for none,        *)
(*    pattern |-> set of line kinds]                                       *)
(* and a value is the pair of the line's number and its index.             *)
(***************************************************************************)
EXTENDS RecReader

CONSTANTS
    Inputs,     \* sequences of line kinds
    Formats,    \* the formats of the record declarations
    Width       \* the number of values on a line of each kind

VARIABLES
    lines, tail,    \* the input
    pos,            \* the number of lines made into nodes
    answer          \* what the last call returned

Absent == <<>>      \* no line has the column
Empty  == <<0, 0>>  \* the line has no such value

Rest == SubSeq(lines, pos + 1, Len(lines))

(* Whether the i-th line of a record, of kind l, has column c. *)
LineMatch(c, i, l) ==
    IF c.lineIndex # 0 THEN c.lineIndex = i ELSE l \in c.pattern

Value(c, n) == IF c.index \in 1..Width[lines[n]] THEN <<n, c.index>> ELSE Empty

(* The first line that has the column gives its value. *)
ColumnOf(c, k) ==
    LET at == {i \in 1..k : LineMatch(c, i, lines[pos + i])}
    IN  IF at = {} THEN Absent ELSE Value(c, pos + Min(at))

NodeOf(f, k) == [j \in DOMAIN f.columns |-> ColumnOf(f.columns[j], k)]

NoNode == <<>>

Init ==
    /\ lines \in Inputs /\ tail \in Tails
    /\ pos = 0
    /\ answer = [res |-> "none", node |-> NoNode]

(* A reader that failed is not asked again. *)
Usable == answer.res # "failed"

Answer(res) == answer' = [res |-> res, node |-> NoNode]

MoreUnprocessedData ==
    /\ Usable
    /\ Answer(IF MoreFails(Rest, tail) THEN "failed"
              ELSE IF Rest # <<>> THEN "more" ELSE "nomore")
    /\ UNCHANGED <<lines, tail, pos>>

NotMatched(f) ==
    /\ Usable
    /\ Rest # <<>> => MatchedLines(f, Rest) = 0
    /\ Answer(IF Rest = <<>> THEN IF tail = "EOF" THEN "EOF" ELSE "failed"
              ELSE IF MatchFails(f, Rest, tail) THEN "failed"
              ELSE "unmatched")
    /\ UNCHANGED <<lines, tail, pos>>

Matched(f) ==
    /\ Usable
    /\ MatchedLines(f, Rest) > 0
    /\ \/ Answer("matched") /\ UNCHANGED pos
       \/ LET k == MatchedLines(f, Rest)
          IN  /\ answer' = [res |-> "matched", node |-> NodeOf(f, k)]
              /\ pos' = pos + k
    /\ UNCHANGED <<lines, tail>>

Next == MoreUnprocessedData \/ \E f \in Formats : NotMatched(f) \/ Matched(f)

Spec == Init /\ [][Next]_<<lines, tail, pos, answer>>
==============================================================================
