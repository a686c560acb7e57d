------------------------ MODULE OldFixedLengthReader ------------------------
(***************************************************************************)
(* fileformat/fixedlength: an input is cut into envelopes, by a number of  *)
(* lines or by the lines that match a header and a footer.  A line is the  *)
(* set of the patterns it matches, or EmptyLine.  The file declaration is  *)
(* [envelopes, xpath], with xpath a column that must be there; an envelope *)
(* by header and footer has 0 rows.                                        *)
(***************************************************************************)
EXTENDS OldReader

ASSUME FixedLengthAssumption == "fixed-length" \in Formats =>
    /\ \A d \in Decls["fixed-length"] :
          /\ d.envelopes \in Seq(Range(d.envelopes)) /\ d.envelopes # <<>>
          /\ \A e \in Range(d.envelopes) : e.rows \in Nat /\ e.notTarget \in BOOLEAN
    /\ \A lines \in Inputs["fixed-length"] : lines \in Seq(Range(lines))

VARIABLES
    envelopeIndex,
    taken,      \* the lines of the envelope that is being read
    root,       \* the set of the children of the root node
    target,     \* reader.target, if any, as a set
    envelopes   \* every envelope that was completed

flVars == <<envelopeIndex, taken, root, target, envelopes>>

EmptyLine == {"(empty)"}

FixedLengthInit ==
    /\ envelopeIndex = 1 /\ taken = <<>>
    /\ root = {} /\ target = {}
    /\ envelopes = <<>>

-----------------------------------------------------------------------------
(* validateFileDecl: an envelope without a name, 0, gets a number. *)
EnvelopeName(es, i) ==
    IF es[i].name # 0 THEN es[i].name ELSE Cardinality({j \in 1..i : es[j].name = 0})

FixedLengthValid ==
    LET es == decl.envelopes
    IN  /\ Cardinality({i \in DOMAIN es : ~es[i].notTarget}) = 1
        /\ AllDistinct([i \in DOMAIN es |-> EnvelopeName(es, i)])
        /\ \A i \in DOMAIN es :
              AllDistinct([c \in DOMAIN es[i].columns |-> es[i].columns[c].name])

(* readLine *)
NextLine == Min({i \in (pos + 1)..Len(input) : input[i] # EmptyLine} \cup {Len(input) + 1})

AtEndOfLines == NextLine > Len(input)

(* The columns of some lines: each from the first one that matches. *)
LineMatch(c, line) == c.pattern = None \/ c.pattern \in line

ColumnValues(e, lines) ==
    {<<c.name, Min({i \in Range(lines) : LineMatch(c, input[i])})>> :
        c \in {d \in Range(e.columns) : \E i \in Range(lines) : LineMatch(d, input[i])}}

Node(e, lines) == [env |-> e, lines |-> lines, columns |-> ColumnValues(decl.envelopes[e], lines)]

IsMatch(node) == decl.xpath = None \/ \E c \in node.columns : c[1] = decl.xpath

IsTarget(node) == ~decl.envelopes[node.env].notTarget

ByRows == decl.envelopes[1].rows # 0

-----------------------------------------------------------------------------
FixedLengthCreate == Create(FixedLengthValid) /\ UNCHANGED flVars

(* RemoveAndReleaseTree of the target; one that forgets it. *)
ForgetTarget == root
RemoveTarget == root \ target

(* A target that was not released is, when the next one is asked for. *)
FixedLengthRead ==
    /\ CanRead
    /\ pc' = "envelope"
    /\ root' = RemoveTarget /\ target' = {}
    /\ UNCHANGED <<config, pos, reply, envelopeIndex, taken, envelopes>>

(* An envelope that is complete: kept if it is not the target, and otherwise *)
(* returned, unless it does not match.                                       *)
Complete(e, lines) ==
    LET node == Node(e, lines)
    IN  /\ envelopes' = Append(envelopes, node)
        /\ taken' = <<>>
        /\ IF ~IsTarget(node)
           THEN root' = root \cup {node} /\ UNCHANGED <<pc, target, reply>>
           ELSE IF ~IsMatch(node) THEN UNCHANGED <<pc, root, target, reply>>
           ELSE /\ root' = root \cup {node} /\ target' = {node}
                /\ pc' = "idle" /\ Reply("node", node)

(* One more line of the envelope e. *)
TakeLine(e, completes) ==
    LET lines == Append(taken, NextLine)
    IN  IF completes THEN Complete(e, lines)
        ELSE taken' = lines /\ UNCHANGED <<pc, reply, root, target, envelopes>>

NoMoreEnvelopes(kind) ==
    /\ pc' = "idle" /\ Reply(kind, NoNode)
    /\ UNCHANGED <<taken, root, target, envelopes>>

(* The end of the input, or a failure. *)
EndOfLines ==
    /\ pc = "envelope" /\ AtEndOfLines
    /\ pos' = Len(input)
    /\ NoMoreEnvelopes(IF taken = <<>> /\ tail = "eof" THEN "eof" ELSE "invalid")
    /\ UNCHANGED <<config, envelopeIndex>>

ReadRow ==
    /\ pc = "envelope" /\ ByRows /\ ~AtEndOfLines
    /\ pos' = NextLine
    /\ TakeLine(envelopeIndex, Len(taken) + 1 = decl.envelopes[envelopeIndex].rows)
    /\ UNCHANGED <<config, envelopeIndex>>

(* The envelope whose header a line matches, from the current one on; from the *)
(* first one on; the first line behind them all, if there is none.             *)
HeadersFrom(first, line) ==
    Min({e \in first..Len(decl.envelopes) : decl.envelopes[e].header \in line}
        \cup {Len(decl.envelopes) + 1})
MatchHeaderAnywhere(line) == HeadersFrom(1, line)
MatchHeader(line) == HeadersFrom(envelopeIndex, line)

MatchFooter(e, line) == decl.envelopes[e].footer \in line

ReadHeader ==
    /\ pc = "envelope" /\ ~ByRows /\ taken = <<>> /\ ~AtEndOfLines
    /\ pos' = NextLine
    /\ envelopeIndex' = MatchHeader(input[NextLine])
    /\ IF envelopeIndex' > Len(decl.envelopes)
       THEN NoMoreEnvelopes("eof")
       ELSE TakeLine(envelopeIndex', MatchFooter(envelopeIndex', input[NextLine]))
    /\ UNCHANGED config

ReadBody ==
    /\ pc = "envelope" /\ ~ByRows /\ taken # <<>> /\ ~AtEndOfLines
    /\ pos' = NextLine
    /\ TakeLine(envelopeIndex, MatchFooter(envelopeIndex, input[NextLine]))
    /\ UNCHANGED <<config, envelopeIndex>>

Release ==
    /\ pc = "idle" /\ target # {}
    /\ root' = RemoveTarget /\ target' = {}
    /\ UNCHANGED <<config, pc, pos, reply, envelopeIndex, taken, envelopes>>

FixedLengthStep == EndOfLines \/ ReadRow \/ ReadHeader \/ ReadBody

-----------------------------------------------------------------------------
(* Its lines are those of one envelope, the first one that can start there. *)
WellCut(node, after) ==
    LET e == decl.envelopes[node.env]
        n == Len(node.lines)
    IN  IF ByRows THEN n = e.rows
        ELSE /\ node.env >= after
             /\ \A i \in after..node.env :
                   (decl.envelopes[i].header \in input[node.lines[1]]) <=> (i = node.env)
             /\ \A k \in 1..n : (e.footer \in input[node.lines[k]]) <=> (k = n)

NoHeaderFor(line) ==
    \A e \in DOMAIN decl.envelopes :
        (envelopes = <<>> \/ e >= Last(envelopes).env) => decl.envelopes[e].header \notin line

(* The lines of each envelope, and at last of the one that is being read. *)
Pieces ==
    [i \in 1..(Len(envelopes) + 1) |-> IF i > Len(envelopes) THEN taken ELSE envelopes[i].lines]

LinesIn(pieces) == UNION {Range(pieces[i]) : i \in DOMAIN pieces}

(* Each line comes once, and in the order of the input. *)
InInputOrder(pieces) ==
    \A i, j \in DOMAIN pieces : \A k \in DOMAIN pieces[i], l \in DOMAIN pieces[j] :
        i < j \/ (i = j /\ k < l) => pieces[i][k] < pieces[j][l]

NonEmptyLines == {i \in 1..pos : input[i] # EmptyLine}

(* The envelopes tile the lines that are not empty: each starts where the    *)
(* one before ends, with its header, and ends with the first footer, in the  *)
(* order they are declared in.  Read ends early only where no declared       *)
(* envelope can start, and fails only inside one, or when the input does     *)
(* (fixedlength/reader.go:61-138).                                           *)
EnvelopesTile ==
    format = "fixed-length" /\ pc # "rejected" =>
        /\ \A i \in DOMAIN envelopes :
              WellCut(envelopes[i], IF i = 1 THEN 1 ELSE envelopes[i - 1].env)
        /\ InInputOrder(Pieces)
        /\ \/ LinesIn(Pieces) = NonEmptyLines
           \/ /\ LinesIn(Pieces) = NonEmptyLines \ {pos}
              /\ reply.kind = "eof" /\ ~ByRows /\ NoHeaderFor(input[pos])
        /\ reply.kind = "eof" => taken = <<>>
        /\ reply.kind = "invalid" => pos = Len(input) /\ (taken # <<>> \/ tail = "failure")

(* The tree has every global envelope so far, and the target that was        *)
(* returned, until the next Read or its release: none that was filtered out, *)
(* and none from before (doc/fixedlength_in_depth.md:186-189).               *)
TreeHoldsGlobals ==
    format = "fixed-length" =>
        root = {n \in Range(envelopes) : ~IsTarget(n)} \cup
               (IF target = {} THEN {} ELSE {Last(envelopes)})
=============================================================================
