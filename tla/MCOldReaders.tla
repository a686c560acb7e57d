---------------------------- MODULE MCOldReaders ----------------------------
(* All short inputs of both formats, for a few file declarations each. *)
EXTENDS OldReaders, TLC

MCFormats == {"csv", "fixed-length"}

RowOf(n, bad, cells) == [lines |-> n, bad |-> bad, cells |-> cells]
Row1(cells) == RowOf(1, FALSE, cells)
Rows ==
    {Row1(<<"A", "B">>), Row1(<<"A">>), Row1(<<"A", "B", "C">>), Row1(<<>>),
     RowOf(1, TRUE, <<"A">>), RowOf(2, FALSE, <<"A", "B">>)}

(* Rows one after another, each with the number of its last line. *)
Lay(rows) ==
    [i \in DOMAIN rows |->
        [upto |-> SumFunction([j \in 1..i |-> rows[j].lines]),
         bad |-> rows[i].bad, cells |-> rows[i].cells]]

Column(name, alias) == [name |-> name, alias |-> alias]
CsvDecl(header, data, columns, xpath) ==
    [header |-> header, data |-> data, columns |-> columns, xpath |-> xpath]
AB == <<Column("A", None), Column("B", "b")>>
CsvDecls ==
    {CsvDecl(h, d, AB, x) : h \in 0..2, d \in 1..3, x \in {None, "b"}} \cup
    {CsvDecl(0, 1, <<Column("A", None), Column("A", None)>>, None),
     CsvDecl(0, 1, <<Column("A", "b"), Column("B", "b")>>, None),
     CsvDecl(1, 5, AB, None)}

Envelope(name, header, footer, notTarget, columns) ==
    [name |-> name, rows |-> 0, header |-> header, footer |-> footer,
     notTarget |-> notTarget, columns |-> columns]
RowsEnvelope(n) ==
    [name |-> 0, rows |-> n, header |-> None, footer |-> None, notTarget |-> FALSE,
     columns |-> <<[name |-> "c", pattern |-> "g"], [name |-> "d", pattern |-> None]>>]
Global(name) == Envelope(name, "g", "e", TRUE, <<>>)
Target(name) == Envelope(name, "t", "e", FALSE, <<[name |-> "c", pattern |-> "g"]>>)
FixedLengthDecls ==
    {[envelopes |-> es, xpath |-> x] :
        es \in {<<RowsEnvelope(1)>>, <<RowsEnvelope(2)>>, <<Target(0)>>,
                <<Global(0), Target(0)>>, <<Target(0), Global(0)>>,
                <<Global(0), Target(0), Envelope(5, "t", "g", TRUE, <<>>)>>,
                <<Target(0), Target(0)>>, <<Global(0), Target(1)>>, <<Global(0)>>},
        x \in {None, "c"}}

Lines == {{}, EmptyLine, {"g"}, {"t"}, {"e"}, {"g", "e"}}

MCDecls == [f \in MCFormats |-> IF f = "csv" THEN CsvDecls ELSE FixedLengthDecls]
MCInputs ==
    [f \in MCFormats |->
        IF f = "csv" THEN {Lay(rows) : rows \in UNION {[1..n -> Rows] : n \in 0..3}}
        ELSE UNION {[1..n -> Lines] : n \in 0..4}]

(* Inputs for csv of one-line rows and blank lines only. *)
MCCsv == {"csv"}
MCBlankLines ==
    "csv" :> {Lay(rows) : rows \in UNION {[1..n -> {Row1(<<"A", "B">>), Row1(<<>>)}] : n \in 0..4}}
=============================================================================
