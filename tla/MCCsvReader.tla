----------------------------- MODULE MCCsvReader -----------------------------
(***************************************************************************)
(* Inputs of up to MaxLines lines of two kinds, with two values and with   *)
(* one, and six formats: one, two and three rows, a header only, a header  *)
(* and a footer that may be the same line, and ones that are not.  A line  *)
(* with one value goes on over two physical ones, and every second line    *)
(* has a blank one before it.                                              *)
(***************************************************************************)
EXTENDS CsvReader

CONSTANT MaxLines

Kinds == {"a", "b"}

WidthVal == [k \in Kinds |-> IF k = "a" THEN 2 ELSE 1]

InputsVal == UNION {[1..n -> Kinds] : n \in 0..MaxLines}

UptoVal ==
    [in \in InputsVal |->
        [n \in DOMAIN in |-> n + (n \div 2) + Cardinality({m \in 1..n : in[m] = "b"})]]

Col(index, lineIndex, pattern) ==
    [index |-> index, lineIndex |-> lineIndex, pattern |-> pattern]

Rows(n, columns) ==
    [rows |-> n, header |-> {}, footer |-> {}, columns |-> columns]

HeaderFooter(h, f, columns) ==
    [rows |-> 0, header |-> h, footer |-> f, columns |-> columns]

FormatsVal ==
    { Rows(1, <<Col(2, 0, Kinds)>>),
      Rows(2, <<Col(1, 2, Kinds), Col(1, 0, {"b"})>>),
      Rows(3, <<Col(2, 3, Kinds)>>),
      HeaderFooter({"a"}, Kinds, <<Col(1, 0, Kinds), Col(1, 2, Kinds)>>),
      HeaderFooter({"a"}, {"b"}, <<Col(1, 0, {"b"}), Col(2, 0, {"a"})>>),
      HeaderFooter(Kinds, {"b"}, <<Col(2, 2, Kinds)>>) }
==============================================================================
