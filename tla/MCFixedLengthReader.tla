------------------------- MODULE MCFixedLengthReader -------------------------
(***************************************************************************)
(* Inputs of up to MaxLines lines of two kinds and empty ones, and six     *)
(* formats: one, two and three rows, a header only, a header and a footer  *)
(* that may be the same line, and ones that are not.                       *)
(***************************************************************************)
EXTENDS FixedLengthReader

CONSTANT MaxLines

Kinds == {"a", "b"}

(* Every line has both columns. *)
WidthVal == [k \in Kinds |-> 2]

InputsVal == UNION {[1..n -> Kinds \cup {Blank}] : n \in 0..MaxLines}

Col(index, lineIndex, pattern) ==
    [index |-> index, lineIndex |-> lineIndex, pattern |-> pattern]

Rows(n, columns) ==
    [rows |-> n, header |-> {}, footer |-> {}, columns |-> columns]

HeaderFooter(h, f, columns) ==
    [rows |-> 0, header |-> h, footer |-> f, columns |-> columns]

FormatsVal ==
    { Rows(1, <<Col(2, 0, Kinds)>>),
      Rows(2, <<Col(1, 2, Kinds), Col(1, 0, {"b"})>>),
      Rows(3, <<Col(2, 3, Kinds)>>),
      HeaderFooter({"a"}, Kinds, <<Col(1, 0, Kinds), Col(1, 2, Kinds)>>),
      HeaderFooter({"a"}, {"b"}, <<Col(1, 0, {"b"}), Col(2, 0, {"a"})>>),
      HeaderFooter(Kinds, {"b"}, <<Col(2, 2, Kinds)>>) }
==============================================================================
