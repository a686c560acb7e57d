----------------------------- MODULE RecReader -----------------------------
(***************************************************************************)
(* What the two flat-file readers (csv2 and fixedlength2) promise to the   *)
(* HierarchyReader: the RecReader interface of flatfile/recreader.go.      *)
(*                                                                         *)
(* A line is one element of a set of line kinds; a regular expression is   *)
(* the set of kinds it matches.  The unprocessed input is a sequence of    *)
(* lines followed by a tail: "EOF", or "ERR" when reading past the last    *)
(* line fails (an I/O failure or a corrupt csv line).                      *)
(*                                                                         *)
(* The format of a non-group record declaration is a record                *)
(*   [rows |-> n, header |-> set of kinds, footer |-> set of kinds]        *)
(* with rows = 0 for a header/footer based declaration (no JSON schema     *)
(* allows "rows": 0).  A missing footer regexp matches every line.         *)
(***************************************************************************)
EXTENDS Naturals, Sequences, FiniteSetsExt

Tails == {"EOF", "ERR"}

RowsBased(f) == f.rows > 0

(***************************************************************************)
(* The indices of the lines of rest at which a header/footer based record  *)
(* that starts at its first line may end.                                  *)
(***************************************************************************)
FooterLines(f, rest) == {i \in 1..Len(rest) : rest[i] \in f.footer}

HeaderMatches(f, rest) == rest # <<>> /\ rest[1] \in f.header

(***************************************************************************)
(* The number of lines of the record that ReadAndMatch finds at the front  *)
(* of the unprocessed lines; 0 is "not matched".                           *)
(***************************************************************************)
MatchedLines(f, rest) ==
    IF RowsBased(f)
    THEN IF Len(rest) >= f.rows THEN f.rows ELSE 0
    ELSE IF HeaderMatches(f, rest) /\ FooterLines(f, rest) # {}
         THEN Min(FooterLines(f, rest))
         ELSE 0

(***************************************************************************)
(* Whether the match has to read past the last line to decide: too few     *)
(* rows, or a header whose footer never comes.                             *)
(***************************************************************************)
ReadsPastEnd(f, rest) ==
    IF RowsBased(f)
    THEN Len(rest) < f.rows
    ELSE HeaderMatches(f, rest) /\ FooterLines(f, rest) = {}

(* ReadAndMatch fails when it reads past the end and the tail is an error. *)
MatchFails(f, rest, tail) == ReadsPastEnd(f, rest) /\ tail = "ERR"

(* MoreUnprocessedData: an error, or whether there is any line left.       *)
MoreFails(rest, tail) == rest = <<>> /\ tail = "ERR"
=============================================================================
