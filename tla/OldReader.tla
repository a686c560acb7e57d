----------------------------- MODULE OldReader -----------------------------
(***************************************************************************)
(* What the first readers for csv and fixed-length files have in common:   *)
(* a format reader is created from a file declaration and an input, and    *)
(* read until it ends or fails for good.  OldCsvReader and                 *)
(* OldFixedLengthReader add their own state.                               *)
(***************************************************************************)
EXTENDS Naturals, SequencesExt, FiniteSetsExt

CONSTANTS
    Formats,    \* a subset of {"csv", "fixed-length"}
    Decls,      \* for each format, the file declarations
    Inputs      \* for each format, the inputs, as sequences of rows or lines

ASSUME FormatsAssumption == Formats \subseteq {"csv", "fixed-length"}

None == "(nil)"
Tails == {"eof", "failure"}     \* how an input ends; a failure lasts

VARIABLES
    format, decl, input, tail,
    pc,         \* "new", "rejected", "idle", or where Read is
    pos,        \* the rows or lines that are taken
    reply       \* of the last Read: its kind, and the node, if any

config == <<format, decl, input, tail>>

Reply(kind, node) == reply' = [kind |-> kind, node |-> node]
NoNode == <<>>

(* A reader is not read again after what is not continuable; "invalid" is   *)
(* ErrInvalidHeader or ErrInvalidEnvelope.                                  *)
IsContinuableError(kind) == kind \notin {"eof", "invalid"}

OldReaderInit ==
    /\ format \in Formats
    /\ decl \in Decls[format]
    /\ input \in Inputs[format]
    /\ tail \in Tails
    /\ pc = "new" /\ pos = 0
    /\ reply = [kind |-> "none", node |-> NoNode]

(* ValidateSchema, with what the format has to say of its declaration. *)
Create(valid) ==
    /\ pc = "new"
    /\ pc' = IF valid THEN "idle" ELSE "rejected"
    /\ UNCHANGED <<config, pos, reply>>

CanRead == pc = "idle" /\ IsContinuableError(reply.kind)

AllDistinct(s) == \A i, j \in DOMAIN s : s[i] = s[j] => i = j
=============================================================================
