-------------------------- MODULE HierarchyReference --------------------------
(***************************************************************************)
(* Two independent accounts of what the HierarchyReader should make of an  *)
(* input, to compare with its stack machine:                               *)
(*   - a recursive descent reading of a whole file, which says exactly     *)
(*     which targets are delivered and how the stream ends;                *)
(*   - the language of a file declaration, which says which files consist  *)
(*     of properly repeated records at all, without being greedy.          *)
(***************************************************************************)
EXTENDS HierarchyReader

RestFrom(i) == SubSeq(lines, i + 1, Len(lines))

(* An outcome so far: how it goes, the lines consumed, the targets found. *)
Outcome(res, at, found) == [res |-> res, at |-> at, found |-> found]

RECURSIVE Instances(_, _, _), Children(_, _, _)

(* Reads the remaining instances of declaration d, k of them being read already. *)
Instances(d, k, o) ==
    LET rest == RestFrom(o.at)
        f    == FormatOf(d)
        stop == IF k < MinOccurs(d) THEN [o EXCEPT !.res = "fewer"] ELSE o
        full == k >= MaxEffective(d)
        body == Children(ChildDecls(d), 1,
                         IF Group(d) THEN o ELSE [o EXCEPT !.at = @ + MatchedLines(f, rest)])
        done == IF body.res = "ok" /\ Target(d) /\ lines[o.at + 1] \in fileDecl.filter
                THEN [body EXCEPT !.found = Append(@, <<o.at, body.at>>)]
                ELSE body
    IN  IF o.res # "ok" \/ full THEN o
        ELSE IF MoreFails(rest, tail) THEN [o EXCEPT !.res = "failed"]
        ELSE IF rest = <<>> THEN stop
        ELSE IF MatchFails(f, rest, tail) THEN [o EXCEPT !.res = "failed"]
        ELSE IF MatchedLines(f, rest) = 0 THEN stop
        ELSE Instances(d, k + 1, done)

(* Reads declaration ds[i] and those after it. *)
Children(ds, i, o) ==
    IF i > Len(ds) THEN o ELSE Children(ds, i + 1, Instances(ds[i], 0, o))

WholeFile ==
    LET o == Children(ChildDecls(Root), 1, Outcome("ok", 0, <<>>))
        rest == RestFrom(o.at)
    IN  IF o.res # "ok" THEN o
        ELSE IF MoreFails(rest, tail) THEN [o EXCEPT !.res = "failed"]
        ELSE IF rest # <<>> THEN [o EXCEPT !.res = "unexpected"]
        ELSE [o EXCEPT !.res = "EOF"]

(***************************************************************************)
(* When the stream has ended, it ended the way the recursive descent says, *)
(* having delivered exactly the targets it finds, complete, in input order *)
(* and each once (Read, readRec, recDone and recNext together).            *)
(***************************************************************************)
AgreesWithDescent ==
    reply.res \notin {"none", "node"} =>
        /\ reply.res = WholeFile.res
        /\ delivered = WholeFile.found

-----------------------------------------------------------------------------
RECURSIVE InstanceEnds(_, _), RepeatEnds(_, _, _), SeqEnds(_, _, _)

(* Where one instance of d that starts after line i may end. *)
InstanceEnds(d, i) ==
    IF Group(d) THEN SeqEnds(ChildDecls(d), 1, {i})
    ELSE LET k == MatchedLines(fileDecl.format[d], RestFrom(i)) IN
         IF k = 0 THEN {} ELSE SeqEnds(ChildDecls(d), 1, {i + k})

(* Where d, k instances of it being there at each of the places at, may end. *)
RepeatEnds(d, k, at) ==
    LET more == UNION {InstanceEnds(d, i) : i \in at} IN
    (IF k >= MinOccurs(d) THEN at ELSE {}) \cup
    (IF at = {} \/ k >= MaxEffective(d) \/ k > Len(lines) THEN {}
     ELSE RepeatEnds(d, k + 1, more))

SeqEnds(ds, j, at) ==
    IF j > Len(ds) THEN at ELSE SeqEnds(ds, j + 1, RepeatEnds(ds[j], 0, at))

(***************************************************************************)
(* io.EOF is only reported for a file of the declared language: there is a *)
(* way to split all of its lines into records such that every min and max  *)
(* holds at every level, a max of 0 being 1.                               *)
(***************************************************************************)
AcceptedFileConforms ==
    reply.res = "EOF" => Len(lines) \in InstanceEnds(Root, 0)
=============================================================================
