----------------------------- MODULE EdiReference -----------------------------
(***************************************************************************)
(* Independent accounts of what the EDI reader should make of an input: a  *)
(* recursive descent reading of the whole file, which starts over for as   *)
(* long as a segment follows that may start the file; and the language of  *)
(* a file declaration, which says which files are properly repeated        *)
(* segments at all.                                                        *)
(***************************************************************************)
EXTENDS EdiReader

(* An outcome so far: how it goes, the segments consumed, the targets found. *)
Outcome(res, at, found) == [res |-> res, at |-> at, found |-> found]

AtEnd(o)     == o.at = Len(segs)
Starts(d, o) == ~AtEnd(o) /\ NameOf[segs[o.at + 1]] = fileDecl.name[FirstSeg[d]]

(* Whether the segment can be taken for an instance of d, which it starts. *)
Incomplete(d, o) == ~Group(d) /\ ~(fileDecl.required[d] \subseteq Present[segs[o.at + 1]])

(* The max that segDone makes of a declared one: it compares after it counts. *)
MaxEffective(d) == IF MaxOccurs(d) >= 1 THEN MaxOccurs(d) ELSE 1

RECURSIVE Instances(_, _, _), ChildInstances(_, _, _)

(* Reads the remaining instances of declaration d, k of them being read already. *)
Instances(d, k, o) ==
    LET body == ChildInstances(Children(d), 1, IF Group(d) THEN o ELSE [o EXCEPT !.at = @ + 1])
        done == IF body.res = "ok" /\ Target(d) /\ segs[o.at + 1] \in fileDecl.filter
                THEN [body EXCEPT !.found = Append(@, <<o.at, body.at>>)]
                ELSE body
    IN  IF o.res # "ok" \/ k >= MaxEffective(d) THEN o
        ELSE IF AtEnd(o) /\ tail = "ERR" THEN [o EXCEPT !.res = "failed"]
        ELSE IF ~Starts(d, o) THEN IF k < MinOccurs(d) THEN [o EXCEPT !.res = "fewer"] ELSE o
        ELSE IF Incomplete(d, o) THEN [o EXCEPT !.res = "invalid"]
        ELSE Instances(d, k + 1, done)

(* Reads declaration ds[i] and those after it. *)
ChildInstances(ds, i, o) ==
    IF i > Len(ds) THEN o ELSE ChildInstances(ds, i + 1, Instances(ds[i], 0, o))

RECURSIVE WholeFile(_)
WholeFile(at) ==
    LET o == ChildInstances(Children(Root), 1, at)
    IN  IF o.res # "ok" THEN o
        ELSE IF AtEnd(o) THEN [o EXCEPT !.res = IF tail = "ERR" THEN "failed" ELSE "EOF"]
        ELSE IF Starts(Root, o) THEN WholeFile(o)
        ELSE [o EXCEPT !.res = "unexpected"]

(***************************************************************************)
(* When the stream has ended, it ended the way the recursive descent says, *)
(* having delivered exactly the targets it finds, complete, in input order *)
(* and each once, over all the times that the root was started             *)
(* (edi/reader.go: Read, segDone and segNext together).                    *)
(***************************************************************************)
AgreesWithDescent ==
    reply.res \notin {"none", "node"} =>
        LET o == WholeFile(Outcome("ok", 0, <<>>)) IN
        reply.res = o.res /\ delivered = o.found

-----------------------------------------------------------------------------
RECURSIVE InstanceEnds(_, _), RepeatEnds(_, _, _), SeqEnds(_, _, _), RootEnds(_)

(* Where one instance of d that starts after segment i may end. *)
InstanceEnds(d, i) ==
    IF Group(d) THEN SeqEnds(Children(d), 1, {i})
    ELSE IF i < Len(segs) /\ NameOf[segs[i + 1]] = fileDecl.name[d]
            /\ fileDecl.required[d] \subseteq Present[segs[i + 1]]
    THEN SeqEnds(Children(d), 1, {i + 1})
    ELSE {}

(* Where d, k instances of it being there at each of the places at, may end. *)
RepeatEnds(d, k, at) ==
    (IF k >= MinOccurs(d) THEN at ELSE {}) \cup
    (IF at = {} \/ k >= MaxEffective(d) \/ k > Len(segs) THEN {}
     ELSE RepeatEnds(d, k + 1, UNION {InstanceEnds(d, i) : i \in at}))

SeqEnds(ds, j, at) ==
    IF j > Len(ds) THEN at ELSE SeqEnds(ds, j + 1, RepeatEnds(ds[j], 0, at))

(* Where any further number of roots may end. *)
RootEnds(at) ==
    LET more == at \cup UNION {InstanceEnds(Root, i) : i \in at} IN
    IF more = at THEN at ELSE RootEnds(more)

(***************************************************************************)
(* io.EOF is only reported for a file that is one or more sequences of     *)
(* properly repeated top-level segments, each with its elements.           *)
(***************************************************************************)
AcceptedFileConforms ==
    reply.res = "EOF" => Len(segs) \in RootEnds(InstanceEnds(Root, 0))
=============================================================================
