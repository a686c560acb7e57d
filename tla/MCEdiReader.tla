----------------------------- MODULE MCEdiReader -----------------------------
(***************************************************************************)
(* Small EDI declarations and inputs: segments with children, groups, a    *)
(* group that starts with a group, two declarations of the same name one   *)
(* after the other, segments that lack an element, top-level declarations  *)
(* that are started over, each in turn as the target; and every input of   *)
(* at most MaxSegs segments with both tails.                               *)
(***************************************************************************)
EXTENDS EdiReference, TLC

CONSTANT MaxSegs

(* The declarations in the order in which they are declared. *)
P == 1
Q == 2
R == 3
S == 4
MCDecls == {Root, P, Q, R, S}

(* Segment "isa0" lacks the element that others require of an ISA. *)
MCNames == {"ISA", "ST", "IEA"}
MCSegs == {"isa", "isa0", "st", "iea"}
MCNameOf == "isa" :> "ISA" @@ "isa0" :> "ISA" @@ "st" :> "ST" @@ "iea" :> "IEA"
MCPresent == [s \in MCSegs |-> IF s = "isa0" THEN {} ELSE {1}]
MCInputs == UNION {[1..n -> MCSegs] : n \in 0..MaxSegs}

(* Occurrences: <<min, max>>; 9 stands for -1, unbounded (no input is as long). *)
None == <<0, 0>>
Opt  == <<0, 1>>
One  == <<1, 1>>
Many == <<0, 9>>
Some == <<1, 2>>
Two  == <<2, 2>>

Filters == {MCSegs, {"isa", "st"}}

(* A file declaration from the children, the groups, the occurrences, the *)
(* names of the segments, and the segments that require their element.    *)
FileDeclOf(kids, groups, occ, names, strict, tgt, pass) ==
    [ children |-> [d \in MCDecls |-> IF d \in DOMAIN kids THEN kids[d] ELSE <<>>],
      group    |-> groups \cup {Root},
      target   |-> tgt,
      min      |-> [d \in MCDecls |-> IF d \in DOMAIN occ THEN occ[d][1] ELSE 1],
      max      |-> [d \in MCDecls |-> IF d \in DOMAIN occ THEN occ[d][2] ELSE 1],
      name     |-> [d \in MCDecls |-> IF d \in DOMAIN names THEN names[d] ELSE "IEA"],
      required |-> [d \in MCDecls |-> IF d \in strict THEN {1} ELSE {}],
      filter   |-> pass ]

(* Segments at the top level; the first one has a child, perhaps of its own name. *)
Flat(p, q, r, child) ==
    {FileDeclOf(Root :> <<P, R>> @@ P :> <<Q>>, {}, P :> p @@ Q :> q @@ R :> r,
                P :> "ISA" @@ Q :> child @@ R :> "IEA", {P}, t, f) :
        t \in {P, Q, R}, f \in Filters}

(* An envelope: a group of a first segment, repeated ones and a last one. *)
Envelope(p, r, s) ==
    {FileDeclOf(Root :> <<P>> @@ P :> <<Q, R, S>>, {P}, P :> p @@ R :> r @@ S :> s,
                Q :> "ISA" @@ R :> "ST" @@ S :> "IEA", {Q}, t, f) :
        t \in {P, Q, R, S}, f \in Filters}

(* A group that starts with a group, and a segment after it. *)
Deep(p, q, s) ==
    {FileDeclOf(Root :> <<P>> @@ P :> <<Q, S>> @@ Q :> <<R>>, {P, Q},
                P :> p @@ Q :> q @@ S :> s, R :> "ISA" @@ S :> "ST", {R}, t, f) :
        t \in {P, Q, R, S}, f \in Filters}

MCSchemas ==
    Flat(Opt, One, One, "ST") \cup Flat(Some, Many, Opt, "ISA") \cup
    Flat(None, None, Many, "ST") \cup
    Envelope(One, Many, One) \cup Envelope(Many, Some, Opt) \cup
    Deep(One, Two, Opt) \cup Deep(Many, Some, One)
=============================================================================
