------------------------- MODULE MCHierarchyReader -------------------------
(***************************************************************************)
(* Small file declarations and inputs for HierarchyReader: flat, nested,   *)
(* grouped and doubly grouped hierarchies; single-line, header/footer and  *)
(* rows based records; each record in turn as the target, with and without *)
(* a filter; and every input of at most MaxLines lines with both tails.    *)
(***************************************************************************)
EXTENDS HierarchyReference

CONSTANT MaxLines

(* The declarations in the order in which they are declared. *)
P == 1
Q == 2
R == 3
S == 4
MCDecls == {Root, P, Q, R, S}
MCLines == {"a1", "a2", "b"}
MCInputs == UNION {[1..n -> MCLines] : n \in 0..MaxLines}

(* Record formats. *)
As   == [rows |-> 0, header |-> {"a1", "a2"}, footer |-> MCLines]
Bs   == [rows |-> 0, header |-> {"b"}, footer |-> MCLines]
AtoB == [rows |-> 0, header |-> {"a1"}, footer |-> {"b"}]
Any1 == [rows |-> 1, header |-> {}, footer |-> {}]
Any2 == [rows |-> 2, header |-> {}, footer |-> {}]

(* Occurrences: <<min, max>>; 9 stands for "unbounded" (no input is as long). *)
None == <<0, 0>>
Opt  == <<0, 1>>
One  == <<1, 1>>
Many == <<0, 9>>
Some == <<1, 2>>
Two  == <<2, 2>>

(* A file declaration from the children, the groups, the occurrences and *)
(* the formats of the declarations it uses.                              *)
FileDeclOf(kids, groups, occ, fmt, tgt, pass) ==
    [ children |-> [d \in MCDecls |-> IF d \in DOMAIN kids THEN kids[d] ELSE <<>>],
      group    |-> groups \cup {Root},
      target   |-> tgt,
      min      |-> [d \in MCDecls |-> IF d \in DOMAIN occ THEN occ[d][1] ELSE 1],
      max      |-> [d \in MCDecls |-> IF d \in DOMAIN occ THEN occ[d][2] ELSE 1],
      format   |-> [d \in MCDecls |-> IF d \in DOMAIN fmt THEN fmt[d] ELSE Any1],
      filter   |-> pass ]

Filters == {MCLines, {"a1"}}

(* A header record, then any number of data records. *)
Flat(p, q, fq) ==
    {FileDeclOf(Root :> <<P, Q>>, {}, P :> p @@ Q :> q,
                P :> As @@ Q :> fq, t, f) : t \in {P, Q}, f \in Filters}

(* A record with child records, and a trailer. *)
Nested(p, q, r) ==
    {FileDeclOf(Root :> <<P, S>> @@ P :> <<Q, R>>, {},
                P :> p @@ Q :> q @@ R :> r @@ S :> Opt,
                P :> As @@ Q :> Bs @@ R :> Any1 @@ S :> Any2, t, f) :
        t \in {P, Q, R, S}, f \in Filters}

(* A group of a first record and a second one, and a trailer. *)
Grouped(p, q, r) ==
    {FileDeclOf(Root :> <<P, S>> @@ P :> <<Q, R>>, {P},
                P :> p @@ Q :> q @@ R :> r @@ S :> Opt,
                Q :> AtoB @@ R :> Bs @@ S :> As, t, f) :
        t \in {P, Q, R}, f \in Filters}

(* A group in a group. *)
Deep(p, q, r) ==
    {FileDeclOf(Root :> <<P>> @@ P :> <<Q, S>> @@ Q :> <<R>>,
                {P, Q}, P :> p @@ Q :> q @@ R :> r @@ S :> Opt,
                R :> As @@ S :> Bs, t, f) :
        t \in {P, Q, R}, f \in Filters}

MCSchemas ==
    Flat(One, Many, Any1) \cup Flat(Opt, Two, Any2) \cup Flat(None, Many, Any2) \cup
    Nested(Many, Opt, Opt) \cup Nested(Some, Some, One) \cup
    Grouped(Many, One, Many) \cup Grouped(Two, Opt, Some) \cup Grouped(None, Opt, None) \cup
    Deep(Many, Some, One) \cup Deep(Some, One, Many)
=============================================================================
