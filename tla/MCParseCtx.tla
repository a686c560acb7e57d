---------------------------- MODULE MCParseCtx ----------------------------
(* Schemas with every kind of declaration, in pairs; three small records. *)
EXTENDS ParseReference

(* Ways to write a declaration. *)
With(d, f, v) == [d EXCEPT ![f] = v]
Keep(d)       == With(d, "keep", TRUE)
At(d, x)      == With(d, "xpath", x)
Dyn(d, e)     == With(d, "dyn", <<e>>)
Const(v)      == With(Bare, "const", v)
External(v)   == With(Bare, "external", v)
Field(x)      == At(Bare, x)
Object(ms)    == With(Bare, "object", <<ms>>)
Array(es)     == With(Bare, "array", <<es>>)
Template(t)   == With(Bare, "template", t)
Parse(p)      == With(Bare, "parse", p)
AsInt(d)        == With(d, "type", "int")
Func(f, args, ignore) == With(Bare, "func", <<[name |-> f, args |-> args, ignore |-> ignore]>>)
Member(n, d)  == [name |-> n, decl |-> d]

MCTree ==
    1 :> [name |-> "r", text |-> "1 1", kids |-> <<2, 3>>] @@
    2 :> [name |-> "a", text |-> "1", kids |-> <<>>] @@
    3 :> [name |-> "b", text |-> " ", kids |-> <<>>] @@
    4 :> [name |-> "r", text |-> "x1", kids |-> <<5, 6>>] @@
    5 :> [name |-> "a", text |-> " a", kids |-> <<7>>] @@
    6 :> [name |-> "a", text |-> "1", kids |-> <<>>] @@
    7 :> [name |-> "a", text |-> "1", kids |-> <<8>>] @@
    8 :> [name |-> "a", text |-> "x", kids |-> <<>>]
MCRecords == {1, 4, 5}

MCTrimmed == [t \in {"", "1", "a", "b", "c", "1 1", "x1", Self, Invalid, "x", "y"} |-> t] @@
             (" " :> "") @@ (" a" :> "a")
MCNumbers == {"1"}
MCExternals == "known" :> "a"
MCCustomFuncs == {"first", "list", "text", "fail"}
MCCustomParseFuncs == {"p"}

Leaves ==
    {Const(" a"), With(Const(" a"), "noTrim", TRUE), Keep(Const(" ")), AsInt(Const("1")),
     External("known"), External("unknown"),
     Bare, Field("a"), AsInt(Field("a")), Keep(Field("c")), Field(Invalid),
     Dyn(Bare, External("known")), Dyn(Bare, Const(" ")), Dyn(Keep(Bare), Template("c")),
     Parse("p"), At(Parse("q"), "a"),
     Func("text", <<>>, FALSE), At(Func("text", <<>>, FALSE), "b"),
     Func("list", <<Field("b"), Template("a")>>, FALSE), Func("first", <<Field("a")>>, FALSE),
     Func("fail", <<>>, FALSE), Func("fail", <<>>, TRUE), Func("none", <<>>, TRUE),
     Template("a"), Template("t"), At(Template("t"), "a"), At(Template("a"), "a"),
     Dyn(Template("a"), Const("a")), Dyn(Template("t"), External("known")),
     Template("u"), Template("v"), Template("o")}

Nested ==
    {At(Object(<<Member("x", Field("a")), Member("y", Template("a"))>>), "a"),
     Array(<<Template("a"), Field("b")>>), Array(<<Field("a"), Bare>>),
     Keep(Array(<<AsInt(Field("a"))>>)), Array(<<At(Template("t"), "a"), Dyn(Bare, Const("a"))>>),
     Array(<<Template("o"), Field("c")>>), Object(<<>>), Array(<<>>)}

(* "a" says where, "t" does not; "u" and "v" need each other; "o" needs "t" twice. *)
Templates ==
    "a" :> Field("a") @@ "c" :> Const("a") @@ "t" :> Template("s") @@
    "s" :> Object(<<Member("x", Bare), Member("y", Keep(Field("a")))>>) @@
    "u" :> Array(<<Template("v")>>) @@ "v" :> Func("first", <<Template("u")>>, FALSE) @@
    "o" :> Object(<<Member("x", At(Template("t"), "a")), Member("y", Template("t"))>>)

Schema(d) == FinalOutput :> d @@ Templates

Odd ==
    {At(Const("a"), "a"), Array(<<Array(<<>>)>>), Func("first", <<Object(<<>>)>>, FALSE),
     Template("nowhere"), Dyn(Field("a"), Const("a")), Dyn(Bare, Array(<<Bare>>))}

Final(kind, c, d) ==
    CASE kind = "one"    -> c
      [] kind = "object" -> Object(<<Member("x", c), Member("y", d)>>)
      [] kind = "array"  -> Array(<<c, d>>)

MCSchemas ==
    {Schema(Final(kind, c, d)) :
        kind \in {"one", "object", "array"}, c, d \in Leaves \cup Nested \cup Odd}

(* Arrays of one constant after another. *)
MCLongArrays ==
    {Schema(Array([i \in 1..n |-> Const(<<"a", "b", "c", "1", "x">>[(i % 5) + 1])])) : n \in 1..11}
=============================================================================
