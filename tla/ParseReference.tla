--------------------------- MODULE ParseReference ---------------------------
(***************************************************************************)
(* What a schema means: which transform_declarations are accepted, and     *)
(* what they make of a record.  Nothing here is resolved in advance,       *)
(* sorted or cached: a template is looked up where it is used, and every   *)
(* declaration is evaluated at its node each time it is needed.            *)
(***************************************************************************)
EXTENDS ParseCtx

-----------------------------------------------------------------------------
(* Every declaration inside one. *)
RECURSIVE Parts(_)
Parts(d) ==
    LET inside(ds) == UNION {Parts(c) : c \in Range(ds)}
    IN  {d} \cup inside(d.dyn)
            \cup (IF d.func = <<>> THEN {} ELSE inside(d.func[1].args))
            \cup (IF d.array = <<>> THEN {} ELSE inside(d.array[1]))
            \cup (IF d.object = <<>> THEN {}
                  ELSE inside([i \in DOMAIN d.object[1] |-> d.object[1][i].decl]))

TemplatesOf(d) == {p.template : p \in Parts(d)} \ {None}

(* Those names and all that they need; and what FINAL_OUTPUT needs. *)
RECURSIVE AllNeeded(_)
AllNeeded(names) ==
    LET more == UNION {TemplatesOf(decls[t]) : t \in names \cap DOMAIN decls}
    IN  IF more \subseteq names THEN names ELSE AllNeeded(names \cup more)

Needed == AllNeeded({FinalOutput})

(* The xpaths on the way from a site through templates to what it stands for. *)
RECURSIVE XPathsOnTheWay(_)
XPathsOnTheWay(d) ==
    (IF XPathSet(d) THEN 1 ELSE 0) +
    (IF d.template = None THEN 0 ELSE XPathsOnTheWay(decls[d.template]))

WellFormed ==
    /\ SchemaValid(decls)
    /\ Needed \subseteq DOMAIN decls
    /\ \A t \in Needed : t \notin AllNeeded(TemplatesOf(decls[t]))
    /\ \A t \in Needed : \A p \in Parts(decls[t]) :
          /\ p.xpath = None \/ p.dyn = <<>>
          /\ p.func # <<>> => p.func[1].name \in CustomFuncs
          /\ p.parse \in CustomParseFuncs \cup {None}
          /\ XPathsOnTheWay(p) <= 1

(* A schema is rejected for a cause and only then: one that is accepted      *)
(* needs only templates that exist and do not need themselves, names only    *)
(* functions that are registered, and says once where each value is; one     *)
(* that says all that is rejected only when the first file format to claim   *)
(* it rejects it, or none claims it (schemahandler.go:35, validate.go:48).   *)
RejectedForCause ==
    LET claims == {i \in DOMAIN verdicts : verdicts[i] # "pass"}
    IN  /\ handler = "created" => WellFormed /\ verdicts[Min(claims)] = "ok"
        /\ handler = "failed" /\ WellFormed =>
              /\ verdicts # <<>>
              /\ claims = {} \/ verdicts[Min(claims)] = "invalid"

-----------------------------------------------------------------------------
(* A template is the declaration it names, at the xpath of either. *)
RECURSIVE Expanded(_)
Expanded(d) ==
    IF d.template = None THEN d
    ELSE LET t == Expanded(decls[d.template])
         IN  IF XPathSet(d) THEN [t EXCEPT !.xpath = d.xpath, !.dyn = d.dyn] ELSE t

Value(v) == [ok |-> TRUE, val |-> v]

Settled(d, v) ==
    LET w == Normalized(d, v)
    IN  IF ~w.ok THEN NoOutput ELSE Value(IF w.saved THEN w.val ELSE Nil)

(* What is left of the values once those not worth keeping are dropped. *)
Kept(rs, ds) ==
    [i \in {j \in DOMAIN rs : rs[j].val = Nil => ds[j].keep} |-> rs[i].val]

RECURSIVE Meaning(_, _, _)

(* The nodes a declaration selects: none when its xpath_dynamic has no text. *)
Selected(n, d) ==
    LET r == Meaning(n, d.dyn[1], TRUE)
        blank == d.dyn # <<>> /\ ~(r.ok /\ IsText(r.val) /\ Trimmed[r.val[2]] # "")
        xpath == IF d.dyn # <<>> THEN r.val[2] ELSE d.xpath
    IN  IF ~XPathSet(d) THEN Value(<<n>>)
        ELSE IF blank THEN Value(<<>>)
        ELSE IF xpath = Invalid THEN NoOutput
        ELSE Value(MatchAll(n, xpath))

MeaningOfArray(n, d) ==
    LET es == [i \in DOMAIN d.array[1] |-> Expanded(d.array[1][i])]
        at == [i \in DOMAIN es |-> Selected(n, es[i])]
        of(i) == [j \in DOMAIN at[i].val |-> Meaning(at[i].val[j], es[i], FALSE)]
        kept(i) == SelectSeq(of(i), LAMBDA r : r.val = Nil => es[i].keep)
        all == FlattenSeq([i \in DOMAIN es |-> kept(i)])
    IN  IF \E i \in DOMAIN es : ~at[i].ok \/ ~AllOk(of(i)) THEN NoOutput
        ELSE Settled(d, SliceOf([k \in DOMAIN all |-> all[k].val]))

MeaningOfObject(n, d) ==
    LET ms == d.object[1]
        rs == [i \in DOMAIN ms |-> Meaning(n, ms[i].decl, TRUE)]
        kept == Kept(rs, [i \in DOMAIN ms |-> Expanded(ms[i].decl)])
    IN  IF ~AllOk(rs) THEN NoOutput
        ELSE Settled(d, <<"object", {<<ms[i].name, kept[i]>> : i \in DOMAIN kept}>>)

MeaningOfFunc(n, d) ==
    LET f  == d.func[1]
        rs == [i \in DOMAIN f.args |-> Meaning(n, f.args[i], TRUE)]
    IN  IF ~AllOk(rs) \/ (f.name = "fail" /\ ~f.ignore) THEN NoOutput
        ELSE Settled(d, Call(f, n, [i \in DOMAIN rs |->
                            IF rs[i].val = Nil THEN <<"string", "">> ELSE rs[i].val]))

(* The value of a declaration at a node; it selects its own unless told not to. *)
Meaning(n, site, select) ==
    LET d == Expanded(site)
        at == IF select THEN Selected(n, d) ELSE Value(<<n>>)
        k == at.val[1]
    IN  CASE d.const # None    -> Settled(d, <<"string", d.const>>)
          [] d.external # None -> IF d.external \in DOMAIN Externals
                                  THEN Settled(d, <<"string", Externals[d.external]>>)
                                  ELSE NoOutput
          [] d.array # <<>>    -> MeaningOfArray(n, d)
          [] OTHER ->
                IF ~at.ok \/ Len(at.val) > 1 THEN NoOutput
                ELSE IF at.val = <<>> THEN Value(Nil)
                ELSE IF d.object # <<>> THEN MeaningOfObject(k, d)
                ELSE IF d.func # <<>> THEN MeaningOfFunc(k, d)
                ELSE Settled(d, <<"string", Tree[k].text>>)

-----------------------------------------------------------------------------
(* Where the code departs from it, see README: an xpath_dynamic with an      *)
(* array, an object or array that is empty, and a declaration with an xpath  *)
(* that is an element of an array and is also used elsewhere.                *)
Used == UNION {Parts(decls[t]) : t \in Needed}

Elements == UNION {Range(p.array[1]) : p \in {q \in Used : q.array # <<>>}}

Others ==
    UNION {Range(p.dyn) : p \in Used} \cup
    UNION {Range(p.func[1].args) : p \in {q \in Used : q.func # <<>>}} \cup
    UNION {{m.decl : m \in Range(p.object[1])} : p \in {q \in Used : q.object # <<>>}}

Ordinary ==
    /\ \A p \in Used : \A q \in Range(p.dyn) : \A r \in Parts(Expanded(q)) : r.array = <<>>
    /\ \A p \in Used : p.object # <<<<>>>> /\ p.array # <<<<>>>>
    /\ \A d \in {Expanded(e) : e \in Elements} \cap {Expanded(e) : e \in Others} : ~XPathSet(d)

Agrees == output = Meaning(record, decls[FinalOutput], FALSE)

(* A record comes out as its declarations say, with every value computed at  *)
(* the node it belongs to, whatever template it came from and whatever was   *)
(* computed before it; it fails if and only if one of them does.  (parse.go: *)
(* 37: results are cached by node and hash.)                                 *)
OutputAsDeclared ==
    (/\ record # 0 /\ Ordinary
     /\ \A p \in Used : p.array # <<>> => Len(p.array[1]) < 10) => Agrees

(* The elements of an array come out in the order they are declared in,      *)
(* however many they are (doc/transforms.md:92,117).                         *)
ArrayOrder == record # 0 /\ Ordinary => Agrees
=============================================================================
