---------------------------- MODULE Declarations ----------------------------
(***************************************************************************)
(* The transform_declarations of a schema: what the JSON schema admits     *)
(* (validation/transformDeclarations.go), and how they are resolved into   *)
(* one tree (transform/decl.go, transform/validate.go).                    *)
(*                                                                         *)
(* A declaration is a record of the fields of Decl.  A missing string is   *)
(* None; what may be nil is a sequence of at most one; the members of an   *)
(* object are in the order of their names.  The hash of a declaration is   *)
(* what it is computed from: its public part, as deepCopy leaves it.       *)
(***************************************************************************)
EXTENDS Naturals, SequencesExt

CONSTANTS
    CustomFuncs,        \* the names of the registered custom functions
    CustomParseFuncs    \* the same for custom_parse

None == "(nil)"
FinalOutput == "FINAL_OUTPUT"

(* The declaration with nothing set. *)
Bare ==
    [const |-> None, external |-> None, xpath |-> None, dyn |-> <<>>, func |-> <<>>,
     parse |-> None, template |-> None, object |-> <<>>, array |-> <<>>,
     type |-> None, noTrim |-> FALSE, keep |-> FALSE,
     name |-> None, index |-> 0, kind |-> None, children |-> <<>>, hash |-> <<>>]

XPathSet(d) == d.xpath # None \/ d.dyn # <<>>

-----------------------------------------------------------------------------
(* The JSON schema: the fields that are set fit exactly one of the kinds.  *)
(* The content of xpath_dynamic is not looked at, see README.              *)

SetFields(d) ==
    {f \in {"const", "external", "xpath", "parse", "template", "type"} : d[f] # None} \cup
    {f \in {"dyn", "func", "object", "array"} : d[f] # <<>>} \cup
    {f \in {"noTrim", "keep"} : d[f]}

XPathFields == {"xpath", "dyn"}
ValueFields == {"type", "noTrim", "keep"}

MayHave ==
    [const    |-> {"const"} \cup ValueFields,
     external |-> {"external"} \cup ValueFields,
     field    |-> XPathFields \cup ValueFields,
     func     |-> {"func"} \cup XPathFields \cup ValueFields,
     parse    |-> {"parse"} \cup XPathFields \cup ValueFields,
     object   |-> {"object", "keep"} \cup XPathFields,
     array    |-> {"array", "keep"},
     template |-> {"template"} \cup XPathFields]

Kinds == DOMAIN MayHave

RECURSIVE Admitted(_, _)
Admitted(d, kinds) ==
    /\ \E k \in kinds : /\ SetFields(d) \subseteq MayHave[k]
                        /\ k \in SetFields(d) \/ k = "field"
    /\ d.object # <<>> => \A m \in Range(d.object[1]) : Admitted(m.decl, Kinds)
    /\ d.array # <<>> => \A e \in Range(d.array[1]) : Admitted(e, Kinds \ {"array"})
    /\ d.func # <<>> => \A a \in Range(d.func[1].args) : Admitted(a, Kinds \ {"object"})

SchemaValid(decls) ==
    FinalOutput \in DOMAIN decls /\ \A t \in DOMAIN decls : Admitted(decls[t], Kinds)

-----------------------------------------------------------------------------
(* resolveKind *)
KindOf(d) ==
    CASE d.const # None    -> "const"
      [] d.external # None -> "external"
      [] d.func # <<>>     -> "func"
      [] d.parse # None    -> "parse"
      [] d.object # <<>>   -> "object"
      [] d.array # <<>>    -> "array"
      [] d.template # None -> "template"
      [] OTHER             -> "field"

(* Objects and arrays that are empty are nil in the copy. *)
IsNil(s) == s = <<>> \/ s = <<<<>>>>

RECURSIVE DeepCopy(_)
DeepCopy(d) ==
    LET copied(s) == [i \in DOMAIN s |-> DeepCopy(s[i])]
    IN  [d EXCEPT
          !.dyn    = copied(@),
          !.func   = [i \in DOMAIN @ |-> [@[i] EXCEPT !.args = copied(@)]],
          !.object = IF IsNil(@) THEN <<>>
                     ELSE <<[i \in DOMAIN @[1] |-> [@[1][i] EXCEPT !.decl = DeepCopy(@)]]>>,
          !.array  = IF IsNil(@) THEN <<>> ELSE <<copied(@[1])>>,
          !.name = None, !.index = 0, !.kind = None, !.children = <<>>, !.hash = <<>>]

(* computeDeclHash: equal for the declarations with equal public parts. *)
ComputeDeclHash(d) == <<DeepCopy(d)>>

-----------------------------------------------------------------------------
(* The fully qualified name of the i-th element ends in "elem[i]"; as a    *)
(* string, the closing bracket comes after every digit.                    *)
RECURSIVE Digits(_)
Digits(i) == IF i < 10 THEN <<i>> ELSE Append(Digits(i \div 10), i % 10)

FQDN(i) == Append(Digits(i), 10)

FQDNLess(c, d) ==
    LET s == FQDN(c.index)
        t == FQDN(d.index)
    IN  \E k \in 1..Len(s) \cap DOMAIN t : s[k] < t[k] /\ \A j \in 1..(k - 1) : s[j] = t[j]

-----------------------------------------------------------------------------
(* Validation gives a declaration, or fails; which error comes first is left out. *)
Valid(d) == [ok |-> TRUE, decl |-> d]
Failure  == [ok |-> FALSE, decl |-> Bare]

AllOk(rs) == \A i \in DOMAIN rs : rs[i].ok

DeclsOf(rs) == [i \in DOMAIN rs |-> rs[i].decl]

RECURSIVE ValidateDecl(_, _, _)

ValidateObject(decls, d, stack) ==
    LET ms == d.object[1]
        rs == [i \in DOMAIN ms |->
                  ValidateDecl(decls, [ms[i].decl EXCEPT !.name = ms[i].name], stack)]
    IN  IF ~AllOk(rs) THEN Failure
        ELSE Valid([d EXCEPT
                     !.object = <<[i \in DOMAIN ms |-> [ms[i] EXCEPT !.decl = rs[i].decl]]>>,
                     !.children = @ \o DeclsOf(rs)])

ValidateArray(decls, d, stack) ==
    LET rs == [i \in DOMAIN d.array[1] |->
                  ValidateDecl(decls, [d.array[1][i] EXCEPT !.index = i], stack)]
    IN  IF ~AllOk(rs) THEN Failure
        ELSE Valid([d EXCEPT !.array = <<DeclsOf(rs)>>,
                             !.children = SortSeq(@ \o DeclsOf(rs), FQDNLess)])

ValidateCustomFunc(decls, d, stack) ==
    LET f  == d.func[1]
        rs == [i \in DOMAIN f.args |-> ValidateDecl(decls, f.args[i], stack)]
    IN  IF f.name \notin CustomFuncs \/ ~AllOk(rs) THEN Failure
        ELSE Valid([d EXCEPT !.func = <<[f EXCEPT !.args = DeclsOf(rs)]>>,
                             !.children = @ \o DeclsOf(rs)])

ValidateCustomParse(d) == IF d.parse \in CustomParseFuncs THEN Valid(d) ELSE Failure

(* strs.HasDup of the stack with the name on top. *)
Circular(stack, t) == t \in Range(stack)

(* The template's declaration with the xpath of the site; the site's is lost. *)
AtSite(t, d) == IF XPathSet(d) THEN [t EXCEPT !.xpath = d.xpath, !.dyn = d.dyn] ELSE t

(* A site and its template that both say where; only the xpath is looked at. *)
XPathTwiceStatic(t, d) == t.xpath # None /\ d.xpath # None
XPathTwice(t, d) == XPathSet(t) /\ XPathSet(d)

ValidateTemplate(decls, d, stack) ==
    IF d.template \notin DOMAIN decls \/ Circular(stack, d.template) THEN Failure
    ELSE LET t == DeepCopy(decls[d.template])
         IN  IF XPathTwice(t, d) THEN Failure
             ELSE ValidateDecl(decls, [AtSite(t, d) EXCEPT !.name = d.name, !.index = d.index],
                               Append(stack, d.template))

ValidateKind(decls, d, stack) ==
    CASE d.kind = "object"   -> ValidateObject(decls, d, stack)
      [] d.kind = "array"    -> ValidateArray(decls, d, stack)
      [] d.kind = "func"     -> ValidateCustomFunc(decls, d, stack)
      [] d.kind = "parse"    -> ValidateCustomParse(d)
      [] d.kind = "template" -> ValidateTemplate(decls, d, stack)
      [] OTHER               -> Valid(d)

(* validateXPath, then the kind, then the hash. *)
ValidateDecl(decls, d, stack) ==
    LET dyn == [i \in DOMAIN d.dyn |-> ValidateDecl(decls, d.dyn[i], stack)]
    IN  IF (d.xpath # None /\ d.dyn # <<>>) \/ ~AllOk(dyn) THEN Failure
        ELSE LET r == ValidateKind(decls, [d EXCEPT !.dyn = DeclsOf(dyn), !.kind = KindOf(d)], stack)
             IN  IF ~r.ok THEN Failure
                 ELSE Valid([r.decl EXCEPT !.hash = ComputeDeclHash(r.decl)])

ValidateTransformDeclarations(decls) ==
    ValidateDecl(decls, decls[FinalOutput], <<FinalOutput>>)
=============================================================================
