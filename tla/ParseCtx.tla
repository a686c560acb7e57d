------------------------------ MODULE ParseCtx ------------------------------
(***************************************************************************)
(* A schema is loaded (schemahandler.go, over Declarations), and records   *)
(* are transformed by its declarations (transform/parse.go, value.go,      *)
(* invokeCustomFunc.go), each with a cache of results of its own.          *)
(*                                                                         *)
(* A record is a tree of nodes, each with a name, its inner text and its   *)
(* children; an xpath is the name of children to select, "." or one that   *)
(* cannot be compiled.  A value is its type and its content; of a text it  *)
(* matters what it is without spaces around it, and whether it is an       *)
(* integer.  Booleans, converted like numbers, are left out.               *)
(***************************************************************************)
EXTENDS Declarations, FiniteSetsExt

CONSTANTS
    Schemas,    \* the transform_declarations to explore
    Tree,       \* the nodes of all records: [name, text, kids]
    Records,    \* the root nodes of the records
    Externals,  \* the external properties
    Trimmed,    \* the texts and what is left of them without spaces
    Numbers     \* the texts that are integers

Self    == "."
Invalid == "["      \* an xpath that cannot be compiled

ASSUME ParseAssumption ==
    /\ Records \subseteq DOMAIN Tree
    /\ \A n \in DOMAIN Tree : Tree[n].text \in DOMAIN Trimmed

VARIABLES
    decls,      \* the transform_declarations
    verdicts,   \* what each file format says of the schema, custom ones first
    handler,    \* "none", "failed", or "created"
    format,     \* the index of the file format in use
    final,      \* the resolved FINAL_OUTPUT
    record,     \* the record that was transformed last
    output      \* its result

vars == <<decls, verdicts, handler, format, final, record, output>>

-----------------------------------------------------------------------------
(* Values, and value.go. *)

Nil == <<"nil">>

(* A slice to which nothing was appended is nil, and comes out as null, but *)
(* it is a value: only the flag to keep empty ones saves it.                *)
NilSlice == <<"nil slice", <<>>>>
SliceOf(vs) == IF vs = <<>> THEN NilSlice ELSE <<"array", vs>>

IsText(v)  == v[1] = "string"
IsEmpty(v) == v \in {<<"string", "">>, <<"object", {}>>, <<"array", <<>>>>, NilSlice}

Trim(d, v) == IF IsText(v) /\ ~d.noTrim THEN <<v[1], Trimmed[v[2]]>> ELSE v

Convertible(v, type) ==
    \/ v[1] = type
    \/ v[1] \in {"int", "float"} /\ type \in {"int", "float", "string"}
    \/ IsText(v) /\ type \in {"int", "float"} /\ v[2] \in Numbers

(* normalizeAndSaveValue: whether it converts, the value, and whether that is saved. *)
Normalized(d, v) ==
    LET w == Trim(d, v)
        typed == w # Nil /\ d.type # None
        to == IF typed THEN <<d.type, w[2]>> ELSE w
    IN  [ok    |-> typed => Convertible(w, d.type),
         val   |-> to,
         saved |-> d.keep \/ (to # Nil /\ ~IsEmpty(to))]

-----------------------------------------------------------------------------
(* Results: the cache after the call, whether it succeeded, and the value. *)

Result(cache, v) == [cache |-> cache, ok |-> TRUE, val |-> v]
Error(cache)     == [cache |-> cache, ok |-> FALSE, val |-> Nil]

NormalizeAndReturn(cache, d, v) ==
    LET w == Normalized(d, v)
    IN  IF ~w.ok THEN Error(cache) ELSE Result(cache, IF w.saved THEN w.val ELSE Nil)

(* idr.MatchAll with an xpath that can be compiled. *)
MatchAll(n, xpath) ==
    IF xpath = Self THEN <<n>> ELSE SelectSeq(Tree[n].kids, LAMBDA k : Tree[k].name = xpath)

(* Where a declaration is used: as FINAL_OUTPUT, as an element of an array,  *)
(* or elsewhere; and whether linkParent has reached it, which it does not in *)
(* an xpath_dynamic.                                                         *)
Elsewhere(linked) == [at |-> "elsewhere", linked |-> linked]
AsElement(linked) == [at |-> IF linked THEN "element" ELSE "elsewhere", linked |-> linked]

XPathQueryNeeded(d, use) == XPathSet(d) /\ use.at = "elsewhere"

(* The key of the cache; one without the node. *)
CacheKeyDecl(n, d) == <<0, d.hash>>
CacheKey(n, d) == <<n, d.hash>>

RECURSIVE ParseNode(_, _, _, _)

(* computeXPath; an xpath_dynamic must yield a text that is not blank. *)
ComputeXPath(cache, n, d) ==
    IF d.dyn = <<>>
    THEN Result(cache, IF d.xpath = None THEN Self ELSE d.xpath)
    ELSE LET r == ParseNode(cache, n, d.dyn[1], Elsewhere(FALSE))
         IN  IF r.ok /\ IsText(r.val) /\ Trimmed[r.val[2]] # ""
             THEN Result(r.cache, r.val[2])
             ELSE Error(r.cache)

(* querySingleNodeFromXPath: the nodes found, none if the xpath has no value. *)
QuerySingleNode(cache, n, d, use) ==
    IF ~XPathQueryNeeded(d, use) THEN Result(cache, <<n>>)
    ELSE LET x == ComputeXPath(cache, n, d)
         IN  IF ~x.ok THEN Result(x.cache, <<>>)
             ELSE IF x.val = Invalid \/ Len(MatchAll(n, x.val)) > 1 THEN Error(x.cache)
             ELSE Result(x.cache, MatchAll(n, x.val))

(* What an object or an array takes of the value of a child: that, or nothing. *)
Taken(d, v) ==
    LET w == Normalized(d, v)
    IN  IF w.ok /\ w.saved THEN <<w.val>> ELSE <<>>

ParseObject(cache, n, d, use) ==
    FoldLeft(LAMBDA acc, c :
                IF ~acc.ok THEN acc
                ELSE LET r == ParseNode(acc.cache, n, c, Elsewhere(use.linked))
                         kept == {<<c.name, v>> : v \in ToSet(Taken(c, r.val))}
                     IN  IF r.ok THEN Result(r.cache, acc.val \cup kept) ELSE Error(r.cache),
             Result(cache, {}), d.children)

ParseElement(acc, k, c, use) ==
    IF ~acc.ok THEN acc
    ELSE LET r == ParseNode(acc.cache, k, c, AsElement(use.linked))
         IN  IF r.ok THEN Result(r.cache, acc.val \o Taken(c, r.val)) ELSE Error(r.cache)

ParseArray(cache, n, d, use) ==
    FoldLeft(LAMBDA acc, c :
                IF ~acc.ok THEN acc
                ELSE LET x == ComputeXPath(acc.cache, n, c)
                         from == Result(x.cache, acc.val)
                     IN  IF ~x.ok THEN from
                         ELSE IF x.val = Invalid THEN Error(x.cache)
                         ELSE FoldLeft(LAMBDA a, k : ParseElement(a, k, c, use),
                                       from, MatchAll(n, x.val)),
             Result(cache, <<>>), d.children)

(* prepArgValues; nil becomes the zero value of the parameter's type. *)
PrepArgValues(cache, n, f, use) ==
    FoldLeft(LAMBDA acc, a :
                IF ~acc.ok THEN acc
                ELSE LET r == ParseNode(acc.cache, n, a, Elsewhere(use.linked))
                     IN  IF ~r.ok THEN Error(r.cache)
                         ELSE Result(r.cache, Append(acc.val,
                                  IF r.val = Nil THEN <<"string", "">> ELSE r.val)),
             Result(cache, <<>>), f.args)

(* The custom functions: "first" returns its first argument, "list" all of *)
(* them, "text" the text of the current node, and "fail" an error.         *)
Call(f, n, args) ==
    CASE f.name = "first" -> args[1]
      [] f.name = "list"  -> <<"array", args>>
      [] f.name = "text"  -> <<"string", Tree[n].text>>
      [] f.name = "fail"  -> Nil

(* An error that is to be ignored is nil. *)
InvokeCustomFunc(cache, n, d, use) ==
    LET f == d.func[1]
        r == PrepArgValues(cache, n, f, use)
    IN  IF ~r.ok \/ (f.name = "fail" /\ ~f.ignore) THEN Error(r.cache)
        ELSE NormalizeAndReturn(r.cache, d, Call(f, n, r.val))

(* The kinds that first look for their node. *)
ParseAt(cache, n, d, use) ==
    CASE d.kind = "field" -> NormalizeAndReturn(cache, d, <<"string", Tree[n].text>>)
      [] d.kind = "parse" -> NormalizeAndReturn(cache, d, <<"string", Tree[n].text>>)
      [] d.kind = "func"  -> InvokeCustomFunc(cache, n, d, use)
      [] d.kind = "object" ->
            LET r == ParseObject(cache, n, d, use)
            IN  IF r.ok THEN NormalizeAndReturn(r.cache, d, <<"object", r.val>>) ELSE r

ParseKind(cache, n, d, use) ==
    CASE d.kind = "const" -> NormalizeAndReturn(cache, d, <<"string", d.const>>)
      [] d.kind = "external" ->
            IF d.external \in DOMAIN Externals
            THEN NormalizeAndReturn(cache, d, <<"string", Externals[d.external]>>)
            ELSE Error(cache)
      [] d.kind = "array" ->
            LET r == ParseArray(cache, n, d, use)
            IN  IF r.ok THEN NormalizeAndReturn(r.cache, d, SliceOf(r.val)) ELSE r
      [] OTHER ->
            LET q == QuerySingleNode(cache, n, d, use)
            IN  IF ~q.ok THEN q
                ELSE IF q.val = <<>> THEN Result(q.cache, Nil)
                ELSE ParseAt(q.cache, q.val[1], d, use)

(* Results are cached, errors are not. *)
ParseNode(cache, n, d, use) ==
    LET key == CacheKey(n, d)
    IN  IF key \in DOMAIN cache THEN Result(cache, cache[key])
        ELSE LET r == ParseKind(cache, n, d, use)
             IN  IF r.ok THEN [r EXCEPT !.cache = (key :> r.val) @@ @] ELSE r

-----------------------------------------------------------------------------
NoOutput == [ok |-> FALSE, val |-> Nil]

Init ==
    /\ decls \in Schemas
    /\ verdicts = <<>>
    /\ handler = "none" /\ format = 0
    /\ final = Bare
    /\ record = 0 /\ output = NoOutput

(* CreateSchemaHandler: the JSON schema, the declarations, then the formats  *)
(* in turn, of which the first that does not pass decides.                   *)
NoHandler(res) ==
    /\ handler' = res
    /\ UNCHANGED <<decls, format, final, record, output>>

InvalidSchema ==
    /\ handler = "none" /\ ~SchemaValid(decls)
    /\ NoHandler("failed") /\ UNCHANGED verdicts

InvalidDeclarations ==
    /\ handler = "none" /\ SchemaValid(decls)
    /\ ~ValidateTransformDeclarations(decls).ok
    /\ NoHandler("failed") /\ UNCHANGED verdicts

FormatVerdicts == {<<"pass", "pass">>, <<"pass", "ok">>, <<"ok", "ok">>, <<"invalid", "ok">>}

SelectFormat ==
    /\ handler = "none" /\ SchemaValid(decls)
    /\ ValidateTransformDeclarations(decls).ok
    /\ verdicts' \in FormatVerdicts
    /\ LET asked == {i \in DOMAIN verdicts' : verdicts'[i] # "pass"}
       IN  IF asked = {} \/ verdicts'[Min(asked)] = "invalid"
           THEN NoHandler("failed")
           ELSE /\ handler' = "created"
                /\ format' = Min(asked)
                /\ final' = ValidateTransformDeclarations(decls).decl
                /\ UNCHANGED <<decls, record, output>>

(* An ingester parses a record with a new context: the cache is empty. *)
Ingest(n) ==
    /\ handler = "created"
    /\ LET r == ParseNode(<<>>, n, final, [at |-> "FINAL_OUTPUT", linked |-> TRUE])
       IN  output' = [ok |-> r.ok, val |-> r.val]
    /\ record' = n
    /\ UNCHANGED <<decls, verdicts, handler, format, final>>

Next ==
    \/ InvalidSchema \/ InvalidDeclarations \/ SelectFormat
    \/ \E n \in Records : Ingest(n)

Spec == Init /\ [][Next]_vars
=============================================================================
