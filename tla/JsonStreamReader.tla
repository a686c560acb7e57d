-------------------------- MODULE JsonStreamReader --------------------------
(***************************************************************************)
(* JSONStreamReader (idr/jsonreader.go).  A token is a bracket, a name, as *)
(* the key of a property, or Value, any number, string, boolean or null.   *)
(* The decoder only returns tokens of well-formed values, one after        *)
(* another; a stream of them may have more than one at the top.            *)
(***************************************************************************)
EXTENDS StreamReader

Value  == "v"
Openers == {"{", "["}
Closers == {"}", "]"}

(* What is open: brackets, and in the end Due, if the next token starts the *)
(* value of a key or of the top.                                            *)
Due == ":"

Pending(s) == IF s = <<>> THEN <<Due>> ELSE s

MayFollow(s, tok) ==
    LET top == Last(Pending(s))
    IN  \/ top = "{" /\ tok \in Names \cup {"}"}
        \/ top = "[" /\ tok \in Openers \cup {Value, "]"}
        \/ top = Due /\ tok \in Openers \cup {Value}

After(s, tok) ==
    LET p    == Pending(s)
        rest == IF Last(p) = Due THEN Front(p) ELSE p
    IN  IF tok \in Closers THEN Front(p)
        ELSE IF tok \in Names THEN Append(p, Due)
        ELSE IF tok \in Openers THEN Append(rest, tok)
        ELSE rest

OpenAfter(ts) ==
    LET open[i \in 0..Len(ts)] == IF i = 0 THEN <<>> ELSE After(open[i - 1], ts[i])
    IN  open

ASSUME JsonAssumption ==
    /\ Names \cap ({Value} \cup Openers \cup Closers) = {}
    /\ Inputs["json"] \subseteq Seq(Names \cup {Value} \cup Openers \cup Closers)
    /\ \A ts \in Inputs["json"] : \A i \in 1..Len(ts) : MayFollow(OpenAfter(ts)[i - 1], ts[i])

JsonInit ==
    /\ format = "json"
    /\ StreamInit
    /\ nodes = [n \in {Root} |-> NodeOf(n, Nil, {}, "", {"Root"}, 0)]

(* IsJSONObj(sp.cur) and so on; a property that holds an array is both. *)
Is(flag) == flag \in nodes[cur].kind

(* The cases of a token, with properties before arrays; and in the order of the code. *)
InArrPropFirst == Is("Arr") /\ ~Is("Prop")
InArr == Is("Arr")
InObj == Is("Obj")
OnProp == Is("Prop")

NewFlag == IF Tok = "{" THEN "Obj" ELSE "Arr"

(* Every use of sp.cur, once the value at the top is complete. *)
NilCur ==
    /\ format = "json" /\ TokenRead /\ cur = Nil
    /\ Return("panic", Nil)
    /\ UNCHANGED <<nodes, lastID, cur, stream, delivered>>

Token == format = "json" /\ TokenRead /\ cur # Nil

(* An anonymous object or array in an array. *)
OpenInArr ==
    LET t == Grown("", {NewFlag})
    IN  /\ Token /\ Tok \in Openers /\ InArr
        /\ nodes' = t
        /\ lastID' = NewID /\ cur' = NewID
        /\ stream' = StreamCandidateCheck(t, NewID)
        /\ ReadGoesOn

(* A property, which was checked when its key was read, or the root. *)
OpenValue ==
    /\ Token /\ Tok \in Openers /\ ~InArr
    /\ nodes' = [nodes EXCEPT ![cur].kind = @ \cup {NewFlag}]
    /\ stream' = IF OnProp THEN stream ELSE StreamCandidateCheck(nodes, cur)
    /\ ReadGoesOn
    /\ UNCHANGED <<lastID, cur>>

Close ==
    /\ Token /\ Tok \in Closers
    /\ WrapUpCurAndTargetCheck(nodes, cur, stream)
    /\ UNCHANGED lastID

Scalar == Token /\ Tok \notin Openers \cup Closers

Key ==
    LET t == Grown(Tok, {"Prop"})
    IN  /\ Scalar /\ InObj
        /\ nodes' = t
        /\ lastID' = NewID /\ cur' = NewID
        /\ stream' = StreamCandidateCheck(t, NewID)
        /\ ReadGoesOn

(* An anonymous node around a value in an array. *)
ValueInArr ==
    LET t == Grown("", {"Prop"})
    IN  /\ Scalar /\ ~InObj /\ InArr
        /\ lastID' = NewID
        /\ WrapUpCurAndTargetCheck(t, NewID, StreamCandidateCheck(t, NewID))

(* The value of a property, or of the root. *)
ValueOf ==
    /\ Scalar /\ ~InObj /\ ~InArr
    /\ WrapUpCurAndTargetCheck(nodes, cur,
           IF OnProp THEN stream ELSE StreamCandidateCheck(nodes, cur))
    /\ UNCHANGED lastID

JsonToken == NilCur \/ OpenInArr \/ OpenValue \/ Close \/ Key \/ ValueInArr \/ ValueOf

-----------------------------------------------------------------------------
(* How many brackets are open after token i; and which one closes that of token i. *)
Level(ts, i) ==
    Cardinality({k \in 1..i : ts[k] \in Openers}) - Cardinality({k \in 1..i : ts[k] \in Closers})

CloserOf(ts, i) == Min({k \in (i + 1)..Len(ts) : Level(ts, k) < Level(ts, i)})

(***************************************************************************)
(* The reader keeps no count of brackets: it goes up one node whenever a   *)
(* value is complete (jsonreader.go:143-187).  Yet there is a current node *)
(* for as long as the value at the top is not complete, whatever was       *)
(* returned, rejected or released of it; only then the next token panics.  *)
(***************************************************************************)
CurWhileInValue ==
    format = "json" /\ reply.res # "panic" => (cur = Nil <=> read > 0 /\ Level(toks, read) = 0)

(* The bracket that token i is directly within, or 0. *)
Context(ts, i) == Max({0} \cup {k \in 1..(i - 1) : ts[k] \in Openers /\ CloserOf(ts, k) > i})

(* Every other item of an object is a key; every item of an array is an element. *)
KeysAndElements(ts) ==
    LET items == {i \in 1..Len(ts) : ts[i] \notin Closers}
        in == [i \in items |-> Context(ts, i)]
        nth(i) == Cardinality({k \in items : k <= i /\ in[k] = in[i]})
    IN  {i \in items : in[i] # 0 /\ (ts[in[i]] = "[" \/ nth(i) % 2 = 1)}

(* The last token of the value of a key, of the root, or of an element. *)
EndOfValue(ts, i) ==
    LET v == IF i = 0 \/ ts[i] \in Names THEN i + 1 ELSE i
    IN  IF v <= Len(ts) /\ ts[v] \in Openers THEN CloserOf(ts, v) ELSE v

JsonDocument ==
    [ts \in Inputs["json"] |->
        DocOf({0} \cup KeysAndElements(ts),
              LAMBDA i : EndOfValue(ts, i),
              LAMBDA i : IF i # 0 /\ ts[i] \in Names THEN ts[i] ELSE "")]
=============================================================================
