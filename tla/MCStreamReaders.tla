--------------------------- MODULE MCStreamReaders ---------------------------
(***************************************************************************)
(* All xml documents of at most MaxElems elements with two names, more     *)
(* than one at the top included.  Json values with objects and arrays of   *)
(* at most two items, nested twice, and one more around them; two such     *)
(* values, not nested, one after the other.  Xpaths of up to two steps.    *)
(***************************************************************************)
EXTENDS StreamReaders, TLC

CONSTANT MaxElems

NamesVal == {"a", "b"}

Child(n)   == [deep |-> FALSE, name |-> n, has |-> Star]
Desc(n)    == [deep |-> TRUE, name |-> n, has |-> Star]
With(s, h) == [s EXCEPT !.has = h]

(* The sequences of elements, one after another, with n elements in all. *)
Forests[n \in 0..MaxElems] ==
    IF n = 0 THEN {<<>>}
    ELSE {<<name>> \o f \o <<End>> \o g :
              <<name, f, g>> \in UNION {NamesVal \X Forests[k] \X Forests[n - 1 - k] : k \in 0..(n - 1)}}

XmlXPaths ==
    { <<>>, <<Child("a")>>, <<Child(Star)>>, <<Child("a"), Child("b")>>,
      <<Child(Star), Child("b")>>, <<Desc("b")>>, <<Desc("a"), Child("b")>>,
      <<With(Child("a"), "b")>>, <<Child("a"), With(Child("b"), "a")>>,
      <<Child("a"), With(Child(Star), "b")>>, <<Child("a"), Child("b"), With(Child("b"), "a")>> }

Object(items) == <<"{">> \o items \o <<"}">>
Array(items)  == <<"[">> \o items \o <<"]">>

Flat == {<<Value>>, Object(<<>>), Array(<<>>), Array(<<Value>>), Object(<<"a", Value>>),
         Object(<<"b", Value>>), Object(<<"a", Value, "b", Value>>)}

Nested ==
    {Object(<<k>> \o u) : k \in NamesVal, u \in Flat} \cup
    {Object(<<"a">> \o u \o <<"b">> \o v) : u \in Flat, v \in Flat} \cup
    {Array(u \o v) : u \in Flat, v \in Flat}

(* One value after another. *)
TwoValues == {u \o v : u \in Flat, v \in Flat}

JsonXPaths ==
    { <<>>, <<Child("a")>>, <<Child(Star)>>, <<Child("a"), Child("b")>>,
      <<Child(Star), Child(Star)>>, <<Desc("b")>>, <<Desc(Star), Child("a")>>,
      <<With(Child("a"), "b")>>, <<With(Child(Star), "a")>>, <<Child("a"), With(Child(Star), "b")>> }

InputsVal ==
    [xml  |-> UNION {Forests[n] : n \in 0..MaxElems},
     json |-> Flat \cup Nested \cup {Object(<<"a">> \o u) : u \in Nested} \cup
              {Array(u) : u \in Nested} \cup TwoValues]

XPathsVal == [xml |-> XmlXPaths, json |-> JsonXPaths]
=============================================================================
