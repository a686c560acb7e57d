--------------------------- MODULE XmlStreamReader ---------------------------
(***************************************************************************)
(* XMLStreamReader (idr/xmlreader.go).  A token is the name of an element  *)
(* that starts, or End.                                                    *)
(***************************************************************************)
EXTENDS StreamReader

End == "/"

(* The open elements after token i. *)
Depth(ts, i) == 2 * Cardinality({k \in 1..i : ts[k] # End}) - i

(* The decoder fails rather than return the end of an element that is not open. *)
ASSUME XmlAssumption ==
    /\ End \notin Names
    /\ Inputs["xml"] \subseteq Seq(Names \cup {End})
    /\ \A ts \in Inputs["xml"] : \A i \in 1..Len(ts) : Depth(ts, i) >= 0

XmlInit ==
    /\ format = "xml"
    /\ StreamInit
    /\ nodes = [n \in {Root} |-> NodeOf(n, Nil, {}, "", {}, 0)]

StartElement ==
    LET t == Grown(Tok, {})
    IN  /\ format = "xml" /\ TokenRead /\ Tok # End
        /\ nodes' = t
        /\ lastID' = NewID /\ cur' = NewID
        /\ stream' = StreamCandidateCheck(t, NewID)
        /\ ReadGoesOn

EndElement ==
    /\ format = "xml" /\ TokenRead /\ Tok = End
    /\ WrapUpCurAndTargetCheck(nodes, cur, stream)
    /\ UNCHANGED lastID

XmlToken == StartElement \/ EndElement

-----------------------------------------------------------------------------
(* The candidate check runs when an element has started, so that "." and   *)
(* "/" stand for the elements at the top.                                  *)
Criteria == IF xpath = <<>> THEN <<[deep |-> FALSE, name |-> Star, has |-> Star]>> ELSE xpath

(* The token that ends the element that token i starts. *)
EndOfElement(ts, i) ==
    IF i = 0 THEN Len(ts) + 1
    ELSE Min({k \in (i + 1)..Len(ts) : Depth(ts, k) < Depth(ts, i)})

XmlDocument ==
    [ts \in Inputs["xml"] |-> DocOf({0} \cup {i \in 1..Len(ts) : ts[i] # End},
                                    LAMBDA i : EndOfElement(ts, i),
                                    LAMBDA i : IF i = 0 THEN "" ELSE ts[i])]
=============================================================================
