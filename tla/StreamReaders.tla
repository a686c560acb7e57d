---------------------------- MODULE StreamReaders ----------------------------
(***************************************************************************)
(* The xml and the json stream reader, and what both of them promise.      *)
(***************************************************************************)
EXTENDS XmlStreamReader, JsonStreamReader

Init == XmlInit \/ JsonInit

Next == Release \/ Read \/ TokenFails \/ XmlToken \/ JsonToken \/ Ended

Spec == Init /\ [][Next]_vars

-----------------------------------------------------------------------------
(* What the xpath selects; in xml, "." and "/" stand for the elements at the top. *)
TargetPath == IF format = "xml" THEN Criteria ELSE xpath

(***************************************************************************)
(* Why the candidate check may ask whether anything in the tree matches    *)
(* and take the current node for it: everything that matches is part of    *)
(* the candidate, all earlier matches being gone (xmlreader.go:27, 48-54,  *)
(* jsonreader.go:43, 64-70).  In json, "." and "/" match the root for good. *)
(***************************************************************************)
OnlyStreamMatches ==
    Simple(xpath) /\ TargetPath # <<>> => MatchesInStream(TargetPath)

(***************************************************************************)
(* Nothing is missed, repeated or returned too early: what was returned    *)
(* when the stream ends are the outermost nodes of the document that the   *)
(* xpath selects, up to where it could be read, in document order, whether *)
(* they are elements, properties, elements of arrays or the root.          *)
(***************************************************************************)
AgreesWithDocument ==
    Simple(xpath) /\ reply.res \in {"EOF", "failed"} =>
        delivered = TargetsOf(IF format = "xml" THEN XmlDocument[toks] ELSE JsonDocument[toks],
                              TargetPath)
=============================================================================
