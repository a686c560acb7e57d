-------------------------- MODULE TransformContract --------------------------
(***************************************************************************)
(* What the Transform interface promises its caller (transform.go:10-27):  *)
(* Read returns the records of the input in order, each at most once, with *)
(* failures in between that do not matter, until an error that is final;   *)
(* RawRecord answers for the last Read.                                    *)
(*                                                                         *)
(* Records are numbered in the order of the input.                         *)
(***************************************************************************)
EXTENDS Naturals

CONSTANTS None, Failed, Final   \* nothing yet, ErrTransformFailed, the other errors

VARIABLES
    last,   \* what the last Read returned: a record or an error
    done,   \* the records up to this one are returned or given up
    raw     \* what the last RawRecord returned

Init == last = None /\ done = 0 /\ raw = None

(* A new record, or a failure, after which there may be more, or the end. *)
Read ==
    /\ last \notin Final
    /\ done' \in Nat
    /\ \/ done' > done /\ last' = done'
       \/ done' >= done /\ last' \in {Failed} \cup Final
    /\ UNCHANGED raw

(* "future calls to Read will always return the same error" *)
ReadAgain == last \in Final /\ UNCHANGED <<last, done, raw>>

(* The raw record of the last record read, or the error of the last Read. *)
RawRecord == raw' = last /\ UNCHANGED <<last, done>>

Next == Read \/ ReadAgain \/ RawRecord

Spec == Init /\ [][Next]_<<last, done, raw>>
==============================================================================
