--------------------------- MODULE TransformProofs ---------------------------
(***************************************************************************)
(* Theorems about the transform over the ingester: for any node pool, any  *)
(* number of records and any errors, it keeps the promises of              *)
(* TransformContract and releases every node once.                         *)
(***************************************************************************)
EXTENDS Transform, TLAPS

(* The last reply is what lastErr and the raw record say it was. *)
ReplyIsLast ==
    /\ reply.err = lastErr
    /\ lastErr = None /\ ~rawSet => reply.out = None

IInv ==
    /\ TypeOK
    /\ NodesOwnedOnce
    /\ RawRecordIsCurrent
    /\ ReplyIsLast

(* A new transform satisfies the inductive invariant. *)
LEMMA InitInv == Init => IInv
<1>. SUFFICES ASSUME Init PROVE IInv
  OBVIOUS
<1>. USE TransformAssumption DEF Init
<1>1. TypeOK
  BY DEF TypeOK, Outcomes
<1>2. NodesOwnedOnce
  BY DEF NodesOwnedOnce
<1>3. RawRecordIsCurrent /\ ReplyIsLast
  BY DEF RawRecordIsCurrent, ReplyIsLast
<1>. QED BY <1>1, <1>2, <1>3 DEF IInv

(* After the release that every Read starts with, every node is in the pool once. *)
LEMMA AllReleased ==
    ASSUME TypeOK, NodesOwnedOnce
    PROVE  /\ Released \in [Nodes -> Nat] /\ \A n \in Nodes : Released[n] = 1
           /\ Scrubbed \in [Nodes -> Nat]
<1>. USE TransformAssumption DEF TypeOK
<1>1. CASE rawNode = Nil
  BY <1>1 DEF Released, Scrubbed, NodesOwnedOnce
<1>2. CASE rawNode # Nil
  <2>1. rawNode \in Nodes /\ pool[rawNode] = 0
    BY <1>2 DEF NodesOwnedOnce
  <2>2. Released = [pool EXCEPT ![rawNode] = 1]
    BY <1>2, <2>1 DEF Released
  <2>3. \A n \in Nodes : n # rawNode => pool[n] = 1
    BY DEF NodesOwnedOnce
  <2>4. Scrubbed \in [Nodes -> Nat]
    BY <1>2, <2>1 DEF Scrubbed
  <2>. QED BY <2>1, <2>2, <2>3, <2>4
<1>. QED BY <1>1, <1>2

(* The reader's Read leaves the ingester with the node it returned, or none. *)
LEMMA IngestFacts ==
    ASSUME TypeOK, NodesOwnedOnce, NEW n, Ingest(n)
    PROVE  /\ n \in Nodes /\ rawNode' = n /\ n # Nil
           /\ pool' \in [Nodes -> Nat]
           /\ NodesOwnedOnce'
           /\ content' \in [Nodes -> Nat]
           /\ content'[n] = ingested'
           /\ ingested' = ingested + 1 /\ ingested' \in Nat /\ ingested \in Nat
<1>1. n \in Nodes /\ rawNode' = n /\ ingested' = ingested + 1 /\ ingested \in Nat
      /\ pool' = [Released EXCEPT ![n] = Released[n] - 1]
      /\ content' = [Scrubbed EXCEPT ![n] = ingested + 1]
  BY DEF Ingest, TypeOK
<1>2. /\ Released \in [Nodes -> Nat] /\ \A m \in Nodes : Released[m] = 1
      /\ Scrubbed \in [Nodes -> Nat]
  BY AllReleased
<1>3. Released[n] - 1 = 0
  BY <1>1, <1>2
<1>4. pool' = [Released EXCEPT ![n] = 0]
  BY <1>1, <1>3
<1>5. NodesOwnedOnce'
  BY <1>1, <1>2, <1>4 DEF NodesOwnedOnce
<1>. QED BY <1>1, <1>2, <1>4, <1>5, TransformAssumption

LEMMA IngestNothingFacts ==
    ASSUME TypeOK, NodesOwnedOnce, IngestNothing
    PROVE  /\ rawNode' = Nil
           /\ pool' \in [Nodes -> Nat]
           /\ NodesOwnedOnce'
           /\ content' \in [Nodes -> Nat]
           /\ ingested' = ingested /\ ingested \in Nat
<1>1. /\ Released \in [Nodes -> Nat] /\ \A m \in Nodes : Released[m] = 1
      /\ Scrubbed \in [Nodes -> Nat]
  BY AllReleased
<1>2. pool' = Released /\ content' = Scrubbed /\ rawNode' = Nil /\ ingested' = ingested
  BY DEF IngestNothing
<1>3. NodesOwnedOnce'
  BY <1>1, <1>2, TransformAssumption DEF NodesOwnedOnce
<1>. QED BY <1>1, <1>2, <1>3 DEF TypeOK

(* Whatever the reader fails with, the transform fails with an error of its own. *)
LEMMA FinishFails ==
    ASSUME NEW err \in ReaderErrs \cup {Failed}, Finish(None, err)
    PROVE  /\ lastErr' \in {Failed} \cup Final
           /\ ~rawSet'
           /\ reply' = [out |-> None, err |-> lastErr']
           /\ raw' = raw
<1>1. err # None
  BY TransformAssumption DEF ReaderErrs, Final
<1>. DEFINE e == IF IsContinuableError(err) THEN Failed ELSE err
<1>2. e \in {Failed} \cup Final
  BY DEF IsContinuableError
<1>3. e # None
  BY <1>2, TransformAssumption
<1>4. /\ lastErr' = e /\ rawSet' = (e = None)
      /\ reply' = [out |-> IF e = None THEN None ELSE None, err |-> e] /\ raw' = raw
  BY <1>1 DEF Finish
<1>. HIDE DEF e
<1>. QED BY <1>2, <1>3, <1>4

(* Every step keeps the inductive invariant. *)
LEMMA NextInv == IInv /\ [Next]_vars => IInv'
<1>. SUFFICES ASSUME IInv, [Next]_vars PROVE IInv'
  OBVIOUS
<1>. USE TransformAssumption
<1>1. TypeOK /\ NodesOwnedOnce /\ RawRecordIsCurrent /\ ReplyIsLast
  BY DEF IInv
<1>2. CASE ReadCeased
  <2>1. /\ lastErr \in Final /\ ~rawSet
        /\ reply' = [out |-> None, err |-> lastErr]
        /\ UNCHANGED <<pool, content, ingested, rawNode, rawSet, lastErr, raw>>
    BY <1>1, <1>2 DEF ReadCeased, Attempt, TypeOK, RawRecordIsCurrent
  <2>2. reply' \in Outcomes
    BY <2>1 DEF Outcomes
  <2>3. TypeOK'
    BY <1>1, <2>1, <2>2 DEF TypeOK
  <2>4. NodesOwnedOnce' /\ RawRecordIsCurrent' /\ ReplyIsLast'
    BY <1>1, <2>1 DEF NodesOwnedOnce, RawRecordIsCurrent, ReplyIsLast
  <2>. QED BY <2>3, <2>4 DEF IInv
<1>3. CASE ReadTransformed
  <2>1. PICK n \in Nodes : Ingest(n) /\ Finish(content'[n], None)
    BY <1>3 DEF ReadTransformed
  <2>2. /\ rawNode' = n /\ pool' \in [Nodes -> Nat] /\ NodesOwnedOnce'
        /\ content' \in [Nodes -> Nat] /\ content'[n] = ingested' /\ ingested' \in Nat
    BY <1>1, <2>1, IngestFacts
  <2>3. /\ lastErr' = None /\ rawSet' = TRUE
        /\ reply' = [out |-> content'[n], err |-> None] /\ raw' = raw
    BY <2>1 DEF Finish
  <2>4. reply' \in Outcomes
    BY <2>2, <2>3 DEF Outcomes
  <2>5. TypeOK'
    BY <1>1, <2>2, <2>3, <2>4 DEF TypeOK
  <2>6. pool'[n] = 0
    BY <2>2 DEF NodesOwnedOnce
  <2>7. RawRecordIsCurrent' /\ ReplyIsLast'
    BY <2>2, <2>3, <2>6 DEF RawRecordIsCurrent, ReplyIsLast
  <2>. QED BY <2>2, <2>5, <2>7 DEF IInv
<1>4. CASE ReadNotTransformed \/ ReadFails
  <2>1. /\ (\E n \in Nodes : Ingest(n)) \/ IngestNothing
        /\ \E err \in ReaderErrs \cup {Failed} : Finish(None, err)
    BY <1>4 DEF ReadNotTransformed, ReadFails, ReaderErrs
  <2>2. /\ rawNode' \in Nodes \cup {Nil} /\ pool' \in [Nodes -> Nat]
        /\ NodesOwnedOnce' /\ content' \in [Nodes -> Nat] /\ ingested' \in Nat
    BY <1>1, <2>1, IngestFacts, IngestNothingFacts
  <2>3. /\ lastErr' \in {Failed} \cup Final /\ ~rawSet'
        /\ reply' = [out |-> None, err |-> lastErr'] /\ raw' = raw
    BY <2>1, FinishFails
  <2>4. reply' \in Outcomes /\ rawSet' \in BOOLEAN
    <3>1. rawSet' = FALSE
      <4>1. PICK err \in ReaderErrs \cup {Failed} : Finish(None, err)
        BY <2>1
      <4>2. rawSet' \in BOOLEAN
        BY <4>1 DEF Finish
      <4>. QED BY <4>2, <2>3
    <3>. QED BY <2>3, <3>1 DEF Outcomes
  <2>5. TypeOK'
    BY <1>1, <2>2, <2>3, <2>4 DEF TypeOK
  <2>6. RawRecordIsCurrent' /\ ReplyIsLast'
    BY <2>3 DEF RawRecordIsCurrent, ReplyIsLast
  <2>. QED BY <2>2, <2>5, <2>6 DEF IInv
<1>5. CASE RawRecord
  <2>1. /\ UNCHANGED <<pool, content, ingested, rawNode, rawSet, lastErr, reply>>
        /\ raw' = IF lastErr # None THEN lastErr
                  ELSE IF rawSet THEN content[rawNode] ELSE None
    BY <1>5 DEF RawRecord
  <2>2. rawSet => content[rawNode] \in Nat
    BY <1>1 DEF TypeOK, RawRecordIsCurrent
  <2>3. TypeOK'
    BY <1>1, <2>1, <2>2 DEF TypeOK
  <2>4. NodesOwnedOnce' /\ RawRecordIsCurrent' /\ ReplyIsLast'
    BY <1>1, <2>1 DEF NodesOwnedOnce, RawRecordIsCurrent, ReplyIsLast
  <2>. QED BY <2>3, <2>4 DEF IInv
<1>6. CASE UNCHANGED vars
  BY <1>1, <1>6 DEF vars, IInv, TypeOK, NodesOwnedOnce, RawRecordIsCurrent, ReplyIsLast
<1>. QED BY <1>2, <1>3, <1>4, <1>5, <1>6 DEF Next

(***************************************************************************)
(* The inductive invariant of the transform: its types, nodes owned once,  *)
(* a current raw record, and a last reply that agrees with lastErr.        *)
(***************************************************************************)
THEOREM Invariance == Spec => []IInv
<1>1. Init => IInv
  BY InitInv
<1>2. IInv /\ [Next]_vars => IInv'
  BY NextInv
<1>. QED BY <1>1, <1>2, PTL DEF Spec

(* Every variable of the transform and its ingester stays within its type. *)
THEOREM TypeCorrect == Spec => []TypeOK
<1>1. IInv => TypeOK
  BY DEF IInv
<1>. QED BY <1>1, Invariance, PTL

(***************************************************************************)
(* No node is ever released twice or forgotten, whichever way a Read ends  *)
(* (ingester.go:42-49).                                                    *)
(***************************************************************************)
THEOREM ReleasedOnce == Spec => []NodesOwnedOnce
<1>1. IInv => NodesOwnedOnce
  BY DEF IInv
<1>. QED BY <1>1, Invariance, PTL

(***************************************************************************)
(* What RawRecord() gives is the live record the last output was made from *)
(* (transform.go:62-66, 73-81).                                            *)
(***************************************************************************)
THEOREM RawCurrent == Spec => []RawRecordIsCurrent
<1>1. IInv => RawRecordIsCurrent
  BY DEF IInv
<1>. QED BY <1>1, Invariance, PTL

(***************************************************************************)
(* The transform implements the promises of its interface's comments: its  *)
(* initial states map to initial states of the contract, and every step to *)
(* a step or a stutter.                                                    *)
(***************************************************************************)
THEOREM Refinement == Spec => Implements
<1>. USE TransformAssumption
<1>1. Init => Contract!Init
  BY DEF Init, Contract!Init, LastResult
<1>2. IInv /\ IInv' /\ [Next]_vars =>
         [Contract!Next]_<<LastResult, ingested, raw>>
  <2>. SUFFICES ASSUME IInv, IInv', [Next]_vars
                PROVE  Contract!Next \/ UNCHANGED <<LastResult, ingested, raw>>
    OBVIOUS
  <2>1. /\ TypeOK /\ NodesOwnedOnce /\ ReplyIsLast /\ RawRecordIsCurrent
        /\ ReplyIsLast' /\ TypeOK'
    BY DEF IInv
  <2>2. lastErr # None => LastResult = lastErr
    BY <2>1 DEF LastResult, ReplyIsLast
  <2>3. lastErr = None => LastResult = reply.out
    BY <2>1 DEF LastResult, ReplyIsLast
  <2>4. Attempt => LastResult \notin Final
    <3>1. CASE lastErr = None
      <4>1. rawSet => reply.out \in Nat
        BY <2>1 DEF RawRecordIsCurrent, TypeOK
      <4>2. ~rawSet => reply.out = None
        BY <2>1, <3>1 DEF ReplyIsLast
      <4>3. \A f \in Final : f \notin Nat /\ f # None
        BY DEF Final
      <4>. QED BY <3>1, <4>1, <4>2, <4>3, <2>3
    <3>2. CASE lastErr = Failed
      BY <3>2, <2>2
    <3>. QED BY <3>1, <3>2 DEF Attempt
  <2>5. CASE ReadCeased
    <3>1. lastErr # None /\ reply'.err = lastErr /\ ingested' = ingested /\ raw' = raw
      BY <2>5 DEF ReadCeased, Attempt
    <3>2. LastResult' = lastErr
      BY <3>1 DEF LastResult
    <3>. QED BY <3>1, <3>2, <2>2
  <2>6. CASE ReadTransformed
    <3>1. PICK n \in Nodes : Ingest(n) /\ Finish(content'[n], None)
      BY <2>6 DEF ReadTransformed
    <3>2. content'[n] = ingested' /\ ingested' = ingested + 1 /\ ingested' \in Nat
          /\ ingested \in Nat
      BY <2>1, <3>1, IngestFacts
    <3>3. reply' = [out |-> content'[n], err |-> None] /\ raw' = raw
      BY <3>1 DEF Finish
    <3>4. LastResult' = ingested'
      BY <3>2, <3>3 DEF LastResult
    <3>5. ingested' > ingested
      BY <3>2
    <3>. QED BY <2>4, <2>6, <3>2, <3>3, <3>4, <3>5
         DEF ReadTransformed, Contract!Next, Contract!Read
  <2>7. CASE ReadNotTransformed \/ ReadFails
    <3>1. /\ Attempt
          /\ (\E n \in Nodes : Ingest(n)) \/ IngestNothing
          /\ \E err \in ReaderErrs \cup {Failed} : Finish(None, err)
      BY <2>7 DEF ReadNotTransformed, ReadFails, ReaderErrs
    <3>2. ingested' \in Nat /\ ingested' >= ingested
      BY <2>1, <3>1, IngestFacts, IngestNothingFacts
    <3>3. /\ lastErr' \in {Failed} \cup Final /\ raw' = raw
          /\ reply' = [out |-> None, err |-> lastErr']
      BY <3>1, FinishFails
    <3>4. LastResult' = lastErr'
      BY <3>3 DEF LastResult
    <3>. QED BY <2>4, <3>1, <3>2, <3>3, <3>4 DEF Contract!Next, Contract!Read
  <2>8. CASE RawRecord
    <3>1. /\ reply' = reply /\ ingested' = ingested
          /\ raw' = IF lastErr # None THEN lastErr
                    ELSE IF rawSet THEN content[rawNode] ELSE None
      BY <2>8 DEF RawRecord
    <3>2. raw' = LastResult
      BY <2>1, <2>2, <2>3, <3>1 DEF RawRecordIsCurrent, ReplyIsLast
    <3>3. LastResult' = LastResult
      BY <3>1 DEF LastResult
    <3>. QED BY <3>1, <3>2, <3>3 DEF Contract!Next, Contract!RawRecord
  <2>9. CASE UNCHANGED vars
    BY <2>9 DEF vars, LastResult
  <2>. QED BY <2>5, <2>6, <2>7, <2>8, <2>9 DEF Next
<1>. QED BY <1>1, <1>2, Invariance, PTL DEF Spec, Implements, Contract!Spec
==============================================================================
