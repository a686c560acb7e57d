------------------------------ MODULE Transform ------------------------------
(***************************************************************************)
(* transform (transform.go) over the omni.2.1 ingester (ingester.go) over  *)
(* any FormatReader.  The reader is external: every Read of it takes a     *)
(* node from the node pool and fills it with the next record of the input, *)
(* or fails, or does both; its Release puts the node back.                 *)
(*                                                                         *)
(* The raw record that RawRecord() returns is not a record of its own: it  *)
(* is a pointer to the one rawRecord inside the ingester, whose node is    *)
(* recycled by the next Read.                                              *)
(***************************************************************************)
EXTENDS Naturals

CONSTANTS
    Nodes,      \* the nodes of the node pool
    MaxRecords, \* bound: the number of records in the input
    Nil,        \* no node
    None,       \* no error; no output
    Failed,     \* errs.ErrTransformFailed
    EOF, Fatal, \* the errors a reader cannot continue after ...
    Bad         \* ... and any other one, which it can

ReaderErrs == {EOF, Fatal, Bad}
Final == {EOF, Fatal}

ASSUME TransformAssumption ==
    /\ Nil \notin Nodes
    /\ MaxRecords \in Nat
    /\ \A e \in {None, Failed, EOF, Fatal, Bad} : e \notin Nat
    /\ None # Failed /\ Bad \notin Final \cup {None, Failed}
    /\ None \notin Final /\ Failed \notin Final

VARIABLES
    pool,     \* how many times each node is in the pool
    content,  \* the number of the record a node holds, 0 for a recycled one
    ingested, \* the number of records the reader has read so far
    rawNode,  \* ingester.rawRecord.node
    rawSet,   \* whether transform.lastRawRecord is set, to the ingester's rawRecord
    lastErr,  \* transform.lastErr
    reply,    \* what the last Read() returned: output (of a record) and error
    raw       \* what the last RawRecord() returned

vars == <<pool, content, ingested, rawNode, rawSet, lastErr, reply, raw>>

Init ==
    /\ pool = [n \in Nodes |-> 1]
    /\ content = [n \in Nodes |-> 0]
    /\ ingested = 0
    /\ rawNode = Nil
    /\ rawSet = FALSE
    /\ lastErr = None
    /\ reply = [out |-> None, err |-> None]
    /\ raw = None

-----------------------------------------------------------------------------
(* ingester.Read *)

(* Read gives the node of the previous record back first. *)
Released == IF rawNode = Nil THEN pool ELSE [pool EXCEPT ![rawNode] = @ + 1]
Scrubbed == IF rawNode = Nil THEN content ELSE [content EXCEPT ![rawNode] = 0]

(* The reader returns the next record in node n. *)
Ingest(n) ==
    /\ ingested < MaxRecords
    /\ n \in Nodes /\ Released[n] > 0
    /\ pool' = [Released EXCEPT ![n] = @ - 1]
    /\ content' = [Scrubbed EXCEPT ![n] = ingested + 1]
    /\ ingested' = ingested + 1
    /\ rawNode' = n

(* The reader returns no node; without the assignment the old one stays. *)
IngestNothingKeepingNode ==
    /\ pool' = Released
    /\ content' = Scrubbed
    /\ UNCHANGED <<rawNode, ingested>>

IngestNothing ==
    /\ pool' = Released
    /\ content' = Scrubbed
    /\ rawNode' = Nil
    /\ UNCHANGED ingested

IsContinuableError(err) == err = Failed \/ err \notin Final

-----------------------------------------------------------------------------
(* transform.Read *)

(* Read tries again whatever the last error was; read on after failures only. *)
AttemptAlways == TRUE
Attempt == lastErr \in {None, Failed}

ReadCeased ==
    /\ ~Attempt
    /\ reply' = [out |-> None, err |-> lastErr]
    /\ UNCHANGED <<pool, content, ingested, rawNode, rawSet, lastErr, raw>>

(* Forgets to wrap a continuable error; to take back the raw record; both right. *)
FinishUnwrapped(out, err) ==
    /\ lastErr' = err
    /\ rawSet' = (err = None)
    /\ reply' = [out |-> IF err = None THEN out ELSE None, err |-> err]
    /\ UNCHANGED raw

FinishKeepingRaw(out, err) ==
    LET e == IF err # None /\ IsContinuableError(err) THEN Failed ELSE err
    IN  /\ lastErr' = e
        /\ rawSet' = (rawSet \/ e = None)
        /\ reply' = [out |-> IF e = None THEN out ELSE None, err |-> e]
        /\ UNCHANGED raw

Finish(out, err) ==
    LET e == IF err # None /\ IsContinuableError(err) THEN Failed ELSE err
    IN  /\ lastErr' = e
        /\ rawSet' = (e = None)
        /\ reply' = [out |-> IF e = None THEN out ELSE None, err |-> e]
        /\ UNCHANGED raw

ReadTransformed ==
    /\ Attempt
    /\ \E n \in Nodes : Ingest(n) /\ Finish(content'[n], None)

(***************************************************************************)
(* ParseNode fails, which the ingester turns into ErrTransformFailed, or   *)
(* json.Marshal does (a NaN), whose error is none of the reader's final    *)
(* ones.  The node stays the ingester's.                                   *)
(***************************************************************************)
ReadNotTransformed ==
    /\ Attempt
    /\ \E n \in Nodes : Ingest(n)
    /\ \E err \in {Failed, Bad} : Finish(None, err)

(* The reader fails.  A custom one may return a node all the same. *)
ReadFails ==
    /\ Attempt
    /\ \/ IngestNothing
       \/ \E n \in Nodes : Ingest(n)
    /\ \E err \in ReaderErrs : Finish(None, err)

RawRecord ==
    /\ raw' = IF lastErr # None THEN lastErr
              ELSE IF rawSet THEN content[rawNode] ELSE None
    /\ UNCHANGED <<pool, content, ingested, rawNode, rawSet, lastErr, reply>>

Next ==
    ReadCeased \/ ReadTransformed \/ ReadNotTransformed \/ ReadFails \/ RawRecord

Spec == Init /\ [][Next]_vars

-----------------------------------------------------------------------------
(* The type invariant.  No error of a reader but the final ones gets out. *)
Outcomes == [out : Nat, err : {None}] \cup [out : {None}, err : {None, Failed} \cup Final]

TypeOK ==
    /\ pool \in [Nodes -> Nat]
    /\ content \in [Nodes -> Nat]
    /\ ingested \in Nat
    /\ rawNode \in Nodes \cup {Nil}
    /\ rawSet \in BOOLEAN
    /\ lastErr \in {None, Failed} \cup Final
    /\ reply \in Outcomes
    /\ raw \in Nat \cup {None, Failed} \cup Final

(***************************************************************************)
(* Every node that was handed out is released exactly once: it is either   *)
(* in the pool, once, or it is the node the ingester holds, which the next *)
(* Read will release (ingester.go:42-49).  A node that is released twice   *)
(* would be handed out twice by the sync.Pool.                             *)
(***************************************************************************)
NodesOwnedOnce ==
    \A n \in Nodes : pool[n] = IF n = rawNode THEN 0 ELSE 1

(***************************************************************************)
(* As long as the transform has a raw record to give, it is the one that   *)
(* the last output was made from, and its node is not in the pool.         *)
(***************************************************************************)
RawRecordIsCurrent ==
    rawSet => /\ lastErr = None
              /\ rawNode \in Nodes
              /\ pool[rawNode] = 0
              /\ content[rawNode] = reply.out
              /\ reply.out = ingested

(***************************************************************************)
(* transform over ingester implements what the interface comments promise: *)
(* records in order and at most once, final errors that stay, RawRecord    *)
(* answering for the last Read (transform.go:10-27).                       *)
(***************************************************************************)
LastResult == IF reply.err = None THEN reply.out ELSE reply.err

Contract == INSTANCE TransformContract WITH last <- LastResult, done <- ingested

Implements == Contract!Spec
==============================================================================
