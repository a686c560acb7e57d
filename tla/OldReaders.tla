----------------------------- MODULE OldReaders -----------------------------
(* Either of the old readers, each reading its own inputs. *)
EXTENDS OldCsvReader, OldFixedLengthReader

vars == <<config, pc, pos, reply, csvVars, flVars>>

Init == OldReaderInit /\ CsvInit /\ FixedLengthInit

CsvNext ==
    /\ format = "csv"
    /\ CsvCreate \/ CsvRead \/ CsvStep
    /\ UNCHANGED flVars

FixedLengthNext ==
    /\ format = "fixed-length"
    /\ FixedLengthCreate \/ FixedLengthRead \/ FixedLengthStep \/ Release
    /\ UNCHANGED csvVars

Next == CsvNext \/ FixedLengthNext

(* A call of Read runs to its end. *)
InRead == \/ format = "csv" /\ CsvStep /\ UNCHANGED flVars
          \/ format = "fixed-length" /\ FixedLengthStep /\ UNCHANGED csvVars

Spec == Init /\ [][Next]_vars /\ WF_vars(InRead)

(* Every Read returns, whatever rows or envelopes it has to pass over, and   *)
(* also on an input that fails from some point on (csv/reader.go:97-111).    *)
ReadReturns == pc \notin {"new", "rejected", "idle"} ~> pc = "idle"
=============================================================================
