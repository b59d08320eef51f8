--------------------------- MODULE MCSourceImport ---------------------------
(* Instances of SourceImport. *)
EXTENDS SourceImport

\* State constraint: one scan at a time, or scans of the first file only.
OneScanOrOneFile ==
  \/ Cardinality({s \in Scanners : Busy(s)}) <= 1
  \/ \A p \in Files \ {1} :
       disk[p].kind = "absent" /\ latest[p] = NoEntry /\ patterns[p] = "included"
=============================================================================
