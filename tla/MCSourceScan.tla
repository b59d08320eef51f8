---------------------------- MODULE MCSourceScan ----------------------------
(***************************************************************************)
(* Instances of SourceScan for TLC.                                        *)
(***************************************************************************)
EXTENDS SourceScan, TLC

Interchangeable == Permutations(Workers) \cup Permutations(Clients)
=============================================================================
