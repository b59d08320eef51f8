----------------------------- MODULE MCChunker -----------------------------
(***************************************************************************)
(* Instances of Chunker for TLC.                                           *)
(***************************************************************************)
EXTENDS Chunker
=============================================================================
