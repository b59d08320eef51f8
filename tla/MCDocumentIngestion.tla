------------------------ MODULE MCDocumentIngestion ------------------------
(***************************************************************************)
(* Instances of DocumentIngestion for TLC.  Documents, workers and clients *)
(* are model values; permuting each kind is a symmetry of the safety runs. *)
(***************************************************************************)
EXTENDS DocumentIngestion, TLC

Interchangeable ==
    Permutations(Documents) \cup Permutations(Workers) \cup Permutations(Clients)
=============================================================================
