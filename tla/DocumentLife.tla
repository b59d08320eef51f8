---------------------------- MODULE DocumentLife ----------------------------
(***************************************************************************)
(* What the ingestion promises of a document that nobody deletes, without  *)
(* jobs, workers, requests or copies of rows: it is uploaded once; its     *)
(* chunks come and go only while its row says that it is being processed;  *)
(* it turns ready when they are in the index, and then nothing changes any *)
(* more; an attempt that fails leaves it for another one.                  *)
(*                                                                         *)
(* DocumentIngestion implements this specification while requests about a  *)
(* document take turns.                                                    *)
(***************************************************************************)
CONSTANT Documents

VARIABLES status,     \* document -> its status, "absent" until it is uploaded
          searchable  \* the documents whose chunks are in the vector index

vars == <<status, searchable>>

Init ==
    /\ status = [d \in Documents |-> "absent"]
    /\ searchable = {}

Becomes(d, s) ==
    /\ status' = [status EXCEPT ![d] = s]
    /\ UNCHANGED searchable

Upload(d) == status[d] = "absent" /\ Becomes(d, "uploaded")

StartAttempt(d) == status[d] \in {"uploaded", "failed"} /\ Becomes(d, "processing")

\* The index takes the chunks of a document, or drops them.
ChangeChunks(d) ==
    /\ status[d] = "processing"
    /\ searchable' \in {searchable \cup {d}, searchable \ {d}}
    /\ UNCHANGED status

Publish(d) ==
    /\ status[d] = "processing"
    /\ d \in searchable
    /\ Becomes(d, "ready")

GiveUp(d) == status[d] = "processing" /\ Becomes(d, "failed")

Next ==
    \E d \in Documents :
        Upload(d) \/ StartAttempt(d) \/ ChangeChunks(d) \/ Publish(d) \/ GiveUp(d)

Spec == Init /\ [][Next]_vars
=============================================================================
