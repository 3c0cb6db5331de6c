--------------------------- MODULE MCPublishChunk ---------------------------
(* One or two concurrent calls of publish_chunk. *)
EXTENDS PublishChunk
CONSTANTS c1, c2
=============================================================================
