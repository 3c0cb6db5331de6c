---------------------------- MODULE MCSinkWrite ----------------------------
(* One call of write_to_sink_with_retries, undecorated write. *)
EXTENDS SinkWrite
=============================================================================
