--------------------------- MODULE MCRequestPool ---------------------------
(* Three requests: two occupy both threads and wait for the connection the *)
(* third one holds while it waits for a thread.                            *)
EXTENDS RequestPool

ThreeRequests == 1..3
=============================================================================
