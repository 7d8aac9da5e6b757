--------------------------- MODULE RequestThreads ---------------------------
(***************************************************************************)
(* ThreadingHTTPServer gives every request a thread of its own.  A thread  *)
(* that has ended is used again here for a later request, so that Workers  *)
(* bounds the requests that are served at once and not their number.       *)
(***************************************************************************)
CONSTANT Workers   \* the request threads that the server can have at once
=============================================================================
