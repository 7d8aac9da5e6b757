-------------------------- MODULE ServiceShutdown --------------------------
(***************************************************************************)
(* The end that main() is meant to come to: the signal handler shuts the   *)
(* server down, closes it and calls sys.exit(0).  socketserver is external *)
(* code: serve_forever looks for the request that shutdown() has set, and  *)
(* on its way out sets the event that shutdown() waits for.                *)
(***************************************************************************)
EXTENDS TrinityService

VARIABLE is_shut_down   \* the event of that name in the server

shutdown_request == "shutdown" \in Range(stack)

serve_forever_ends ==
  /\ Runs("serve_forever") /\ shutdown_request
  /\ stack' = Front(stack)
  /\ is_shut_down' = TRUE
  /\ UNCHANGED <<kernelVars, eventsVars>>

\* shutdown() returns, the handler calls sys.exit(0); or main() returns.
exit ==
  /\ is_shut_down /\ (Runs("shutdown") \/ Runs("main"))
  /\ Ends
  /\ UNCHANGED is_shut_down

ShutdownInit == Init /\ is_shut_down = FALSE

ShutdownNext ==
  \/ Next /\ is_shut_down' = (is_shut_down /\ Up')
  \/ serve_forever_ends
  \/ exit

ShutdownSpec ==
  /\ ShutdownInit /\ [][ShutdownNext]_<<vars, is_shut_down>>
  /\ Fairness
  /\ WF_<<vars, is_shut_down>>(serve_forever_ends \/ exit)
-----------------------------------------------------------------------------
\* "allow main to exit normally after cleanup" (line 203): once a signal has asked
\* for the shutdown, the process ends.
GracefulExit == (Up /\ shutdown_request) ~> ~Up
=============================================================================
