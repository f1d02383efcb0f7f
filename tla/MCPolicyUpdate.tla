--------------------------- MODULE MCPolicyUpdate ---------------------------
(***************************************************************************)
(* PolicyUpdate with what the daemons say about themselves in their log    *)
(* messages, stated as a property.  It is not what the code does.          *)
(***************************************************************************)
EXTENDS PolicyUpdate

\* tp: "Exiting..." is printed when the poll loop is left because of a signal:
\* the process ends after it.
JoinReturns == (pc["main"] = "join") ~> ~Alive
=============================================================================
