-------------------------- MODULE MCDocumentedClaims --------------------------
(* The counterexamples of DocumentedClaims need one cell and one client.   *)
EXTENDS DocumentedClaims

CONSTANT cnc

OneCell == <<cnc>>
NoRequests == {}
=============================================================================
