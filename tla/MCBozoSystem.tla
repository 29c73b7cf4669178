----------------------------- MODULE MCBozoSystem -----------------------------
(* BozoSystem for TLC: the headphones have one cell, which both the initial *)
(* queries and the clients' requests are about.                             *)
EXTENDS BozoSystem, TLC

CONSTANT cnc

OneCell == <<cnc>>
SetRequests == {SetRequest(k, v) : k \in Settable, v \in Values}
AllRequests == IpcRequest
CommandRequests == {Disconnect, Reconnect} \cup SetRequests

ValueSymmetry == Permutations(Values)
=============================================================================
