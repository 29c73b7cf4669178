--------------------------- MODULE DocumentedClaims ---------------------------
(***************************************************************************)
(* What the documentation says of the system and the code does not do: TLC *)
(* finds a behaviour of BozoSystem against it.                             *)
(***************************************************************************)
EXTENDS BozoSystem

ConnectionEventPending == ~Silent(inbox[SM], "connected")

(***************************************************************************)
(* bozod/README.md: state updates, connection status included, are pushed  *)
(* to all connected clients whenever the state changes.  So the connected  *)
(* flag a client draws should settle on the daemon's, as the cells do.     *)
(* The flag is written by the state manager AFTER the broadcast: a client  *)
(* whose handler subscribes when Connected has been broadcast, and loads   *)
(* the state before the flag is written, is never told.                    *)
(***************************************************************************)
ConnectionViewConverges ==
    \A c \in Clients :
        Served(c) /\ Loaded(c) /\ gap[c] = "none" /\ ~ConnectionEventPending
            /\ Silent(inbox[c], "connected") /\ Silent(toClient[c], "connected")
        => view[c]["connected"] = state["connected"]
=============================================================================
