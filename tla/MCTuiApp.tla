------------------------------ MODULE MCTuiApp ------------------------------
EXTENDS TuiApp

Phones(modes, current, standby) ==
    [modes |-> modes, current |-> current, standby |-> standby, on |-> TRUE]

\* Three modes that can be discovered, a current one that cannot, and a standby
\* time between the options; no mode that can be discovered, one at the end of
\* the signed byte and one beyond it, and a standby time above the options.
SomeDevices == {Phones({0, 4, 7, 12}, 12, 7), Phones({127, 200}, 127, 200)}
=============================================================================
