------------------------------ MODULE CellStore ------------------------------
(***************************************************************************)
(* The state manager as the composition of the daemon sees it: cells that  *)
(* hold at most one value each, and per packet at most one cell written,   *)
(* whose new value is then published.                                      *)
(***************************************************************************)
EXTENDS Sequences

CONSTANT Cells

VARIABLES cells, published

Init == cells = [k \in Cells |-> << >>] /\ published = << >>

Write(k) ==
    /\ cells' = [cells EXCEPT ![k] = cells'[k]]
    /\ published' = Append(published, <<k, cells'[k]>>)

Next == \E k \in Cells : Write(k)

Spec == Init /\ [][Next]_<<cells, published>>
=============================================================================
