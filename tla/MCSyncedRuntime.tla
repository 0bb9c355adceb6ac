-------------------------- MODULE MCSyncedRuntime --------------------------
(***************************************************************************)
(* A root and one child, the smallest platform with a link.                *)
(***************************************************************************)
EXTENDS SyncedRuntime

PairNode == {"r", "a"}
PairParent == [c \in {"a"} |-> "r"]
PairLatency == [c \in {"a"} |-> 2]
PairFromRoot == [n \in PairNode |-> IF n = "r" THEN 0 ELSE 3]
PairSubtree == [n \in PairNode |-> IF n = "r" THEN PairNode ELSE {n}]
=============================================================================
