------------------------- MODULE SyncTopologyFacts -------------------------
(***************************************************************************)
(* What the runtime synchronisation tree may rely on about its topology:   *)
(* the contract between build_runtime_sync_topology (SyncTopology.tla      *)
(* shows that it returns this) and the hardware tree (RuntimeSyncTree.tla  *)
(* assumes it).                                                            *)
(***************************************************************************)
EXTENDS Naturals

TopologyOK(node, root, parent, latency, fromRoot, subtree, margin) ==
  /\ root \in node
  /\ parent \in [node \ {root} -> node]
  /\ latency \in [node \ {root} -> Nat \ {0}]
  /\ fromRoot \in [node -> Nat]
  /\ fromRoot[root] = 0
  /\ \A c \in node \ {root} :
       fromRoot[c] = fromRoot[parent[c]] + latency[c] + 1
  /\ margin \in Nat
  /\ \A n \in node : fromRoot[n] + 2 <= margin
  /\ subtree \in [node -> SUBSET node]
  /\ \A n \in node : \A m \in subtree[n] :
       m = n \/ \E c \in node \ {root} : parent[c] = n /\ m \in subtree[c]
  /\ subtree[root] = node
=============================================================================
