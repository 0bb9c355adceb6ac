---------------------------- MODULE SyncTopology ----------------------------
(***************************************************************************)
(* build_runtime_sync_topology: a breadth-first search over the links of   *)
(* the board description turns them into the rooted tree, the broadcast    *)
(* latencies and the start margin that RuntimeSyncTree runs on.  FPGA and  *)
(* link identifiers are numbers; the code sorts their names.               *)
(***************************************************************************)
EXTENDS Naturals, FiniteSets, SequencesExt, SyncTopologyFacts

CONSTANTS
  Fpga,                 \* fpga_ids, a set of numbers
  LinkId,               \* link ids, a set of numbers
  LinkLatency           \* values of latency_cycles in the board description

ASSUME BoardAssumption ==
  /\ Fpga \in SUBSET Nat /\ IsFiniteSet(Fpga)
  /\ LinkId \in SUBSET Nat
  /\ LinkLatency \in SUBSET Nat

VARIABLES
  links,                \* the board: LinkId -> endpoints and latency_cycles
  root,                 \* the requested root
  queue,                \* FPGAs found and not yet expanded, in order
  parent,               \* the maps the search fills, keyed by FPGA found
  edge_latency, depth, latency_from_root,
  start_margin_cycles,
  status                \* "searching", "built" or "rejected"

vars == <<links, root, queue, parent, edge_latency, depth, latency_from_root,
          start_margin_cycles, status>>

Pair == {p \in SUBSET Fpga : Cardinality(p) = 2}
Link == [ends : Pair, latency_cycles : LinkLatency]

\* A link of zero cycles still costs the control word one.
control_latency(l) == IF links[l].latency_cycles = 0 THEN 1
                      ELSE links[l].latency_cycles

Between(a, b) == {l \in LinkId : links[l].ends = {a, b}}
Neighbours(a) == {b \in Fpga \ {a} : Between(a, b) # {}}

\* The sorted adjacency list meets the lowest link id to a neighbour first.
FirstLink(a, b) == Min(Between(a, b))

Init ==
  /\ links \in [LinkId -> Link]
  /\ root \in Fpga
  /\ queue = <<root>>
  /\ parent = [n \in {} |-> root]
  /\ edge_latency = [n \in {root} |-> 0]
  /\ depth = [n \in {root} |-> 0]
  /\ latency_from_root = [n \in {root} |-> 0]
  /\ start_margin_cycles = 0
  /\ status = "searching"

Found == DOMAIN depth

\* Faulty variant: the receiver's clock edge is forgotten.
LinkLatencyOnly(current, n) ==
  latency_from_root[current] + control_latency(FirstLink(current, n))

\* The link spends its latency and the receiver one clock edge.
BroadcastLatency(current, n) ==
  latency_from_root[current] + control_latency(FirstLink(current, n)) + 1

\* Faulty variant: neighbours found before are entered again.
AnyButRoot(current) == Neighbours(current) \ {root}

Unseen(current) == Neighbours(current) \ Found

\* The members of a set of numbers, lowest first.
Ascending(S) ==
  [i \in 1..Cardinality(S) |->
     CHOOSE x \in S : Cardinality({y \in S : y < x}) = i - 1]

\* One turn of the while loop: expand the FPGA at the head of the queue.
Expand ==
  /\ status = "searching"
  /\ queue # <<>>
  /\ LET current == Head(queue)
         new == Unseen(current)
         Extend(f, g(_)) == [n \in DOMAIN f \cup new |->
                               IF n \in new THEN g(n) ELSE f[n]]
         ParentOf(n) == current
         EdgeOf(n) == control_latency(FirstLink(current, n))
         DepthOf(n) == depth[current] + 1
         LatencyOf(n) == BroadcastLatency(current, n)
     IN /\ queue' = Tail(queue) \o Ascending(new)
        /\ parent' = Extend(parent, ParentOf)
        /\ edge_latency' = Extend(edge_latency, EdgeOf)
        /\ depth' = Extend(depth, DepthOf)
        /\ latency_from_root' = Extend(latency_from_root, LatencyOf)
  /\ UNCHANGED <<links, root, start_margin_cycles, status>>

\* Faulty variant: a disconnected board is not noticed.
RejectNothing ==
  /\ status = "searching" /\ queue = <<>> /\ Found = {}
  /\ status' = "rejected"
  /\ UNCHANGED <<links, root, queue, parent, edge_latency, depth,
                 latency_from_root, start_margin_cycles>>

\* After the search: refuse a disconnected board, else fix the margin.
Reject ==
  /\ status = "searching" /\ queue = <<>> /\ Found # Fpga
  /\ status' = "rejected"
  /\ UNCHANGED <<links, root, queue, parent, edge_latency, depth,
                 latency_from_root, start_margin_cycles>>

MarginFor(latencies) == Max(latencies) + 2

Finish ==
  /\ status = "searching" /\ queue = <<>> /\ Found = Fpga
  /\ status' = "built"
  /\ start_margin_cycles' = MarginFor({latency_from_root[n] : n \in Fpga})
  /\ UNCHANGED <<links, root, queue, parent, edge_latency, depth,
                 latency_from_root>>

Next == Expand \/ Reject \/ Finish

Spec == Init /\ [][Next]_vars /\ WF_vars(Next)

-----------------------------------------------------------------------------
(* Reference definitions: what the result must be, without the search.     *)

\* The FPGAs within k hops of the root.
Reach[k \in 0..Cardinality(Fpga)] ==
  IF k = 0 THEN {root}
  ELSE Reach[k - 1] \cup UNION {Neighbours(n) : n \in Reach[k - 1]}

Hops(n) == Min({k \in DOMAIN Reach : n \in Reach[k]})

\* The chain of parents of n, n included.
Above(n) ==
  LET up[k \in 0..Cardinality(Fpga)] ==
        IF k = 0 THEN n
        ELSE IF up[k - 1] \in DOMAIN parent THEN parent[up[k - 1]] ELSE up[k - 1]
  IN {up[k] : k \in DOMAIN up}

Subtree == [n \in Fpga |-> {m \in Fpga : n \in Above(m)}]

-----------------------------------------------------------------------------
(* Properties.                                                             *)

\* The maps describe the part of the tree found so far.
TypeOK ==
  /\ Found \in SUBSET Fpga
  /\ parent \in [Found \ {root} -> Found]
  /\ edge_latency \in [Found -> Nat] /\ latency_from_root \in [Found -> Nat]
  /\ depth \in [Found -> Nat]
  /\ queue \in Seq(Found)
  /\ status \in {"searching", "built", "rejected"}

\* What RuntimeSyncTree assumes of its topology is what the builder returns,
\* for every board, parallel links and zero-latency links included.
BuildsTopology ==
  status = "built" =>
    TopologyOK(Fpga, root, parent, [c \in Fpga \ {root} |-> edge_latency[c]],
               latency_from_root, Subtree, start_margin_cycles)

\* The search finds every FPGA at its true hop distance, so the tree is a
\* shallowest one whatever order the neighbours were expanded in.
DepthIsHopDistance == \A n \in Found : depth[n] = Hops(n)

\* The builder refuses a board exactly when some FPGA is out of reach.
Decides ==
  <>(status = (IF Reach[Cardinality(Fpga)] = Fpga THEN "built" ELSE "rejected"))
=============================================================================
