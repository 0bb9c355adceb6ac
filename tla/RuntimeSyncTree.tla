-------------------------- MODULE RuntimeSyncTree --------------------------
(***************************************************************************)
(* The start barrier of the hardware runtime: one                          *)
(* emuflow_runtime_sync_tree_node per FPGA, joined along the tree that     *)
(* build_runtime_sync_topology computes.  An edge of latency L is the L    *)
(* stage shift registers of the generated testbench: readiness travels     *)
(* from child to parent, the start word (valid, epoch) from parent to      *)
(* child.  All FPGAs share one phase-aligned clock and one synchronous     *)
(* reset (the provider's requirements), so a clock edge is one action.     *)
(***************************************************************************)
EXTENDS Naturals, SyncTopologyFacts

CONSTANTS
  Node, Root,           \* the FPGAs, and the one that decides the start
  Parent,               \* Parent[c]: the node above c in the tree
  Latency,              \* Latency[c]: stages of the edge from c to Parent[c]
  LatencyFromRoot,      \* broadcast_latency_from_root_cycles
  Subtree,              \* Subtree[n]: n and the nodes below it
  StartMargin,          \* START_MARGIN_CYCLES
  ReadyStable,          \* READY_STABLE_CYCLES
  EpochModulus          \* 2^EPOCH_BITS

\* The topology is one that build_runtime_sync_topology returns
\* (SyncTopology.tla checks that it does).
ASSUME TopologyAssumption ==
  TopologyOK(Node, Root, Parent, Latency, LatencyFromRoot, Subtree, StartMargin)

\* The elaboration checks of the node, and a margin that fits the counter.
ASSUME ParameterAssumption ==
  /\ ReadyStable \in Nat \ {0}
  /\ EpochModulus \in Nat
  /\ StartMargin < EpochModulus

VARIABLES
  reset,                \* input: the board's synchronous reset
  local_ready,          \* input of every node
  epoch, start_armed, released, sticky_fault, target_epoch,
  ready_stable_count,   \* the root's; the other nodes never read theirs
  ready_pipe,           \* per child edge, stage 1 next to the child
  start_valid_pipe,     \* per child edge, stage 1 next to the parent
  start_epoch_pipe,
  ready_seen            \* history: nodes ready in some cycle since reset

registers == <<epoch, start_armed, released, sticky_fault, target_epoch,
               ready_stable_count, ready_pipe, start_valid_pipe,
               start_epoch_pipe>>
vars == <<reset, local_ready, registers, ready_seen>>

Child == Node \ {Root}
Children(n) == {c \in Child : Parent[c] = n}
Stage(c) == 1..Latency[c]
Epochs == 0..(EpochModulus - 1)

\* EPOCH_BITS-wide addition; no sum here reaches twice the modulus.
Wrap(e) == IF e < EpochModulus THEN e ELSE e - EpochModulus

-----------------------------------------------------------------------------
(* The wires of a node.                                                    *)

\* Faulty variant: a node reports itself and not its subtree.
ReadyWithoutChildren(n) == local_ready[n]

subtree_ready(n) ==
  local_ready[n] /\ \A c \in Children(n) : ready_pipe[c][Latency[c]]

global_ready(n) == released[n] /\ ~sticky_fault[n]

\* Faulty variants: the ready count is compared off by one, either way.
RootArmsEarly ==
  ~start_armed[Root] /\ subtree_ready(Root) /\ ready_stable_count + 2 >= ReadyStable

RootArmsNever ==
  ~start_armed[Root] /\ subtree_ready(Root) /\ ready_stable_count > ReadyStable

\* The root decides to start after READY_STABLE_CYCLES ready cycles.
RootArms ==
  /\ ~start_armed[Root]
  /\ subtree_ready(Root)
  /\ ready_stable_count >= ReadyStable - 1

\* Any other node arms on the start word that leaves its edge.
ChildArms(c) ==
  ~start_armed[c] /\ start_valid_pipe[c][Latency[c]]

Arms(n) == IF n = Root THEN RootArms ELSE ChildArms(n)

\* Faulty variants: the smallest margin that elaborates, whatever the tree; a
\* margin counted from the cycle after the decision.
StartEpochTooSoon(n) ==
  IF n = Root THEN Wrap(epoch[Root] + 2) ELSE start_epoch_pipe[n][Latency[n]]

StartEpochLate(n) ==
  IF n = Root THEN Wrap(epoch[Root] + StartMargin + 1)
              ELSE start_epoch_pipe[n][Latency[n]]

StartEpoch(n) ==
  IF n = Root THEN Wrap(epoch[Root] + StartMargin)
              ELSE start_epoch_pipe[n][Latency[n]]

\* Faulty variant: the counter does not saturate.
UnboundedStableCount ==
  IF ~subtree_ready(Root) THEN 0 ELSE ready_stable_count + 1

NextReadyStableCount ==
  IF ~subtree_ready(Root) THEN 0
  ELSE IF ready_stable_count < ReadyStable THEN ready_stable_count + 1
  ELSE ready_stable_count

Releases(n) == start_armed[n] /\ epoch[n] = target_epoch[n]

\* Faulty variants: a node faults for itself only; a node faults before it
\* was released.
FaultsAlone(n) == released[n] /\ ~local_ready[n]

FaultsBeforeRelease(n) == ~subtree_ready(n)

Faults(n) == released[n] /\ ~subtree_ready(n)

-----------------------------------------------------------------------------
(* Clock edges.                                                            *)

AllNodes(v) == [n \in Node |-> v]
AllStages(v) == [c \in Child |-> [k \in Stage(c) |-> v]]

\* The inputs take any value after an edge; the history follows them.
Inputs ==
  /\ reset' \in BOOLEAN
  /\ local_ready' \in [Node -> BOOLEAN]
  /\ ready_seen' = (IF reset THEN {} ELSE ready_seen)
                   \cup {n \in Node : local_ready'[n]}

\* The state after the reset the board applies at power-up.
Init ==
  /\ epoch = AllNodes(0)
  /\ start_armed = AllNodes(FALSE)
  /\ released = AllNodes(FALSE)
  /\ sticky_fault = AllNodes(FALSE)
  /\ target_epoch = AllNodes(0)
  /\ ready_stable_count = 0
  /\ ready_pipe = AllStages(FALSE)
  /\ start_valid_pipe = AllStages(FALSE)
  /\ start_epoch_pipe = AllStages(0)
  /\ reset \in BOOLEAN
  /\ local_ready \in [Node -> BOOLEAN]
  /\ ready_seen = {n \in Node : local_ready[n]}

ResetEdge ==
  /\ reset
  /\ epoch' = AllNodes(0)
  /\ start_armed' = AllNodes(FALSE)
  /\ released' = AllNodes(FALSE)
  /\ sticky_fault' = AllNodes(FALSE)
  /\ target_epoch' = AllNodes(0)
  /\ ready_stable_count' = 0
  /\ ready_pipe' = AllStages(FALSE)
  /\ start_valid_pipe' = AllStages(FALSE)
  /\ start_epoch_pipe' = AllStages(0)
  /\ Inputs

NodeEdge ==
  /\ epoch' = [n \in Node |-> Wrap(epoch[n] + 1)]
  /\ ready_stable_count' = NextReadyStableCount
  /\ start_armed' = [n \in Node |-> start_armed[n] \/ Arms(n)]
  /\ target_epoch' =
       [n \in Node |-> IF Arms(n) THEN StartEpoch(n) ELSE target_epoch[n]]
  /\ released' = [n \in Node |-> released[n] \/ Releases(n)]
  /\ sticky_fault' = [n \in Node |-> sticky_fault[n] \/ Faults(n)]

LinkEdge ==
  /\ ready_pipe' = [c \in Child |-> [k \in Stage(c) |->
       IF k = 1 THEN subtree_ready(c) ELSE ready_pipe[c][k - 1]]]
  /\ start_valid_pipe' = [c \in Child |-> [k \in Stage(c) |->
       IF k = 1 THEN start_armed[Parent[c]] ELSE start_valid_pipe[c][k - 1]]]
  /\ start_epoch_pipe' = [c \in Child |-> [k \in Stage(c) |->
       IF k = 1 THEN target_epoch[Parent[c]] ELSE start_epoch_pipe[c][k - 1]]]

FabricEdge ==
  /\ ~reset
  /\ NodeEdge
  /\ LinkEdge
  /\ Inputs

Next == ResetEdge \/ FabricEdge

\* The clock never stops.
Spec == Init /\ [][Next]_vars /\ WF_vars(Next)

-----------------------------------------------------------------------------
(* Properties.                                                             *)

\* Every register and wire has the width the RTL gives it.
TypeOK ==
  /\ reset \in BOOLEAN
  /\ local_ready \in [Node -> BOOLEAN]
  /\ epoch \in [Node -> Epochs]
  /\ start_armed \in [Node -> BOOLEAN]
  /\ released \in [Node -> BOOLEAN]
  /\ sticky_fault \in [Node -> BOOLEAN]
  /\ target_epoch \in [Node -> Epochs]
  /\ ready_stable_count \in 0..ReadyStable
  /\ DOMAIN ready_pipe = Child
  /\ \A c \in Child : ready_pipe[c] \in [Stage(c) -> BOOLEAN]
  /\ DOMAIN start_valid_pipe = Child
  /\ \A c \in Child : start_valid_pipe[c] \in [Stage(c) -> BOOLEAN]
  /\ DOMAIN start_epoch_pipe = Child
  /\ \A c \in Child : start_epoch_pipe[c] \in [Stage(c) -> Epochs]
  /\ ready_seen \in SUBSET Node

\* "nodes did not release on the same epoch": no FPGA is ever released while
\* another is not, whatever the shape and the latencies of the tree, so the
\* slot counters that the release starts run in lockstep.
SameCycleRelease == \A m, n \in Node : released[m] <=> released[n]

\* Cycles from now to the chosen epoch, around the counter's wrap.
Remaining ==
  IF epoch[Root] <= target_epoch[Root]
  THEN target_epoch[Root] - epoch[Root]
  ELSE target_epoch[Root] + EpochModulus - epoch[Root]

\* Why they release together.  While a start is pending, a node is armed no
\* later than its broadcast latency after the root, always for the root's
\* epoch, and the epoch is never further away than the margin: so each node
\* holds the target before the target comes.
StartOnItsWay ==
  /\ \A n \in Node : epoch[n] = epoch[Root]
  /\ \A n \in Node : start_armed[n] =>
       start_armed[Root] /\ target_epoch[n] = target_epoch[Root]
  /\ \A c \in Child : \A k \in Stage(c) : start_valid_pipe[c][k] =>
       start_armed[Root] /\ start_epoch_pipe[c][k] = target_epoch[Root]
  /\ released[Root] => \A n \in Node : start_armed[n]
  /\ start_armed[Root] /\ ~released[Root] =>
       /\ Remaining < StartMargin
       /\ \A n \in Node :
            Remaining + LatencyFromRoot[n] + 1 <= StartMargin => start_armed[n]
       /\ \A c \in Child : \A k \in Stage(c) :
            Remaining + LatencyFromRoot[Parent[c]] + 1 + k <= StartMargin
              => start_valid_pipe[c][k]

\* "a descendant failure propagates to the root": a faulted node whose parent
\* has not faulted still has a not-ready cycle in flight towards the parent.
FaultInFlight ==
  \A c \in Child : sticky_fault[c] /\ ~sticky_fault[Parent[c]] =>
    \E k \in Stage(c) : ~ready_pipe[c][k]

\* Readiness that arrives from a subtree was shown by every FPGA of that
\* subtree, so the root never starts an FPGA that was never ready; a fault is
\* only ever raised after the release.
ReadyWasSeen ==
  /\ \A n \in Node : sticky_fault[n] => released[n]
  /\ \A n \in Node : local_ready[n] => n \in ready_seen
  /\ \A c \in Child : \A k \in Stage(c) :
       ready_pipe[c][k] => Subtree[c] \subseteq ready_seen
  /\ start_armed[Root] => ready_seen = Node

Barrier == INSTANCE StartBarrier WITH
  seen    <- ready_seen,
  started <- {n \in Node : released[n]},
  faulted <- {n \in Node : sticky_fault[n]}

\* The tree implements the abstract barrier: one simultaneous start, only
\* after every FPGA was ready, faults only after the start and kept.
BarrierSpec == Barrier!Spec

\* If from some cycle on there is no reset and every FPGA stays ready, the
\* runtime starts.
StartsWhenReady ==
  <>[](~reset /\ \A n \in Node : local_ready[n])
    => <>(\A n \in Node : released[n])

=============================================================================
