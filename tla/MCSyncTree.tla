---------------------------- MODULE MCSyncTree -----------------------------
(***************************************************************************)
(* A chain of three nodes, with history that dates the readiness of each   *)
(* FPGA and the first fault.                                               *)
(***************************************************************************)
EXTENDS RuntimeSyncTree

\* r - a - b: the shortest tree in which a start word crosses two edges; they
\* differ in latency.
ChainNode == {"r", "a", "b"}
ChainParent == [c \in {"a", "b"} |-> IF c = "a" THEN "r" ELSE "a"]
ChainLatency == [c \in {"a", "b"} |-> IF c = "a" THEN 1 ELSE 2]
ChainFromRoot ==
  [n \in ChainNode |-> CASE n = "r" -> 0 [] n = "a" -> 2 [] n = "b" -> 5]
ChainSubtree == [n \in ChainNode |->
  CASE n = "r" -> ChainNode [] n = "a" -> {"a", "b"} [] n = "b" -> {"b"}]

VARIABLES
  ready_run,            \* consecutive ready cycles of each node, saturating
  qualified,            \* nodes that were ready ReadyStable cycles in a row
  fault_age             \* cycles since some node faulted, saturating

hvars == <<vars, ready_run, qualified, fault_age>>

\* Ready cycles are counted where a node's edge samples them.
RunNow == [n \in Node |->
  IF reset \/ ~local_ready[n] THEN 0
  ELSE IF ready_run[n] < ReadyStable THEN ready_run[n] + 1 ELSE ReadyStable]

MaxFromRoot == StartMargin - 2

HInit ==
  /\ Init
  /\ ready_run = [n \in Node |-> 0]
  /\ qualified = {}
  /\ fault_age = 0

HNext ==
  /\ Next
  /\ ready_run' = RunNow
  /\ qualified' = IF reset THEN {}
                  ELSE qualified \cup {n \in Node : RunNow[n] = ReadyStable}
  /\ fault_age' = IF reset \/ \A n \in Node : ~sticky_fault[n] THEN 0
                  ELSE IF fault_age <= MaxFromRoot THEN fault_age + 1
                  ELSE fault_age

HSpec == HInit /\ [][HNext]_hvars

\* READY_STABLE_CYCLES means what its name says at every FPGA: none is
\* released unless each was ready that many cycles in a row since the reset.
StableBeforeRelease ==
  (\E n \in Node : released[n]) => qualified = Node

\* The testbench waits 2 * max_broadcast_latency_cycles + 2 cycles for a
\* leaf's fault to show at the root; max_broadcast_latency_cycles is enough.
FaultBounded == fault_age > MaxFromRoot => sticky_fault[Root]
=============================================================================
