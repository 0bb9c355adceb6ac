----------------------- MODULE RuntimeSyncTree_proofs -----------------------
(***************************************************************************)
(* The start barrier is correct for every tree, every edge latency and     *)
(* every counter width that TopologyAssumption and ParameterAssumption     *)
(* allow, and carries the controllers of any platform in lockstep until a  *)
(* fault.                                                                  *)
(***************************************************************************)
EXTENDS MCSyncTree, SyncedRuntime, NatLemmas

\* The inductive invariant: simultaneous release needs the schedule of the
\* start word, fault propagation needs simultaneous release, and the abstract
\* barrier needs what the ready pipes remember.
IInv ==
  /\ TypeOK
  /\ SameCycleRelease
  /\ StartOnItsWay
  /\ FaultInFlight
  /\ ReadyWasSeen

\* The assumptions about the topology, one fact per line.
LEMMA Topology ==
  /\ Root \in Node
  /\ Child \subseteq Node
  /\ \A c \in Child : Parent[c] \in Node
  /\ \A c \in Child : Latency[c] \in Nat /\ Latency[c] >= 1 /\ Latency[c] \in Stage(c)
  /\ \A n \in Node : LatencyFromRoot[n] \in Nat
  /\ \A c \in Child :
       LatencyFromRoot[c] = LatencyFromRoot[Parent[c]] + Latency[c] + 1
  /\ StartMargin \in Nat
  /\ \A n \in Node : LatencyFromRoot[n] + 2 <= StartMargin
  /\ EpochModulus \in Nat
  /\ StartMargin < EpochModulus
  /\ ReadyStable \in Nat /\ ReadyStable >= 1
  BY TopologyAssumption, ParameterAssumption DEF TopologyOK, Child, Stage

\* A stage that is not the first has a stage before it.
LEMMA StageBefore ==
  ASSUME NEW c \in Child, NEW k \in Stage(c), k # 1
  PROVE  k - 1 \in Stage(c)
  BY Topology DEF Stage

\* Counter arithmetic stays in the counter's range.
LEMMA WrapType ==
  ASSUME NEW e \in Epochs, NEW d \in 0..StartMargin
  PROVE  Wrap(e + d) \in Epochs
  BY Topology DEF Wrap, Epochs

\* The state that power-up reset leaves satisfies the invariant.
LEMMA InitIInv == Init => IInv
<1> SUFFICES ASSUME Init PROVE IInv
  OBVIOUS
<1>1. TypeOK
  BY Topology DEF Init, TypeOK, AllNodes, AllStages, Epochs, Child, Stage
<1>2. SameCycleRelease
  BY DEF Init, SameCycleRelease, AllNodes
<1>3. StartOnItsWay
  BY Topology DEF Init, StartOnItsWay, AllNodes, AllStages
<1>4. FaultInFlight
  BY Topology DEF Init, FaultInFlight, AllNodes
<1>5. ReadyWasSeen
  BY Topology DEF Init, ReadyWasSeen, AllNodes, AllStages
<1>6. QED
  BY <1>1, <1>2, <1>3, <1>4, <1>5 DEF IInv

\* A reset edge restores it.
LEMMA ResetIInv == ResetEdge => IInv'
<1> SUFFICES ASSUME ResetEdge PROVE IInv'
  OBVIOUS
<1>0. ready_seen' = {n \in Node : local_ready'[n]}
  BY DEF ResetEdge, Inputs
<1>1. TypeOK'
  BY <1>0, Topology DEF ResetEdge, Inputs, TypeOK, AllNodes, AllStages, Epochs, Child, Stage
<1>2. SameCycleRelease'
  BY DEF ResetEdge, SameCycleRelease, AllNodes
<1>3. StartOnItsWay'
  BY Topology DEF ResetEdge, StartOnItsWay, AllNodes, AllStages
<1>4. FaultInFlight'
  BY Topology DEF ResetEdge, FaultInFlight, AllNodes
<1>5. ReadyWasSeen'
  BY <1>0, Topology DEF ResetEdge, ReadyWasSeen, AllNodes, AllStages
<1>6. QED
  BY <1>1, <1>2, <1>3, <1>4, <1>5 DEF IInv

\* A fabric edge keeps every register in its range.
LEMMA FabricTypeOK == TypeOK /\ FabricEdge => TypeOK'
<1> SUFFICES ASSUME TypeOK, FabricEdge PROVE TypeOK'
  OBVIOUS
<1> USE Topology DEF FabricEdge
<1>1. (reset \in BOOLEAN /\ local_ready \in [Node -> BOOLEAN] /\ ready_seen \in SUBSET Node)'
  BY DEF TypeOK, Inputs
<1>2. (epoch \in [Node -> Epochs])'
  <2>1. \A n \in Node : epoch[n] \in Epochs
    BY DEF TypeOK
  <2>2. \A n \in Node : Wrap(epoch[n] + 1) \in Epochs
    BY <2>1 DEF Wrap, Epochs
  <2>3. QED
    BY <2>2 DEF NodeEdge
<1>3. (start_armed \in [Node -> BOOLEAN] /\ released \in [Node -> BOOLEAN]
        /\ sticky_fault \in [Node -> BOOLEAN])'
  BY DEF NodeEdge
<1>4. (ready_stable_count \in 0..ReadyStable)'
  BY DEF TypeOK, NodeEdge, NextReadyStableCount
<1>5. (target_epoch \in [Node -> Epochs])'
  <2>1. ASSUME NEW n \in Node PROVE StartEpoch(n) \in Epochs /\ target_epoch[n] \in Epochs
    <3>1. CASE n = Root
      <4>1. epoch[Root] \in Epochs /\ StartMargin \in 0..StartMargin
        BY DEF TypeOK
      <4>2. QED
        BY <3>1, <4>1, WrapType DEF StartEpoch, TypeOK
    <3>2. CASE n # Root
      <4>1. n \in Child
        BY <3>2 DEF Child
      <4>2. QED
        BY <3>2, <4>1 DEF TypeOK, StartEpoch
    <3>3. QED
      BY <3>1, <3>2
  <2>2. QED
    BY <2>1 DEF NodeEdge
<1>6. (DOMAIN ready_pipe = Child /\ \A c \in Child : ready_pipe[c] \in [Stage(c) -> BOOLEAN])'
  <2>1. ASSUME NEW c \in Child, NEW k \in Stage(c)
        PROVE  (IF k = 1 THEN subtree_ready(c) ELSE ready_pipe[c][k - 1]) \in BOOLEAN
    <3>1. k # 1 => k - 1 \in Stage(c)
      BY StageBefore
    <3>2. subtree_ready(c) \in BOOLEAN
      BY DEF subtree_ready
    <3>3. k # 1 => ready_pipe[c][k - 1] \in BOOLEAN
      BY <3>1 DEF TypeOK
    <3>4. QED
      BY <3>2, <3>3
  <2>2. QED
    BY <2>1 DEF LinkEdge
<1>7. (DOMAIN start_valid_pipe = Child /\ \A c \in Child : start_valid_pipe[c] \in [Stage(c) -> BOOLEAN])'
  <2>1. ASSUME NEW c \in Child, NEW k \in Stage(c)
        PROVE  (IF k = 1 THEN start_armed[Parent[c]] ELSE start_valid_pipe[c][k - 1]) \in BOOLEAN
    <3>1. k # 1 => k - 1 \in Stage(c)
      BY StageBefore
    <3>2. start_armed[Parent[c]] \in BOOLEAN
      BY DEF TypeOK
    <3>3. k # 1 => start_valid_pipe[c][k - 1] \in BOOLEAN
      BY <3>1 DEF TypeOK
    <3>4. QED
      BY <3>2, <3>3
  <2>2. QED
    BY <2>1 DEF LinkEdge
<1>8. (DOMAIN start_epoch_pipe = Child /\ \A c \in Child : start_epoch_pipe[c] \in [Stage(c) -> Epochs])'
  <2>1. ASSUME NEW c \in Child, NEW k \in Stage(c)
        PROVE  (IF k = 1 THEN target_epoch[Parent[c]] ELSE start_epoch_pipe[c][k - 1]) \in Epochs
    <3>1. k # 1 => k - 1 \in Stage(c)
      BY StageBefore
    <3>2. QED
      BY <3>1 DEF TypeOK
  <2>2. QED
    BY <2>1 DEF LinkEdge
<1>9. QED
  BY <1>1, <1>2, <1>3, <1>4, <1>5, <1>6, <1>7, <1>8 DEF TypeOK

\* What an edge does to one node's start registers.
LEMMA NodeRegisters ==
  ASSUME FabricEdge, NEW n \in Node
  PROVE  /\ epoch'[n] = Wrap(epoch[n] + 1)
         /\ start_armed'[n] <=> (start_armed[n] \/ Arms(n))
         /\ target_epoch'[n] = IF Arms(n) THEN StartEpoch(n) ELSE target_epoch[n]
         /\ released'[n] <=> (released[n] \/ Releases(n))
         /\ sticky_fault'[n] <=> (sticky_fault[n] \/ Faults(n))
  BY DEF FabricEdge, NodeEdge

\* What an edge does to one stage of a link.
LEMMA LinkRegisters ==
  ASSUME FabricEdge, NEW c \in Child, NEW k \in Stage(c)
  PROVE  /\ ready_pipe'[c][k] =
              (IF k = 1 THEN subtree_ready(c) ELSE ready_pipe[c][k - 1])
         /\ start_valid_pipe'[c][k] =
              (IF k = 1 THEN start_armed[Parent[c]] ELSE start_valid_pipe[c][k - 1])
         /\ start_epoch_pipe'[c][k] =
              (IF k = 1 THEN target_epoch[Parent[c]] ELSE start_epoch_pipe[c][k - 1])
  BY DEF FabricEdge, LinkEdge

\* A child that arms takes the epoch of a root that is already armed.
LEMMA ChildArmsForRoot ==
  ASSUME IInv, NEW n \in Node, n # Root, Arms(n)
  PROVE  start_armed[Root] /\ StartEpoch(n) = target_epoch[Root]
<1>1. n \in Child /\ Latency[n] \in Stage(n) /\ start_valid_pipe[n][Latency[n]]
  BY Topology DEF Child, Arms, ChildArms
<1>2. QED
  BY <1>1 DEF IInv, StartOnItsWay, StartEpoch

\* Once the root is armed its target no longer moves.
LEMMA TargetFrozen ==
  ASSUME FabricEdge, start_armed[Root]
  PROVE  start_armed'[Root] /\ target_epoch'[Root] = target_epoch[Root]
  BY NodeRegisters, Topology DEF Arms, RootArms

\* When the root's epoch comes, every node is armed for it.
LEMMA AllArmedInTime ==
  ASSUME IInv, Releases(Root)
  PROVE  \A n \in Node : start_armed[n]
<1>1. CASE released[Root]
  BY <1>1 DEF IInv, StartOnItsWay
<1>2. CASE ~released[Root]
  <2>1. Remaining = 0
    <3>1. epoch[Root] \in Nat /\ epoch[Root] = target_epoch[Root]
      BY Topology DEF Releases, IInv, TypeOK, Epochs
    <3>2. QED
      BY <3>1 DEF Remaining
  <2>2. ASSUME NEW n \in Node PROVE start_armed[n]
    <3>1. Remaining + LatencyFromRoot[n] + 1 <= StartMargin
      BY <2>1, Topology
    <3>2. QED
      BY <1>2, <3>1 DEF IInv, StartOnItsWay, Releases
  <2>3. QED
    BY <2>2
<1>3. QED
  BY <1>1, <1>2

\* Hence all nodes release on the same edge.
LEMMA FabricSameCycleRelease == IInv /\ FabricEdge => SameCycleRelease'
<1> SUFFICES ASSUME IInv, FabricEdge, NEW n \in Node
             PROVE  released'[n] <=> released'[Root]
  BY Topology DEF SameCycleRelease
<1>1. released[n] <=> released[Root]
  BY Topology DEF IInv, SameCycleRelease
<1>2. Releases(Root) => Releases(n)
  <2> SUFFICES ASSUME Releases(Root) PROVE Releases(n)
    OBVIOUS
  <2>1. start_armed[n]
    BY AllArmedInTime
  <2>2. target_epoch[n] = target_epoch[Root] /\ epoch[n] = epoch[Root]
    BY <2>1 DEF IInv, StartOnItsWay
  <2>3. QED
    BY <2>1, <2>2 DEF Releases
<1>3. Releases(n) => Releases(Root)
  <2> SUFFICES ASSUME Releases(n) PROVE Releases(Root)
    OBVIOUS
  <2>1. start_armed[n]
    BY DEF Releases
  <2>2. start_armed[Root] /\ target_epoch[n] = target_epoch[Root] /\ epoch[n] = epoch[Root]
    BY <2>1 DEF IInv, StartOnItsWay
  <2>3. QED
    BY <2>2 DEF Releases
<1>4. QED
  BY <1>1, <1>2, <1>3, NodeRegisters, Topology

\* The distance to the target after an edge.
LEMMA RemainingSteps ==
  ASSUME IInv, FabricEdge
  PROVE  /\ Remaining \in Nat /\ Remaining' \in Nat
         /\ RootArms => Remaining' = StartMargin - 1
         /\ start_armed[Root] /\ epoch[Root] # target_epoch[Root]
              => Remaining' = Remaining - 1
<1>0. /\ epoch[Root] \in Epochs /\ target_epoch[Root] \in Epochs
      /\ epoch'[Root] \in Epochs /\ target_epoch'[Root] \in Epochs
  <2>1. TypeOK /\ TypeOK'
    BY FabricTypeOK DEF IInv
  <2>2. QED
    BY <2>1, Topology DEF TypeOK
<1>1. Remaining \in Nat /\ Remaining' \in Nat
  BY <1>0, Topology DEF Remaining, Epochs
<1>2. epoch'[Root] = Wrap(epoch[Root] + 1)
  BY NodeRegisters, Topology
<1>3. ASSUME RootArms PROVE Remaining' = StartMargin - 1
  <2>1. target_epoch'[Root] = Wrap(epoch[Root] + StartMargin)
    BY <1>3, NodeRegisters, Topology DEF Arms, StartEpoch
  <2>2. StartMargin >= 2
    BY Topology
  <2>3. QED
    BY <1>0, <1>2, <2>1, <2>2, Topology DEF Remaining, Wrap, Epochs
<1>4. ASSUME start_armed[Root], epoch[Root] # target_epoch[Root]
      PROVE  Remaining' = Remaining - 1
  <2>1. target_epoch'[Root] = target_epoch[Root]
    BY <1>4, TargetFrozen
  <2>2. epoch[Root] # target_epoch[Root]
    BY <1>4
  <2> DEFINE now == epoch[Root]
             goal == target_epoch[Root]
  <2>3. now \in Nat /\ goal \in Nat /\ now < EpochModulus /\ goal < EpochModulus
    BY <1>0, Topology DEF Epochs
  <2>4. epoch'[Root] = IF now + 1 < EpochModulus THEN now + 1 ELSE now + 1 - EpochModulus
    BY <1>2, <2>3, Topology DEF Wrap
  <2>5. CASE now + 1 < EpochModulus
    BY <2>1, <2>2, <2>3, <2>4, <2>5, Topology DEF Remaining
  <2>6. CASE now + 1 = EpochModulus
    <3>1. epoch'[Root] = 0
      BY <2>3, <2>4, <2>6, Topology
    <3>2. QED
      BY <2>1, <2>2, <2>3, <3>1, <2>6, Topology DEF Remaining
  <2>7. QED
    BY <2>3, <2>5, <2>6, Topology
<1>5. QED
  BY <1>1, <1>3, <1>4

\* The schedule of the start word survives an edge.
LEMMA FabricStartOnItsWay == IInv /\ FabricEdge => StartOnItsWay'
<1> SUFFICES ASSUME IInv, FabricEdge PROVE StartOnItsWay'
  OBVIOUS
<1>1. ASSUME NEW n \in Node PROVE epoch'[n] = epoch'[Root]
  <2>1. epoch[n] = epoch[Root]
    BY DEF IInv, StartOnItsWay
  <2>2. QED
    BY <2>1, NodeRegisters, Topology
<1>2. ASSUME NEW n \in Node, start_armed'[n]
      PROVE  start_armed'[Root] /\ target_epoch'[n] = target_epoch'[Root]
  <2>1. CASE n = Root
    BY <1>2, <2>1
  <2>2. CASE n # Root /\ start_armed[n]
    <3>1. start_armed[Root] /\ target_epoch[n] = target_epoch[Root]
      BY <2>2 DEF IInv, StartOnItsWay
    <3>2. ~Arms(n)
      BY <2>2 DEF Arms, ChildArms
    <3>3. target_epoch'[n] = target_epoch[n]
      BY <3>2, NodeRegisters
    <3>4. QED
      BY <3>1, <3>3, TargetFrozen
  <2>3. CASE n # Root /\ Arms(n)
    <3>1. start_armed[Root] /\ StartEpoch(n) = target_epoch[Root]
      BY <2>3, ChildArmsForRoot
    <3>2. target_epoch'[n] = StartEpoch(n)
      BY <2>3, NodeRegisters
    <3>3. QED
      BY <3>1, <3>2, TargetFrozen
  <2>4. QED
    BY <1>2, <2>1, <2>2, <2>3, NodeRegisters
<1>3. ASSUME NEW c \in Child, NEW k \in Stage(c), start_valid_pipe'[c][k]
      PROVE  start_armed'[Root] /\ start_epoch_pipe'[c][k] = target_epoch'[Root]
  <2>1. start_armed[Root] /\ start_epoch_pipe'[c][k] = target_epoch[Root]
    <3>1. CASE k = 1
      <4>1. Parent[c] \in Node /\ start_armed[Parent[c]]
        BY <1>3, <3>1, LinkRegisters, Topology
      <4>2. start_epoch_pipe'[c][k] = target_epoch[Parent[c]]
        BY <3>1, LinkRegisters
      <4>3. QED
        BY <4>1, <4>2 DEF IInv, StartOnItsWay
    <3>2. CASE k # 1
      <4>1. k - 1 \in Stage(c)
        BY <3>2, StageBefore
      <4>2. start_valid_pipe[c][k - 1] /\ start_epoch_pipe'[c][k] = start_epoch_pipe[c][k - 1]
        BY <1>3, <3>2, LinkRegisters
      <4>3. QED
        BY <4>1, <4>2 DEF IInv, StartOnItsWay
    <3>3. QED
      BY <3>1, <3>2
  <2>2. QED
    BY <2>1, TargetFrozen
<1>4. ASSUME released'[Root], NEW n \in Node PROVE start_armed'[n]
  <2>1. released[Root] \/ Releases(Root)
    BY <1>4, NodeRegisters, Topology
  <2>2. start_armed[n]
    BY <2>1, AllArmedInTime DEF IInv, StartOnItsWay
  <2>3. QED
    BY <2>2, NodeRegisters
<1>5. ASSUME start_armed'[Root], ~released'[Root]
      PROVE  /\ Remaining' < StartMargin
             /\ \A n \in Node :
                  Remaining' + LatencyFromRoot[n] + 1 <= StartMargin => start_armed'[n]
             /\ \A c \in Child : \A k \in Stage(c) :
                  Remaining' + LatencyFromRoot[Parent[c]] + 1 + k <= StartMargin
                    => start_valid_pipe'[c][k]
  <2>1. CASE RootArms
    <3>1. Remaining' = StartMargin - 1
      BY <2>1, RemainingSteps
    <3>2. ASSUME NEW n \in Node, Remaining' + LatencyFromRoot[n] + 1 <= StartMargin
          PROVE  start_armed'[n]
      <4>1. n \notin Child
        BY <3>1, <3>2, Topology
      <4>2. QED
        BY <4>1, <1>5 DEF Child
    <3>3. ASSUME NEW c \in Child, NEW k \in Stage(c)
          PROVE  ~(Remaining' + LatencyFromRoot[Parent[c]] + 1 + k <= StartMargin)
      BY <3>1, Topology DEF Stage
    <3>4. QED
      BY <3>1, <3>2, <3>3, Topology
  <2>2. CASE start_armed[Root]
    <3>1. ~released[Root] /\ epoch[Root] # target_epoch[Root]
      BY <1>5, <2>2, NodeRegisters, Topology DEF Releases
    <3>2. Remaining \in Nat /\ Remaining' = Remaining - 1
      BY <2>2, <3>1, RemainingSteps
    <3>3. /\ Remaining < StartMargin
          /\ \A n \in Node :
               Remaining + LatencyFromRoot[n] + 1 <= StartMargin => start_armed[n]
          /\ \A c \in Child : \A k \in Stage(c) :
               Remaining + LatencyFromRoot[Parent[c]] + 1 + k <= StartMargin
                 => start_valid_pipe[c][k]
      BY <2>2, <3>1 DEF IInv, StartOnItsWay
    <3>4. ASSUME NEW n \in Node, Remaining' + LatencyFromRoot[n] + 1 <= StartMargin
          PROVE  start_armed'[n]
      <4>1. CASE n = Root
        BY <4>1, <1>5
      <4>2. CASE n # Root
        <5>1. n \in Child
          BY <4>2 DEF Child
        <5>2. Remaining + LatencyFromRoot[Parent[n]] + 1 + Latency[n] <= StartMargin
          BY <5>1, <3>2, <3>4, Topology
        <5>3. start_valid_pipe[n][Latency[n]]
          BY <5>1, <5>2, <3>3, Topology
        <5>4. QED
          BY <4>2, <5>3, NodeRegisters DEF Arms, ChildArms
      <4>3. QED
        BY <4>1, <4>2
    <3>5. ASSUME NEW c \in Child, NEW k \in Stage(c),
                 Remaining' + LatencyFromRoot[Parent[c]] + 1 + k <= StartMargin
          PROVE  start_valid_pipe'[c][k]
      <4>1. CASE k = 1
        <5>1. Remaining + LatencyFromRoot[Parent[c]] + 1 <= StartMargin
          BY <3>2, <3>5, <4>1, Topology
        <5>2. start_armed[Parent[c]]
          BY <5>1, <3>3, Topology
        <5>3. QED
          BY <4>1, <5>2, LinkRegisters
      <4>2. CASE k # 1
        <5>1. k - 1 \in Stage(c) /\ k \in Nat
          BY <4>2, StageBefore, Topology DEF Stage
        <5>2. Remaining + LatencyFromRoot[Parent[c]] + 1 + (k - 1) <= StartMargin
          BY <3>2, <3>5, <5>1, Topology
        <5>3. start_valid_pipe[c][k - 1]
          BY <5>1, <5>2, <3>3
        <5>4. QED
          BY <4>2, <5>3, LinkRegisters
      <4>3. QED
        BY <4>1, <4>2
    <3>6. QED
      BY <3>2, <3>3, <3>4, <3>5, Topology
  <2>3. QED
    BY <1>5, <2>1, <2>2, NodeRegisters, Topology DEF Arms
<1>6. QED
  BY <1>1, <1>2, <1>3, <1>4, <1>5 DEF StartOnItsWay

\* A not-ready cycle moves one stage up or faults the parent.
LEMMA FabricFaultInFlight == IInv /\ FabricEdge => FaultInFlight'
<1> SUFFICES ASSUME IInv, FabricEdge, NEW c \in Child,
                    sticky_fault'[c], ~sticky_fault'[Parent[c]]
             PROVE  \E k \in Stage(c) : ~ready_pipe'[c][k]
  BY DEF FaultInFlight
<1>1. c \in Node /\ Parent[c] \in Node
  BY Topology
<1>2. ~sticky_fault[Parent[c]] /\ ~Faults(Parent[c])
  BY <1>1, NodeRegisters
<1>3. CASE sticky_fault[c]
  <2>1. PICK k \in Stage(c) : ~ready_pipe[c][k]
    BY <1>2, <1>3 DEF IInv, FaultInFlight
  <2>2. released[Parent[c]]
    BY <1>1, <1>3 DEF IInv, ReadyWasSeen, SameCycleRelease
  <2>3. k # Latency[c]
    <3>1. subtree_ready(Parent[c])
      BY <1>2, <2>2 DEF Faults
    <3>2. c \in Children(Parent[c])
      BY DEF Children
    <3>3. QED
      BY <2>1, <3>1, <3>2 DEF subtree_ready
  <2>4. k + 1 \in Stage(c) /\ k + 1 # 1 /\ (k + 1) - 1 = k
    BY <2>3, Topology DEF Stage
  <2>5. ~ready_pipe'[c][k + 1]
    BY <2>1, <2>4, LinkRegisters
  <2>6. QED
    BY <2>4, <2>5
<1>4. CASE Faults(c)
  <2>1. 1 \in Stage(c) /\ ~subtree_ready(c)
    BY <1>4, Topology DEF Stage, Faults
  <2>2. QED
    BY <2>1, LinkRegisters
<1>5. QED
  BY <1>1, <1>3, <1>4, NodeRegisters

\* A ready subtree was seen ready.
LEMMA SubtreeSeen ==
  ASSUME IInv, NEW n \in Node, subtree_ready(n)
  PROVE  Subtree[n] \subseteq ready_seen
<1>1. n \in ready_seen
  BY DEF subtree_ready, IInv, ReadyWasSeen
<1>2. ASSUME NEW m \in Subtree[n] PROVE m \in ready_seen
  <2>1. CASE m = n
    BY <1>1, <2>1
  <2>2. CASE \E c \in Child : Parent[c] = n /\ m \in Subtree[c]
    <3>1. PICK c \in Child : Parent[c] = n /\ m \in Subtree[c]
      BY <2>2
    <3>2. Latency[c] \in Stage(c) /\ ready_pipe[c][Latency[c]]
      BY <3>1, Topology DEF subtree_ready, Children
    <3>3. QED
      BY <3>1, <3>2 DEF IInv, ReadyWasSeen
  <2>3. QED
    BY <2>1, <2>2, TopologyAssumption DEF TopologyOK, Child
<1>3. QED
  BY <1>2

\* What the pipes remember about readiness survives an edge.
LEMMA FabricReadyWasSeen == IInv /\ FabricEdge => ReadyWasSeen'
<1> SUFFICES ASSUME IInv, FabricEdge PROVE ReadyWasSeen'
  OBVIOUS
<1>0. ready_seen \subseteq ready_seen' /\ ready_seen' \subseteq Node
  BY DEF FabricEdge, Inputs, IInv, TypeOK
<1>1. ASSUME NEW n \in Node, sticky_fault'[n] PROVE released'[n]
  BY <1>1, NodeRegisters DEF Faults, IInv, ReadyWasSeen
<1>2. ASSUME NEW n \in Node, local_ready'[n] PROVE n \in ready_seen'
  BY <1>2 DEF FabricEdge, Inputs
<1>3. ASSUME NEW c \in Child, NEW k \in Stage(c), ready_pipe'[c][k]
      PROVE  Subtree[c] \subseteq ready_seen'
  <2>1. CASE k = 1
    BY <1>0, <1>3, <2>1, LinkRegisters, SubtreeSeen, Topology
  <2>2. CASE k # 1
    <3>1. k - 1 \in Stage(c) /\ ready_pipe[c][k - 1]
      BY <1>3, <2>2, StageBefore, LinkRegisters
    <3>2. QED
      BY <1>0, <3>1 DEF IInv, ReadyWasSeen
  <2>3. QED
    BY <2>1, <2>2
<1>4. ASSUME start_armed'[Root] PROVE ready_seen' = Node
  <2>1. CASE start_armed[Root]
    BY <1>0, <2>1 DEF IInv, ReadyWasSeen
  <2>2. CASE RootArms
    <3>1. Subtree[Root] = Node
      BY TopologyAssumption DEF TopologyOK
    <3>2. Node \subseteq ready_seen
      BY <2>2, <3>1, SubtreeSeen, Topology DEF RootArms
    <3>3. QED
      BY <1>0, <3>2
  <2>3. QED
    BY <1>4, <2>1, <2>2, NodeRegisters, Topology DEF Arms
<1>5. QED
  BY <1>1, <1>2, <1>3, <1>4 DEF ReadyWasSeen

\* The invariant is inductive.
LEMMA StepIInv == IInv /\ [Next]_vars => IInv'
<1> SUFFICES ASSUME IInv, [Next]_vars PROVE IInv'
  OBVIOUS
<1>1. CASE ResetEdge
  BY <1>1, ResetIInv
<1>2. CASE FabricEdge
  <2>1. TypeOK'
    BY <1>2, FabricTypeOK DEF IInv
  <2>2. QED
    BY <1>2, <2>1, FabricSameCycleRelease, FabricStartOnItsWay,
       FabricFaultInFlight, FabricReadyWasSeen DEF IInv
<1>3. CASE UNCHANGED vars
  BY <1>3 DEF vars, registers, IInv, TypeOK, SameCycleRelease, StartOnItsWay,
     Remaining, FaultInFlight, ReadyWasSeen
<1>4. QED
  BY <1>1, <1>2, <1>3 DEF Next

\* Every register of every node and edge keeps its width.
THEOREM TypeCorrect == Spec => []TypeOK
<1>1. IInv => TypeOK
  BY DEF IInv
<1>2. QED
  BY InitIInv, StepIInv, <1>1, PTL DEF Spec

\* In every tree that the topology builder can return, the FPGAs are released
\* on one clock edge.
THEOREM ReleaseTogether == Spec => []SameCycleRelease
<1>1. IInv => SameCycleRelease
  BY DEF IInv
<1>2. QED
  BY InitIInv, StepIInv, <1>1, PTL DEF Spec

\* A descendant's fault is never lost on its way to the root.
THEOREM FaultNotLost == Spec => []FaultInFlight
<1>1. IInv => FaultInFlight
  BY DEF IInv
<1>2. QED
  BY InitIInv, StepIInv, <1>1, PTL DEF Spec

\* The start word keeps its schedule in every tree: no node learns of the
\* start later than its broadcast latency, and always for the root's epoch.
THEOREM StartArrivesInTime == Spec => []StartOnItsWay
<1>1. IInv => StartOnItsWay
  BY DEF IInv
<1>2. QED
  BY InitIInv, StepIInv, <1>1, PTL DEF Spec

\* No node ever starts an FPGA that did not show that it was ready.
THEOREM StartNeedsReady == Spec => []ReadyWasSeen
<1>1. IInv => ReadyWasSeen
  BY DEF IInv
<1>2. QED
  BY InitIInv, StepIInv, <1>1, PTL DEF Spec

\* The tree of nodes and pipelined links implements the abstract barrier.
THEOREM ImplementsBarrier == Spec => BarrierSpec
<1>1. Init => Barrier!Init
  BY DEF Init, Barrier!Init, AllNodes
<1>2. IInv /\ [Next]_vars => [Barrier!Next]_(Barrier!vars)
  <2> SUFFICES ASSUME IInv, [Next]_vars PROVE [Barrier!Next]_(Barrier!vars)
    OBVIOUS
  <2>1. CASE ResetEdge
    <3>1. ready_seen' \in SUBSET Node
      BY <2>1 DEF ResetEdge, Inputs
    <3>2. \A n \in Node : ~released'[n] /\ ~sticky_fault'[n]
      BY <2>1 DEF ResetEdge, AllNodes
    <3>3. QED
      BY <3>1, <3>2 DEF Barrier!Next, Barrier!Reset
  <2>2. CASE FabricEdge
    <3>1. ready_seen' \in SUBSET Node /\ ready_seen \subseteq ready_seen'
      BY <2>2 DEF FabricEdge, Inputs, IInv, TypeOK
    <3>2. \A n \in Node : released[n] => released'[n]
      BY <2>2, NodeRegisters
    <3>3. \A n \in Node : sticky_fault[n] => sticky_fault'[n]
      BY <2>2, NodeRegisters
    <3>4. \A n \in Node : sticky_fault'[n] => sticky_fault[n] \/ released[n]
      BY <2>2, NodeRegisters DEF Faults
    <3>5. \/ {n \in Node : released'[n]} = {n \in Node : released[n]}
          \/ ready_seen = Node /\ {n \in Node : released'[n]} = Node
      <4>1. CASE \A n \in Node : released'[n] => released[n]
        BY <4>1, <3>2
      <4>2. CASE \E n \in Node : released'[n] /\ ~released[n]
        <5>1. PICK n \in Node : released'[n] /\ ~released[n]
          BY <4>2
        <5>2. start_armed[n]
          BY <2>2, <5>1, NodeRegisters DEF Releases
        <5>3. ready_seen = Node
          BY <5>2 DEF IInv, StartOnItsWay, ReadyWasSeen
        <5>4. \A m \in Node : released'[m]
          BY <2>2, <5>1, FabricSameCycleRelease DEF SameCycleRelease
        <5>5. QED
          BY <5>3, <5>4
      <4>3. QED
        BY <4>1, <4>2
    <3>6. QED
      BY <3>1, <3>3, <3>4, <3>5 DEF Barrier!Next, Barrier!Cycle
  <2>3. CASE UNCHANGED vars
    BY <2>3 DEF vars, registers, Barrier!vars
  <2>4. QED
    BY <2>1, <2>2, <2>3 DEF Next
<1>3. QED
  BY InitIInv, StepIInv, <1>1, <1>2, PTL DEF Spec, BarrierSpec, Barrier!Spec

-----------------------------------------------------------------------------
\* The dated properties of the start barrier, for every tree: a fault is at
\* the root within the broadcast latency, and no FPGA is released unless each
\* one was ready READY_STABLE_CYCLES cycles in a row.

HTypeOK ==
  /\ ready_run \in [Node -> 0..ReadyStable]
  /\ qualified \subseteq Node
  /\ \A n \in Node : ready_run[n] = ReadyStable => n \in qualified
  /\ fault_age \in Nat

LEMMA HStepIsStep == [HNext]_hvars => [Next]_vars
  BY DEF HNext, hvars

\* An edge that is not a reset, with what the history makes of it.
HFabricEdge == HNext /\ FabricEdge
HResetEdge == HNext /\ ResetEdge

LEMMA RunNowType ==
  ASSUME HTypeOK
  PROVE  RunNow \in [Node -> 0..ReadyStable]
  BY Topology DEF HTypeOK, RunNow

LEMMA HInitType == HInit => HTypeOK
  BY Topology DEF HInit, HTypeOK

LEMMA HStepType == HTypeOK /\ [HNext]_hvars => HTypeOK'
<1> SUFFICES ASSUME HTypeOK, [HNext]_hvars PROVE HTypeOK'
  OBVIOUS
<1>1. CASE HNext
  <2>1. ready_run' \in [Node -> 0..ReadyStable]
    BY <1>1, RunNowType DEF HNext
  <2>2. qualified' \subseteq Node
    BY <1>1 DEF HNext, HTypeOK
  <2>3. ASSUME NEW n \in Node, ready_run'[n] = ReadyStable PROVE n \in qualified'
    <3>1. ~reset
      BY <1>1, <2>3, Topology DEF HNext, RunNow
    <3>2. QED
      BY <1>1, <2>3, <3>1 DEF HNext
  <2>4. fault_age' \in Nat
    BY <1>1 DEF HNext, HTypeOK
  <2>5. QED
    BY <2>1, <2>2, <2>3, <2>4 DEF HTypeOK
<1>2. CASE UNCHANGED hvars
  BY <1>2 DEF hvars, HTypeOK
<1>3. QED
  BY <1>1, <1>2

-----------------------------------------------------------------------------
(* A fault is at the root within the broadcast latency.                    *)

\* Cycles that a not-ready cycle in stage k of c's edge still needs, at most,
\* to fault the root.
ToRoot(c, k) == (Latency[c] - k) + 1 + LatencyFromRoot[Parent[c]]

\* While the root has not faulted, some not-ready cycle is far enough on its
\* way; without a fault the clock of the history stands.
FaultOnTime ==
  /\ (\A n \in Node : ~sticky_fault[n]) => fault_age = 0
  /\ (\E n \in Node : sticky_fault[n]) /\ ~sticky_fault[Root] =>
       \E c \in Child : \E k \in Stage(c) :
         ~ready_pipe[c][k] /\ fault_age + ToRoot(c, k) <= MaxFromRoot

LEMMA FabricFaultOnTime ==
  ASSUME IInv, HTypeOK, FaultOnTime, HFabricEdge
  PROVE  FaultOnTime'
<1> USE DEF HFabricEdge
<1>1. ASSUME \A n \in Node : ~sticky_fault'[n] PROVE fault_age' = 0
  BY <1>1, NodeRegisters DEF HNext
<1>2. ASSUME \E n \in Node : sticky_fault'[n], ~sticky_fault'[Root]
      PROVE  \E c \in Child : \E k \in Stage(c) :
               ~ready_pipe'[c][k] /\ fault_age' + ToRoot(c, k) <= MaxFromRoot
  <2>1. ~sticky_fault[Root] /\ ~Faults(Root)
    BY <1>2, NodeRegisters, Topology
  <2>2. CASE \A n \in Node : ~sticky_fault[n]
    <3>1. PICK n \in Node : sticky_fault'[n]
      BY <1>2
    <3>2. n \in Child /\ Faults(n) /\ fault_age' = 0
      BY <1>2, <2>2, <3>1, NodeRegisters DEF Child, HNext
    <3>3. 1 \in Stage(n) /\ ~subtree_ready(n)
      BY <3>2, Topology DEF Faults, Stage
    <3>4. ~ready_pipe'[n][1]
      BY <3>2, <3>3, LinkRegisters
    <3>5. fault_age' + ToRoot(n, 1) <= MaxFromRoot
      BY <3>2, Topology DEF ToRoot, MaxFromRoot
    <3>6. QED
      BY <3>2, <3>3, <3>4, <3>5
  <2>3. CASE \E n \in Node : sticky_fault[n]
    <3>0. PICK c \in Child : \E k \in Stage(c) :
            ~ready_pipe[c][k] /\ fault_age + ToRoot(c, k) <= MaxFromRoot
      BY <2>1, <2>3 DEF FaultOnTime
    <3>1. PICK k \in Stage(c) :
            ~ready_pipe[c][k] /\ fault_age + ToRoot(c, k) <= MaxFromRoot
      BY <3>0
    <3>2. fault_age' \in Nat /\ fault_age' <= fault_age + 1 /\ fault_age \in Nat
      BY HStepType DEF HNext, HTypeOK
    <3>3. k \in Nat /\ k >= 1 /\ k <= Latency[c]
      BY Topology DEF Stage
    <3>4. CASE k # Latency[c]
      <4>1. k + 1 \in Stage(c) /\ k + 1 # 1 /\ (k + 1) - 1 = k
        BY <3>3, <3>4, Topology DEF Stage
      <4>2. ~ready_pipe'[c][k + 1]
        BY <3>1, <4>1, LinkRegisters
      <4>3. fault_age' + ToRoot(c, k + 1) <= MaxFromRoot
        BY <3>1, <3>2, <3>3, Topology DEF ToRoot, MaxFromRoot
      <4>4. QED
        BY <4>1, <4>2, <4>3
    <3>5. CASE k = Latency[c]
      <4> DEFINE p == Parent[c]
      <4>1. p \in Node /\ released[p]
        BY <2>3, Topology DEF IInv, ReadyWasSeen, SameCycleRelease
      <4>2. ~subtree_ready(p)
        BY <3>1, <3>5 DEF subtree_ready, Children
      <4>3. p \in Child
        BY <2>1, <4>1, <4>2 DEF Child, Faults
      <4>4. 1 \in Stage(p) /\ ~ready_pipe'[p][1]
        BY <4>2, <4>3, Topology, LinkRegisters DEF Stage
      <4>5. LatencyFromRoot[p] = LatencyFromRoot[Parent[p]] + Latency[p] + 1
        BY <4>3, Topology
      <4>6. fault_age' + ToRoot(p, 1) <= MaxFromRoot
        BY <3>1, <3>2, <3>5, <4>3, <4>5, Topology DEF ToRoot, MaxFromRoot
      <4>7. QED
        BY <4>3, <4>4, <4>6
    <3>6. QED
      BY <3>4, <3>5
  <2>4. QED
    BY <2>2, <2>3
<1>3. QED
  BY <1>1, <1>2 DEF FaultOnTime, ToRoot, MaxFromRoot

LEMMA FaultOnTimeStep ==
  IInv /\ HTypeOK /\ FaultOnTime /\ [HNext]_hvars => FaultOnTime'
<1> SUFFICES ASSUME IInv, HTypeOK, FaultOnTime, [HNext]_hvars PROVE FaultOnTime'
  OBVIOUS
<1>1. CASE HFabricEdge
  BY <1>1, FabricFaultOnTime
<1>2. CASE HResetEdge
  BY <1>2 DEF HResetEdge, HNext, ResetEdge, AllNodes, FaultOnTime
<1>3. CASE UNCHANGED hvars
  BY <1>3 DEF hvars, vars, registers, FaultOnTime, ToRoot, MaxFromRoot
<1>4. QED
  BY <1>1, <1>2, <1>3 DEF HNext, Next, HFabricEdge, HResetEdge

\* In every tree the fault of any FPGA shows at the root no later than the
\* largest broadcast latency after it was raised.
THEOREM FaultReachesRoot == HSpec => []FaultBounded
<1>1. HInit => IInv /\ HTypeOK /\ FaultOnTime
  <2>1. HInit => FaultOnTime
    BY DEF HInit, Init, AllNodes, FaultOnTime
  <2>2. QED
    BY <2>1, InitIInv, HInitType DEF HInit
<1>2. (IInv /\ HTypeOK /\ FaultOnTime) /\ [HNext]_hvars
        => (IInv /\ HTypeOK /\ FaultOnTime)'
  BY HStepIsStep, StepIInv, HStepType, FaultOnTimeStep
<1>3. IInv /\ HTypeOK /\ FaultOnTime => FaultBounded
  <2> SUFFICES ASSUME HTypeOK, FaultOnTime, fault_age > MaxFromRoot, ~sticky_fault[Root]
               PROVE  FALSE
    BY DEF FaultBounded
  <2>1. MaxFromRoot \in Nat /\ fault_age \in Nat
    BY Topology DEF MaxFromRoot, HTypeOK
  <2>2. \E c \in Child : \E k \in Stage(c) : fault_age + ToRoot(c, k) <= MaxFromRoot
    BY <2>1 DEF FaultOnTime
  <2>3. \A c \in Child : \A k \in Stage(c) : ToRoot(c, k) \in Nat
    BY Topology DEF ToRoot, Stage
  <2>4. QED
    BY <2>1, <2>2, <2>3
<1>4. QED
  BY <1>1, <1>2, <1>3, PTL DEF HSpec

-----------------------------------------------------------------------------
(* Paths to the root.                                                      *)

\* The stages between a node and the root, added up along its path.
IsUp(u) == u[Root] = 0 /\ \A c \in Child : u[c] = u[Parent[c]] + Latency[c]
Up == CHOOSE u \in [Node -> Nat] : IsUp(u)

\* There is such a sum: it is defined on ever more distant nodes.
LEMMA UpExists == \E u \in [Node -> Nat] : IsUp(u)
<1> DEFINE Near(m) == {n \in Node : LatencyFromRoot[n] <= m}
           OKOn(u, m) == /\ u[Root] = 0
                         /\ \A c \in Child \cap Near(m) : u[c] = u[Parent[c]] + Latency[c]
           Bad == {m \in Nat : ~\E u \in [Node -> Nat] : OKOn(u, m)}
<1>1. Bad = {}
  <2> SUFFICES ASSUME Bad # {} PROVE FALSE
    OBVIOUS
  <2>1. Bad \in SUBSET Nat
    OBVIOUS
  <2> HIDE DEF Bad
  <2>2. PICK m \in Bad : \A k \in Bad : m <= k
    BY <2>1, LeastNat
  <2> USE DEF Bad
  <2>3. CASE m = 0
    <3>1. Child \cap Near(0) = {}
      BY Topology
    <3>2. [n \in Node |-> 0] \in [Node -> Nat] /\ OKOn([n \in Node |-> 0], 0)
      BY <3>1, Topology
    <3>3. QED
      BY <2>3, <3>2
  <2>4. CASE m # 0
    <3>1. m - 1 \in Nat /\ m - 1 \notin Bad
      BY <2>2, <2>4
    <3>2. PICK u \in [Node -> Nat] : OKOn(u, m - 1)
      BY <3>1
    <3> DEFINE v == [n \in Node |-> IF n \in Child /\ LatencyFromRoot[n] = m
                                    THEN u[Parent[n]] + Latency[n] ELSE u[n]]
    <3>3. v \in [Node -> Nat]
      BY Topology
    <3>4. v[Root] = 0
      BY <3>2, Topology DEF Child
    <3>5. ASSUME NEW c \in Child, LatencyFromRoot[c] <= m
          PROVE  v[c] = v[Parent[c]] + Latency[c]
      <4>1. LatencyFromRoot[Parent[c]] < LatencyFromRoot[c]
        BY Topology
      <4>2. v[Parent[c]] = u[Parent[c]]
        BY <3>5, <4>1, Topology
      <4>3. CASE LatencyFromRoot[c] = m
        BY <4>2, <4>3, Topology
      <4>4. CASE LatencyFromRoot[c] # m
        <5>1. c \in Near(m - 1)
          BY <3>5, <4>4, Topology
        <5>2. v[c] = u[c]
          BY <4>4, Topology
        <5>3. QED
          BY <3>2, <4>2, <5>1, <5>2
      <4>5. QED
        BY <4>3, <4>4
    <3>6. OKOn(v, m)
      BY <3>4, <3>5
    <3>7. QED
      BY <3>3, <3>6
  <2>5. QED
    BY <2>3, <2>4
<1>2. PICK u \in [Node -> Nat] : OKOn(u, StartMargin)
  BY <1>1, Topology
<1>3. Child \subseteq Near(StartMargin)
  BY Topology
<1>4. QED
  BY <1>2, <1>3 DEF IsUp

LEMMA UpFact ==
  /\ Up \in [Node -> Nat]
  /\ Up[Root] = 0
  /\ \A c \in Child : Up[c] = Up[Parent[c]] + Latency[c]
  BY UpExists DEF Up, IsUp

\* The edges on the path of a node: its own, and that of the parent of each.
Upwards(S) == \A c \in S : Parent[c] \in Child => Parent[c] \in S
Above(n) == {c \in Child : \A S \in SUBSET Child : n \in S /\ Upwards(S) => c \in S}

LEMMA AboveFact ==
  ASSUME NEW n \in Node
  PROVE  /\ n \in Child => n \in Above(n)
         /\ \A c \in Above(n) : c \in Child /\ (Parent[c] \in Child => Parent[c] \in Above(n))
         /\ n \in Child /\ Parent[n] \in Child => Above(Parent[n]) \subseteq Above(n)
<1>1. n \in Child => n \in Above(n)
  BY DEF Above
<1>2. \A c \in Above(n) : c \in Child /\ (Parent[c] \in Child => Parent[c] \in Above(n))
  BY DEF Above, Upwards
<1>3. ASSUME n \in Child, Parent[n] \in Child, NEW c \in Above(Parent[n])
      PROVE  c \in Above(n)
  BY <1>1, <1>2, <1>3 DEF Above, Upwards
<1>4. QED
  BY <1>1, <1>2, <1>3

\* Cycles until the root has sampled what is in stage k of c's edge.
Dist(c, k) == Up[Parent[c]] + (Latency[c] - k) + 1

\* Every distance up to a node's own is that of a stage on its path.
LEMMA PathCovered ==
  ASSUME NEW n \in Node, NEW x \in 1..Up[n]
  PROVE  \E c \in Above(n) : \E k \in Stage(c) : Dist(c, k) = x
<1> DEFINE Has(m, y) == \E c \in Above(m) : \E k \in Stage(c) : Dist(c, k) = y
           Bad == {u \in Nat : \E m \in Node : Up[m] = u /\ \E y \in 1..u : ~Has(m, y)}
<1>1. SUFFICES ASSUME Bad # {} PROVE FALSE
  BY UpFact
<1>2. Bad \in SUBSET Nat
  OBVIOUS
<1> HIDE DEF Bad
<1>3. PICK u \in Bad : \A w \in Bad : u <= w
  BY <1>1, <1>2, LeastNat
<1> USE DEF Bad
<1> HIDE DEF Has
<1>4. PICK m \in Node : Up[m] = u /\ \E y \in 1..u : ~Has(m, y)
  BY <1>3
<1>5. PICK y \in 1..u : ~Has(m, y)
  BY <1>4
<1>6. u \in Nat /\ y \in Nat /\ 1 <= y /\ y <= u
  BY <1>3, <1>5
<1>7. m \in Child
  BY <1>4, <1>6, UpFact DEF Child
<1> DEFINE p == Parent[m]
<1>8. /\ p \in Node /\ Up[p] \in Nat /\ Up[m] = Up[p] + Latency[m]
      /\ Latency[m] \in Nat /\ Latency[m] >= 1
  BY <1>7, UpFact, Topology
<1>9. CASE y > Up[p]
  <2> DEFINE k == Up[p] + Latency[m] + 1 - y
  <2>1. k \in Stage(m) /\ Dist(m, k) = y
    BY <1>4, <1>6, <1>8, <1>9 DEF Stage, Dist
  <2>2. QED
    BY <1>5, <1>7, <2>1, AboveFact DEF Has
<1>10. CASE y <= Up[p]
  <2>1. Up[p] \notin Bad
    BY <1>3, <1>4, <1>8
  <2>2. Has(p, y)
    BY <1>6, <1>8, <1>10, <2>1
  <2>3. p \in Child
    BY <1>6, <1>8, <1>10, UpFact DEF Child
  <2>4. QED
    BY <1>5, <1>7, <2>2, <2>3, AboveFact DEF Has
<1>11. QED
  BY <1>6, <1>8, <1>9, <1>10

-----------------------------------------------------------------------------
(* No release before every FPGA was ready READY_STABLE_CYCLES in a row.    *)

\* A not-ready cycle is on the path of n, between lo and hi cycles away from
\* the root.
GapIn(n, lo, hi) ==
  \E c \in Above(n) : \E k \in Stage(c) :
    ~ready_pipe[c][k] /\ lo < Dist(c, k) /\ Dist(c, k) <= hi

\* As long as n was never ready ReadyStable cycles in a row, each window of
\* that many cycles on its path to the root has a gap, unless it reaches back
\* to the present; so has the window of which the root counted the first part.
Windows ==
  \A n \in Node \ qualified :
    /\ \A d \in 0..Up[n] :
         GapIn(n, d, d + ReadyStable) \/ ready_run[n] + d >= Up[n]
    /\ \/ GapIn(n, 0, ReadyStable - ready_stable_count)
       \/ ready_run[n] >= Up[n] + ready_stable_count

\* The root decides to start only when every node qualified.
ArmedQualified == start_armed[Root] => qualified = Node

\* A gap comes one cycle closer to the root, or the root samples it.
LEMMA GapMoves ==
  ASSUME IInv, FabricEdge, NEW n \in Node, NEW c \in Above(n), NEW k \in Stage(c),
         ~ready_pipe[c][k]
  PROVE  /\ Dist(c, k) \in Nat /\ Dist(c, k) >= 1
         /\ Dist(c, k) = 1 => ~subtree_ready(Root)
         /\ Dist(c, k) > 1 =>
              \E d \in Above(n) : \E j \in Stage(d) :
                ~ready_pipe'[d][j] /\ Dist(d, j) = Dist(c, k) - 1
<1> DEFINE p == Parent[c]
<1>1. /\ c \in Child /\ p \in Node /\ Up[p] \in Nat
      /\ Latency[c] \in Nat /\ k \in Nat /\ 1 <= k /\ k <= Latency[c]
  BY AboveFact, UpFact, Topology DEF Stage
<1>2. Dist(c, k) \in Nat /\ Dist(c, k) >= 1
  BY <1>1 DEF Dist
<1>3. CASE k # Latency[c]
  <2>1. k + 1 \in Stage(c) /\ k + 1 # 1 /\ (k + 1) - 1 = k
    BY <1>1, <1>3 DEF Stage
  <2>2. ~ready_pipe'[c][k + 1]
    BY <1>1, <2>1, LinkRegisters
  <2>3. Dist(c, k + 1) = Dist(c, k) - 1
    BY <1>1 DEF Dist
  <2>4. Dist(c, k) # 1
    <3>1. Dist(c, k) = Up[p] + (Latency[c] - k) + 1 /\ Latency[c] - k > 0
      BY <1>1, <1>3 DEF Dist
    <3>2. QED
      BY <1>1, <3>1
  <2>5. QED
    BY <1>2, <2>1, <2>2, <2>3, <2>4
<1>4. CASE k = Latency[c]
  <2>1. ~subtree_ready(p)
    BY <1>1, <1>4 DEF subtree_ready, Children
  <2>2. CASE p = Root
    <3>1. Dist(c, k) = 1
      BY <1>1, <1>4, <2>2, UpFact DEF Dist
    <3>2. QED
      BY <2>1, <2>2, <3>1
  <2>3. CASE p # Root
    <3>1. p \in Child /\ p \in Above(n)
      BY <1>1, <2>3, AboveFact DEF Child
    <3>2. 1 \in Stage(p) /\ ~ready_pipe'[p][1]
      BY <2>1, <3>1, LinkRegisters, Topology DEF Stage
    <3>3. Up[p] = Up[Parent[p]] + Latency[p] /\ Up[Parent[p]] \in Nat
          /\ Latency[p] \in Nat /\ Latency[p] >= 1
      BY <3>1, UpFact, Topology
    <3>4. Dist(c, k) = Up[p] + 1
      BY <1>1, <1>4 DEF Dist
    <3>5. Dist(p, 1) = Up[p]
      BY <3>3 DEF Dist
    <3>6. Dist(p, 1) = Dist(c, k) - 1 /\ Dist(c, k) # 1
      BY <3>3, <3>4, <3>5
    <3>7. QED
      BY <1>2, <3>1, <3>2, <3>6
  <2>4. QED
    BY <2>2, <2>3
<1>5. QED
  BY <1>3, <1>4

\* A not-ready cycle of n enters its path.
LEMMA GapEnters ==
  ASSUME FabricEdge, NEW n \in Child, ~local_ready[n]
  PROVE  /\ n \in Above(n) /\ 1 \in Stage(n) /\ Dist(n, 1) = Up[n]
         /\ ~ready_pipe'[n][1]
<1>1. n \in Node /\ n \in Above(n) /\ 1 \in Stage(n)
  BY AboveFact, Topology DEF Stage
<1>2. Dist(n, 1) = Up[n]
  BY UpFact, Topology DEF Dist
<1>3. ~ready_pipe'[n][1]
  BY <1>1, LinkRegisters DEF subtree_ready
<1>4. QED
  BY <1>1, <1>2, <1>3

LEMMA FabricWindows ==
  ASSUME IInv, HTypeOK, Windows, HFabricEdge
  PROVE  Windows'
<1> USE DEF HFabricEdge
<1> SUFFICES ASSUME NEW n \in Node \ qualified'
             PROVE  /\ \A d \in 0..Up[n] :
                         GapIn(n, d, d + ReadyStable)' \/ ready_run'[n] + d >= Up[n]
                    /\ \/ GapIn(n, 0, ReadyStable - ready_stable_count)'
                       \/ ready_run'[n] >= Up[n] + ready_stable_count'
  BY DEF Windows
<1>1. ~reset /\ n \in Node \ qualified
  BY DEF FabricEdge, HNext
<1>2. /\ Up[n] \in Nat /\ ReadyStable \in Nat /\ ReadyStable >= 1
      /\ ready_run[n] \in Nat /\ ready_run'[n] \in Nat
      /\ ready_stable_count \in 0..ReadyStable
  BY UpFact, Topology, HStepType DEF HTypeOK, IInv, TypeOK
<1>3. ready_run[n] < ReadyStable
  BY <1>1, <1>2 DEF HTypeOK
<1>4. local_ready[n] => ready_run'[n] = ready_run[n] + 1
  BY <1>1, <1>3 DEF HNext, RunNow
<1>5. n # Root => n \in Child
  BY DEF Child
<1>6. ASSUME NEW d \in 0..Up[n]
      PROVE  GapIn(n, d, d + ReadyStable)' \/ ready_run'[n] + d >= Up[n]
  <2>1. CASE d = Up[n]
    BY <1>2, <2>1
  <2>2. CASE d # Up[n]
    <3>1. d + 1 \in 0..Up[n] /\ d \in Nat /\ d < Up[n]
      BY <1>2, <2>2
    <3>2. n \in Child
      BY <1>5, <3>1, UpFact
    <3>3. CASE GapIn(n, d + 1, (d + 1) + ReadyStable)
      <4>0. PICK c \in Above(n) : \E k \in Stage(c) :
              /\ ~ready_pipe[c][k]
              /\ d + 1 < Dist(c, k) /\ Dist(c, k) <= (d + 1) + ReadyStable
        BY <3>3 DEF GapIn
      <4>1. PICK k \in Stage(c) :
              /\ ~ready_pipe[c][k]
              /\ d + 1 < Dist(c, k) /\ Dist(c, k) <= (d + 1) + ReadyStable
        BY <4>0
      <4>2. Dist(c, k) \in Nat /\ Dist(c, k) > 1
        BY <3>1, <4>1, GapMoves
      <4>3. \E e \in Above(n) : \E j \in Stage(e) :
              ~ready_pipe'[e][j] /\ Dist(e, j) = Dist(c, k) - 1
        BY <4>1, <4>2, GapMoves
      <4>4. d < Dist(c, k) - 1 /\ Dist(c, k) - 1 <= d + ReadyStable
        BY <1>2, <3>1, <4>1, <4>2
      <4>5. QED
        BY <4>3, <4>4 DEF GapIn
    <3>4. CASE ready_run[n] + (d + 1) >= Up[n]
      <4>1. CASE local_ready[n]
        BY <1>2, <1>4, <3>1, <3>4, <4>1
      <4>2. CASE ~local_ready[n]
        <5>1. d < Up[n] /\ Up[n] <= d + ReadyStable
          BY <1>2, <1>3, <3>1, <3>4
        <5>2. QED
          BY <3>2, <4>2, <5>1, GapEnters DEF GapIn
      <4>3. QED
        BY <4>1, <4>2
    <3>5. QED
      BY <1>1, <3>1, <3>3, <3>4 DEF Windows
  <2>3. QED
    BY <2>1, <2>2
<1>7. \/ GapIn(n, 0, ReadyStable - ready_stable_count)'
      \/ ready_run'[n] >= Up[n] + ready_stable_count'
  <2>1. CASE ~subtree_ready(Root)
    <3>1. ready_stable_count' = 0
      BY <2>1 DEF FabricEdge, NodeEdge, NextReadyStableCount
    <3>2. 0 \in 0..Up[n] /\ 0 + ReadyStable = ReadyStable - 0
          /\ ready_run'[n] + 0 = ready_run'[n] /\ Up[n] + 0 = Up[n]
      BY <1>2
    <3>3. GapIn(n, 0, 0 + ReadyStable)' \/ ready_run'[n] + 0 >= Up[n]
      BY <1>6, <3>2
    <3>4. QED
      BY <3>1, <3>2, <3>3 DEF GapIn
  <2>2. CASE subtree_ready(Root)
    <3>1. ready_stable_count' =
            IF ready_stable_count < ReadyStable THEN ready_stable_count + 1
            ELSE ready_stable_count
      BY <2>2 DEF FabricEdge, NodeEdge, NextReadyStableCount
    <3>2. CASE GapIn(n, 0, ReadyStable - ready_stable_count)
      <4>0. PICK c \in Above(n) : \E k \in Stage(c) :
              ~ready_pipe[c][k] /\ Dist(c, k) <= ReadyStable - ready_stable_count
        BY <3>2 DEF GapIn
      <4>1. PICK k \in Stage(c) :
              ~ready_pipe[c][k] /\ Dist(c, k) <= ReadyStable - ready_stable_count
        BY <4>0
      <4>2. Dist(c, k) \in Nat /\ Dist(c, k) > 1
        BY <2>2, <4>1, GapMoves
      <4>3. \E e \in Above(n) : \E j \in Stage(e) :
              ~ready_pipe'[e][j] /\ Dist(e, j) = Dist(c, k) - 1
        BY <4>1, <4>2, GapMoves
      <4>4. 0 < Dist(c, k) - 1 /\ Dist(c, k) - 1 <= ReadyStable - ready_stable_count'
        BY <1>2, <3>1, <4>1, <4>2
      <4>5. QED
        BY <4>3, <4>4 DEF GapIn
    <3>3. CASE ready_run[n] >= Up[n] + ready_stable_count
      <4>1. ready_stable_count < ReadyStable /\ ready_stable_count' = ready_stable_count + 1
        BY <1>2, <1>3, <3>1, <3>3
      <4>2. CASE local_ready[n]
        BY <1>2, <1>4, <3>3, <4>1, <4>2
      <4>3. CASE ~local_ready[n]
        <5>1. n \in Child
          BY <1>5, <2>2, <4>3 DEF subtree_ready
        <5>2. 0 < Up[n]
          BY <5>1, UpFact, Topology
        <5>3. Up[n] <= ReadyStable - ready_stable_count'
          BY <1>2, <1>3, <3>3, <4>1
        <5>4. QED
          BY <4>3, <5>1, <5>2, <5>3, GapEnters DEF GapIn
      <4>4. QED
        BY <4>2, <4>3
    <3>4. QED
      BY <1>1, <3>2, <3>3 DEF Windows
  <2>3. QED
    BY <2>1, <2>2
<1>8. QED
  BY <1>6, <1>7

JustReset ==
  /\ ready_pipe = AllStages(FALSE)
  /\ ready_stable_count = 0
  /\ ready_run = [n \in Node |-> 0]

\* After a reset every path is full of gaps.
LEMMA ResetWindows == JustReset => Windows
<1> SUFFICES ASSUME JustReset PROVE Windows
  OBVIOUS
<1> USE DEF JustReset
<1> SUFFICES ASSUME NEW n \in Node, NEW d \in 0..Up[n]
             PROVE  GapIn(n, d, d + ReadyStable) \/ ready_run[n] + d >= Up[n]
  <2>1. ReadyStable \in Nat /\ \A n \in Node : Up[n] \in Nat /\ ready_run[n] = 0
    BY Topology, UpFact
  <2>2. \A n \in Node : 0 \in 0..Up[n] /\ 0 + ReadyStable = ReadyStable - 0
                        /\ ready_run[n] + 0 = ready_run[n] /\ Up[n] + 0 = Up[n]
    BY <2>1
  <2>3. QED
    BY <2>2 DEF Windows
<1>1. Up[n] \in Nat /\ ReadyStable \in Nat /\ ReadyStable >= 1 /\ ready_run[n] = 0
  BY UpFact, Topology
<1>2. CASE d = Up[n]
  BY <1>1, <1>2
<1>3. CASE d # Up[n]
  <2>1. d + 1 \in 1..Up[n]
    BY <1>1, <1>3
  <2>2. PICK c \in Above(n) : \E k \in Stage(c) : Dist(c, k) = d + 1
    BY <2>1, PathCovered
  <2>3. PICK k \in Stage(c) : Dist(c, k) = d + 1
    BY <2>2
  <2>4. ~ready_pipe[c][k]
    BY AboveFact DEF AllStages
  <2>5. d < d + 1 /\ d + 1 <= d + ReadyStable
    BY <1>1
  <2>6. QED
    BY <2>3, <2>4, <2>5 DEF GapIn
<1>4. QED
  BY <1>2, <1>3

\* When the root decides, no path has a gap left that a window could have.
LEMMA DecisionIsQualified ==
  ASSUME IInv, HTypeOK, Windows, HFabricEdge, RootArms
  PROVE  qualified' = Node
<1> USE DEF HFabricEdge
<1> SUFFICES ASSUME NEW n \in Node, n \notin qualified' PROVE FALSE
  BY HStepType DEF HTypeOK
<1>1. ~reset /\ n \in Node \ qualified
  BY DEF FabricEdge, HNext
<1>2. /\ Up[n] \in Nat /\ ReadyStable \in Nat /\ ReadyStable >= 1
      /\ ready_run[n] \in Nat /\ ready_run[n] < ReadyStable
      /\ ready_stable_count \in 0..ReadyStable
      /\ ready_stable_count >= ReadyStable - 1
  <2>1. ready_run[n] \in 0..ReadyStable /\ ready_run[n] # ReadyStable
    BY <1>1 DEF HTypeOK
  <2>2. QED
    BY <2>1, UpFact, Topology DEF HTypeOK, IInv, TypeOK, RootArms
<1>3. subtree_ready(Root)
  BY DEF RootArms
<1>4. CASE GapIn(n, 0, ReadyStable - ready_stable_count)
  <2>1. PICK c \in Above(n) : \E k \in Stage(c) :
          ~ready_pipe[c][k] /\ Dist(c, k) <= ReadyStable - ready_stable_count
    BY <1>4 DEF GapIn
  <2>2. PICK k \in Stage(c) :
          ~ready_pipe[c][k] /\ Dist(c, k) <= ReadyStable - ready_stable_count
    BY <2>1
  <2>3. Dist(c, k) \in Nat /\ Dist(c, k) > 1
    BY <1>3, <2>2, GapMoves
  <2>4. QED
    BY <1>2, <2>2, <2>3
<1>5. CASE ready_run[n] >= Up[n] + ready_stable_count
  <2>1. Up[n] = 0 /\ ready_run[n] = ReadyStable - 1
    BY <1>2, <1>5
  <2>2. n = Root
    <3>1. n \in Child => Up[n] >= 1
      BY UpFact, Topology
    <3>2. QED
      BY <2>1, <3>1 DEF Child
  <2>3. local_ready[n]
    BY <1>3, <2>2 DEF subtree_ready
  <2>4. RunNow[n] = ReadyStable
    BY <1>1, <1>2, <2>1, <2>3 DEF RunNow
  <2>5. QED
    BY <1>1, <2>4 DEF HNext
<1>6. QED
  BY <1>1, <1>4, <1>5 DEF Windows

LEMMA StableStep ==
  IInv /\ HTypeOK /\ Windows /\ ArmedQualified /\ [HNext]_hvars
    => Windows' /\ ArmedQualified'
<1> SUFFICES ASSUME IInv, HTypeOK, Windows, ArmedQualified, [HNext]_hvars
             PROVE  Windows' /\ ArmedQualified'
  OBVIOUS
<1>1. CASE HFabricEdge
  <2>1. ASSUME start_armed[Root] PROVE qualified' = Node
    <3>1. qualified = Node
      BY <2>1 DEF ArmedQualified
    <3>2. qualified' = Node
      BY <1>1, <3>1 DEF HFabricEdge, FabricEdge, HNext
    <3>3. QED
      BY <3>2
  <2>2. start_armed'[Root] => start_armed[Root] \/ RootArms
    BY <1>1, NodeRegisters, Topology DEF HFabricEdge, Arms
  <2>3. ArmedQualified'
    BY <1>1, <2>1, <2>2, DecisionIsQualified DEF ArmedQualified
  <2>4. QED
    BY <1>1, <2>3, FabricWindows
<1>2. CASE HResetEdge
  <2>1. JustReset' /\ ~start_armed'[Root]
    BY <1>2, Topology
       DEF HResetEdge, ResetEdge, HNext, RunNow, AllNodes, AllStages, JustReset
  <2>2. Windows'
    BY <2>1, ResetWindows, PTL
  <2>3. QED
    BY <2>1, <2>2 DEF ArmedQualified
<1>3. CASE UNCHANGED hvars
  BY <1>3 DEF hvars, vars, registers, Windows, GapIn, ArmedQualified
<1>4. QED
  BY <1>1, <1>2, <1>3 DEF HNext, Next, HFabricEdge, HResetEdge

\* In every tree, whatever its latencies, no FPGA is released unless each one
\* was ready READY_STABLE_CYCLES cycles in a row since the reset.
THEOREM ReleaseIsStable == HSpec => []StableBeforeRelease
<1> DEFINE I == IInv /\ HTypeOK /\ Windows /\ ArmedQualified
<1>1. HInit => I
  <2> SUFFICES ASSUME HInit PROVE I
    OBVIOUS
  <2>1. Windows
    BY ResetWindows DEF HInit, Init, JustReset
  <2>2. ArmedQualified
    BY Topology DEF HInit, Init, AllNodes, ArmedQualified
  <2>3. QED
    BY <2>1, <2>2, InitIInv, HInitType DEF HInit
<1>2. I /\ [HNext]_hvars => I'
  BY HStepIsStep, StepIInv, HStepType, StableStep
<1>3. I => StableBeforeRelease
  BY Topology DEF IInv, SameCycleRelease, StartOnItsWay, ArmedQualified, StableBeforeRelease
<1>4. QED
  BY <1>1, <1>2, <1>3, PTL DEF HSpec

-----------------------------------------------------------------------------
(* The tree wired to the runtime controllers: its simultaneous release,    *)
(* carried to the slot counters.                                           *)

\* The registers of the controllers.
ControllerTypes ==
  /\ slot \in [Node -> Nat]
  /\ started \in [Node -> BOOLEAN]
  /\ event_index \in [Node -> Nat]

\* The inductive invariant of tree and controllers together.
SyncedIInv ==
  /\ IInv
  /\ ControllerTypes
  /\ LockstepUntilFault

\* A step of the whole is a step of the tree.
LEMMA TreeStep == [SyncedNext]_allvars => [Next]_vars
  BY DEF SyncedNext, allvars, Next

\* Without a fault the links_ready of any two FPGAs agree.
LEMMA ReadyAgrees ==
  ASSUME IInv, NoFault, NEW m \in Node, NEW n \in Node
  PROVE  links_ready(m) <=> links_ready(n)
  BY DEF IInv, SameCycleRelease, NoFault, links_ready, global_ready

\* The registers of one controller after an edge.
LEMMA ControllerRegisters ==
  ASSUME ControllerEdge, NEW n \in Node
  PROVE  /\ slot'[n] = NextSlot(n)
         /\ started'[n] <=> (started[n] \/ links_ready(n))
         /\ event_index'[n] = IF FrameEnds(n)
                              THEN (event_index[n] + 1) % CalendarTicks
                              ELSE event_index[n]
  BY DEF ControllerEdge

\* An edge keeps their types.
LEMMA ControllerEdgeTypes ==
  ControllerTypes /\ ControllerEdge => ControllerTypes'
<1> SUFFICES ASSUME ControllerTypes, ControllerEdge PROVE ControllerTypes'
  OBVIOUS
<1>1. slot' \in [Node -> Nat]
  BY FrameAssumption DEF ControllerTypes, ControllerEdge, NextSlot
<1>2. started' \in [Node -> BOOLEAN]
  BY DEF ControllerTypes, ControllerEdge, links_ready, global_ready
<1>3. event_index' \in [Node -> Nat]
  <2>1. \A n \in Node : (event_index[n] + 1) % CalendarTicks \in Nat
    BY FrameAssumption DEF ControllerTypes
  <2>2. QED
    BY <2>1 DEF ControllerTypes, ControllerEdge
<1>4. QED
  BY <1>1, <1>2, <1>3 DEF ControllerTypes

\* It holds after configuration.
LEMMA SyncedInitIInv == SyncedInit => SyncedIInv
<1> SUFFICES ASSUME SyncedInit PROVE SyncedIInv
  OBVIOUS
<1>1. IInv
  BY InitIInv DEF SyncedInit
<1>2. ControllerTypes /\ LockstepUntilFault
  BY DEF SyncedInit, AllNodes, ControllerTypes, LockstepUntilFault
<1>3. QED
  BY <1>1, <1>2 DEF SyncedIInv

\* Two controllers in the same state that see the same links_ready stay so.
LEMMA EdgeKeepsLockstep ==
  SyncedIInv /\ FabricEdge /\ ControllerEdge => LockstepUntilFault'
<1> SUFFICES ASSUME SyncedIInv, FabricEdge, ControllerEdge, NoFault',
                    NEW m \in Node, NEW n \in Node
             PROVE  /\ started'[m] <=> started'[n]
                    /\ slot'[m] = slot'[n]
                    /\ event_index'[m] = event_index'[n]
  BY DEF LockstepUntilFault
<1>1. NoFault
  BY NodeRegisters DEF NoFault
<1>2. links_ready(m) <=> links_ready(n)
  BY <1>1, ReadyAgrees DEF SyncedIInv
<1>3. /\ started[m] <=> started[n]
      /\ slot[m] = slot[n]
      /\ event_index[m] = event_index[n]
  BY <1>1 DEF SyncedIInv, LockstepUntilFault
<1>4. FrameEnds(m) <=> FrameEnds(n)
  BY <1>2, <1>3 DEF FrameEnds
<1>5. NextSlot(m) = NextSlot(n)
  BY <1>3, <1>4 DEF NextSlot
<1>6. QED
  BY <1>2, <1>3, <1>4, <1>5, ControllerRegisters

\* Every step keeps it.
LEMMA SyncedStepIInv == SyncedIInv /\ [SyncedNext]_allvars => SyncedIInv'
<1> SUFFICES ASSUME SyncedIInv, [SyncedNext]_allvars PROVE SyncedIInv'
  OBVIOUS
<1>1. IInv'
  BY TreeStep, StepIInv DEF SyncedIInv
<1>2. CASE ResetEdge /\ ControllerReset
  <2>1. ControllerTypes' /\ LockstepUntilFault'
    BY <1>2 DEF ControllerReset, AllNodes, ControllerTypes, LockstepUntilFault
  <2>2. QED
    BY <1>1, <2>1 DEF SyncedIInv
<1>3. CASE FabricEdge /\ ControllerEdge
  BY <1>1, <1>3, ControllerEdgeTypes, EdgeKeepsLockstep DEF SyncedIInv
<1>4. CASE UNCHANGED allvars
  <2>1. ControllerTypes' /\ LockstepUntilFault'
    BY <1>4 DEF SyncedIInv, allvars, controllers, vars, registers,
                ControllerTypes, LockstepUntilFault, NoFault
  <2>2. QED
    BY <1>1, <2>1 DEF SyncedIInv
<1>5. QED
  BY <1>2, <1>3, <1>4 DEF SyncedNext

\* On every platform the runtime controllers stay in the same slot of the
\* same event until some FPGA faults.
THEOREM Lockstep == SyncedSpec => []LockstepUntilFault
<1>1. SyncedIInv => LockstepUntilFault
  BY DEF SyncedIInv
<1>2. QED
  BY SyncedInitIInv, SyncedStepIInv, <1>1, PTL DEF SyncedSpec
=============================================================================
