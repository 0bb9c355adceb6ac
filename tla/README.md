# EmuFlow: TLA+ specifications

EmuFlow cuts a digital design over several FPGAs and emulates it: a compiler
partitions the netlist, routes the cut signals over the board's links, schedules
them into the slots of a time-multiplexed frame and generates the hardware that
runs the frame. Around the compiler there is an experiment store and a farm that
runs validation tasks on remote machines. This directory specifies the parts in
which several actors act at once, the generated hardware runtime, the farm and the
experiment cache, and one of the compiler's algorithms, the native slot optimizer.

Paths below are relative to the repository (`src/` here).

## Inventory

| Component | State | Operations | Hard behaviour | Correct when |
|---|---|---|---|---|
| Start barrier tree (`rtl/runtime_sync/emuflow_runtime_sync_tree_node.sv`, edges in `src/emuflow/runtime_sync.py`) | per FPGA: epoch, start_armed, target_epoch, released, sticky_fault; per edge: pipelines | one clock edge, reset | readiness and the start word are in flight while inputs change; the epoch wraps | all FPGAs are released in one cycle, only when all were ready; faults reach the root |
| Topology builder (`runtime_sync.py`) | BFS queue and maps | expand, refuse, finish | parallel links, zero latencies, disconnected boards | the margin covers every path of the tree |
| Runtime controller and clock calendar (`src/emuflow/runtime.py`) | slot, started, event_index | clock edge, reset | links stall mid-frame | clocks keep their relative rates, no edge is lost |
| TDM transport and link (`src/emuflow/netlist.py`, `rtl/transport/emuflow_tdm_link.sv`) | shadow registers, lane pipelines | TX case, RX case | relays read a shadow on the edge that updates it | registers see this frame's values |
| Schedule legality (`src/emuflow/tdm.py`) | a schedule | validate | off-by-one in arrival and readiness | every legal schedule is right for the transport |
| Validation farm (`src/emuflow/validation_farm.py`) | state.json, claim, locks, attempt directories | prepare, launch, submit, worker, heartbeat, reconcile | crashes, SSH failures, stale read-modify-write, leases, commands that outlive their worker | no attempt directory is shared, one worker per task, slots respected |
| Retirement (`src/emuflow/experiment_store.py`) | launch locks, marker, quarantine | plan, apply, resume | races launch | no submission into a retired farm |
| Slot optimizer (`src/native/tdm_slot_optimizer.cpp`, input from `src/emuflow/tdm_slot.py`) | priorities, the schedule being built, the incumbent | place a hop, end a round, judge a candidate, accept | the list schedule of a reordered priority moves every later round; a chain of keys decides what is better | every schedule it can emit passes the validator and is no worse than the one before |
| Control endpoint and PCS edge (`rtl/pcs/emuflow_runtime_sync_control_endpoint.sv`, `..._pcs_edge.sv`, `emuflow_record_mux.sv`) | sequence numbers, pending word, last READY sent, sticky errors | send on change, receive, arbitrate | records dropped and lock lost at either end, jitter, back-pressure, words that outlive a reset | both ends start together or the root learns that they did not |
| Record path (`rtl/pcs`: framer, deframer, dejitter buffer, CDC FIFO) | FIFO, dejitter buffer, sticky errors | push, drop, release | bad CRC or frame, overflow, underflow | fixed latency; nothing is lost without an error |
| Experiment cache (`src/emuflow/experiment_dag.py`, `experiment_store.py`) | objects with manifest, output and certificates; per-key locks; plans | run a node, import, promote, revalidate, plan, collect | import and collection take no lock; crashes between steps; aliases | what is accepted is what was sealed and validated; roots survive a collection |

The controller's `links_ready` is the tree node's `global_ready`
(`serial_wrapper.py:766`); the tree's parameters are the builder's result; the
transport is clocked by the controller's slot; the farm and the retirement share
the farm's launch lock. The remaining parts (partitioners, routers, ratio
optimisers, synthesis, timing and physical back ends, importers, reports, command
line) are sequential searches or conversions without protocol state and are not
modelled; `PROJECT.json` lists each with its reason.

## Modules

* `StartBarrier` is the abstract barrier: one simultaneous start after everybody
  was seen ready, faults only after it and kept, a reset that clears all.
* `RuntimeSyncTree` is the tree. A variable per register and per edge pipeline; a
  clock edge is one action because all FPGAs share a phase-aligned clock
  (`FabricEdge`, `ResetEdge`). `reset` and `local_ready` are inputs that take any
  value each cycle. `ready_seen` is history. `ready_stable_count` is kept for the
  root only, the one node that reads it. `MCSyncTree` gives it a chain of three
  FPGAs and adds history that dates readiness and the first fault.
* `PcsEdge` is one edge of that tree as it is built on a board, where
  `RuntimeSyncTree` has a shift register: a root and a child, each with its node,
  its control endpoint and its mux, and between them a wire on which a record takes
  `MinDelay` to `MaxDelay` cycles. Inputs are the reset, the other readiness terms
  (`board_ready`), PCS lock at each end, the sticky errors of the adapter and the
  dejitter buffer (`link_error`) and room in the transmit FIFO. Any record may be
  dropped on arrival, with the link up or down, but not silently: the deframer drops on
  a bad CRC, a bad frame or a full buffer, and block lock is lost by bad blocks, and each
  sets a sticky error that keeps the end from being ready until the board's reset
  (`Dropped`, `edge_error`). Lock therefore falls only where an error is, and is back
  `MinRelock` cycles later (`rx_status` needs sixteen periods of 125 us). The error and
  the record cross into the fabric clock side by side, two synchroniser stages against
  a FIFO, so the error is there when the record would have been. `MaxFalls` bounds the
  failures between two resets. Only a `DataEnd` sends data; an end that is active for the
  control plane only does not, and its transmit FIFO has room. Left out: a KIND_FAULT
  word, which nothing in the repository sends; the resets of the PHY's side while the
  fabric runs (`serial_wrapper.py` ties them to the board's reset and the PHY); corrupted
  records whose CRC fits.
* `SyncTopologyFacts` is the contract between builder and tree; `SyncTopology` is
  the builder, one action per turn of its loop. FPGA and link names are numbers
  (the code sorts names); the None parent of the root and the link chosen per edge
  are left out.
* `SynchronousDut` is the uncut design: registers in clock domains, each clock
  with its period. `FrameRuntime` is the cut design: controllers, transports,
  lanes and the event calendar. The schedule is any of a given set that satisfies
  `ScheduleOK`. A lane of latency L holds L cycles and the shadow register takes the
  value at the edge of the arrival slot, the convention
  `tx-sample-before-rx-shadow-update-v1` of
  `docs/STATIC_EXACT_COMBINATIONAL_CUT.md`; the L+1 registers of
  `emuflow_tdm_link` include that last one, because the schedule testbench samples
  the link after the edge. The design's own logic is a parameter (`DutNext`).
  `MCFrameRuntime` is its instance.
* `SyncedRuntime` composes the tree with the controllers; `MCSyncedRuntime` is its
  instance.
* `ValidationFarm` is the farm: launchers, submit threads, workers with their
  heartbeat thread, reconcilers and the retirement, over shared files. Each file
  read, file write, lock and SSH call that another process can come between is a
  step of its own. A lease is valid or expired, and may expire at any time. A worker's
  command is a process of its own: when the worker is killed the kernel drops the slot
  lock, the command runs on and ends some time later (`OrphanEnds`). The two
  storage loops of a launch are one step each: the only writer that can interfere
  with them is a stray worker, and what it can do in between is reached by it
  writing before or after.
* `SlotOptimizer` is the native optimizer: `build_schedule` hop by hop, `better`, and
  the search of `optimize` with its swaps and reorderings in the program's order.
  `ReadOK` is what `read_model` accepts, `WrittenOK` what `tdm_slot.py` writes, and
  `Legal` is the declarative reading of `validate_tdm_schedule` the result is
  compared with. Times are integers and the tolerance of 1e-12 in `better` is zero; a
  (domain, lane) pair is one lane. `MCSlotOptimizer` builds the inputs from every
  legal schedule of five shapes, with relays that are sinks and relays that are not.
* `ExperimentCache` is the cache: processes that execute or import nodes, plans, the
  collector and the owner of a result tree outside the cache, over a file system of
  objects. A step is what happens between two points at which another process can
  come in; a process or the collector may die at each. Of a payload the model keeps
  which validators accept it and whether it is whole. `MCExperimentCache` adds
  symmetry.
* The theorems about a module M are in `M_proofs`: `RuntimeSyncTree_proofs`
  (with the history of `MCSyncTree`, and with `SyncedRuntime`), `SyncTopology_proofs`,
  `FrameRuntime_proofs`, `PcsEdge_proofs`, `ValidationFarm_proofs`,
  `SlotOptimizer_proofs` and `ExperimentCache_proofs`.
  `NatLemmas` has what they share: least and greatest elements, remainders, ranks in
  a finite total order, and the iterates of a function.

Definitions called a faulty variant are not used by any specification; they are
plausible bugs that show that each property can fail.

## Runs

| Run | Instance | Shows |
|---|---|---|
| `sync_tree` | chain of 3 nodes, latencies 1 and 2, margin 7, READY_STABLE 2, 8 epochs | `SameCycleRelease`; the inductive parts `StartOnItsWay`, `FaultInFlight`, `ReadyWasSeen`; `StableBeforeRelease`, `FaultBounded`; the refinement `BarrierSpec` |
| `sync_topology` | all boards of 4 FPGAs, 3 links, latencies 0 and 2, every root | `BuildsTopology`, `DepthIsHopDistance`, `Decides` |
| `frame_runtime` | 3 FPGAs in a line, 3 signals, 5 hops, 7 slots, clocks of 20 and 30 ns | `ShadowsFresh`, the refinement `DutSpec`, `EveryClockTicks` |
| `synced_runtime` | root and one child two cycles away, 3 slots, 2 events | `LockstepUntilFault`, `StartsWhenReady`, `EmulationRuns` |
| `pcs_edge` | delay 1 or 2 cycles, margin 6, child sends data, one failure between resets | `ReleaseTogether`, `ChildFollows`, `StaleReadyBounded`, `NoOverlap`, `RunsInStep`, `FaultOnItsWay`, `RootNotAlone` |
| `slot_optimizer` | 4 hops on 2 lanes, frames of 5 and 6 slots, latencies 0 and 1, two sets of paths, 2 iterations | `EmittedLegal`, `WaitJustified`, `NeverLaterThanGiven`, `NeverWorse` |
| `farm` | 1 task, 1 launcher, 2 reconcilers, 2 workers, 1 slot, 1 SSH failure | `AttemptDirOwned`, `OneWorkerPerTask`, `SlotsRespected`, `NoSubmissionAfterRetirement`, `WaitEnds` |
| `farm_probe` | 1 task, 2 workers, 1 SSH failure | violation: a failed probe makes a live worker's task retryable |
| `farm_retry` | same | violation: a failed submission forgets the attempt number |
| `farm_orphan` | same, no SSH failure | violation: the command of a killed worker and its retry run on one slot |
| `experiment_cache` | 2 keys, 1 outside tree, 2 validators, 2 processes, 2 operations, 1 collection | `MetadataSuffices`, `CertificateMeansValidated`, `RootsKept` |
| `cache_alias` | 1 process, 1 operation, 1 validator | violation: a collection removes the payload of a rooted alias |

Bounds. The hardware needs EPOCH_BITS >= 4; the eight epochs of `sync_tree` are
fewer, the least above the margin, so the counter wraps in every run between arming
and target, and the theorems cover every modulus. The chain is the shortest tree in
which a word crosses two edges; trees with siblings are covered by the theorems.
Four FPGAs and three links give every tree shape, a triangle and parallel links with
an unreachable FPGA. Seven slots leave the relayed hops several legal placements,
all of which are initial states. In `pcs_edge` two delays give jitter. A failure is a
fall of `board_ready` or a new error; the loss of lock, the drops and the relocks that
follow an error are not counted, so one failure is any trouble of one end; trouble of both
ends is covered by the theorems, but for `RootNotAlone`. In `slot_optimizer` four hops let four compete for a lane, or
three with a relay, and in the shorter frame some reorderings are infeasible. Two workers of one
task contend for the slot and meet a stale reconciler or a late heartbeat. The launcher
may crash and launch again; a second one would meet the same lock and claim. More
launchers, tasks and workers are covered by the theorems, but for `WaitEnds`. In `experiment_cache` the two operations are concurrent or
one after the other; more are covered by the theorems.
The type invariants of `PcsEdge` and `SyncTopology` are left to the proofs.
`MaxWorkers`, `MaxSshFailures`, `MaxFalls`, `MaxOps`, `MaxGc` are bounds of the
models, not of the code. Deadlock is not checked where the system may stop: the
builder and the optimizer end, the farm's workers are used up, the cache's
operations are used up.

Fairness. The hardware specifications assume that the clock does not stop. The
farm assumes that a worker that is not killed goes on and that its command ends;
nothing is assumed of launchers, reconcilers, heartbeats or SSH, and nothing of the
cache's processes. Liveness of the tree and of the composition is stated under the
condition that readiness settles, because a fault is meant to stop the runtime until
the board resets it. `EveryClockTicks` supposes only that the links are
ready again and again: the controller waits in the last slot and loses nothing by a
stall. `RootNotAlone` supposes that the links settle and that the
child's transmit FIFO drains again and again, which the PHY's clock provides.

Assumptions of `PcsEdge`. `MarginAssumption`: the latency that the platform gives
for a serial edge, from which the start margin is computed, counts the endpoints'
four cycles and the worst delay of the link. With a margin shorter by two the run
fails (`StartEpochShort`). `ResetAssumption`: the board holds the reset longer than
a record is under way, because the FIFOs' PHY side is not reset with the fabric.
`RelockAssumption`: a lost lock takes longer to come back than a record is under way.

Provisos of the cache's invariants. Each is needed: without it TLC finds a
behaviour. `contested`: import takes no lock and replaces whatever manifest is
there, so certificates written for an earlier payload may stay beside it; it also
covers two processes at work on one key. `disturbed`: a tree is edited or collected
while a process is at work on it (validating, sealing or certifying it), or collected
while another key's checkpoint names it. An edit by the owner at any other time is no
exception: the digest catches it. What these provisos leave out is not caught by any
property: an import over a published object, an import that seals a tree under the
collector, and a directory left with a certificate only; `hazards` says so. `RootsKept`
protects the plans as the collector read them when it began to apply, not plans made
while it removes. The minimum age the collector may ask
of its candidates is not assumed. Computing a digest and changing the modes of a tree
are one step.

## What the runs disagree with

* `validation_farm.py:1114` promises that only confirmed-dead attempts become
  retryable; line 1162 takes any nonzero exit of ssh as confirmation (`farm_probe`).
* `validation_farm.py:794` writes `submit_failed` without the attempt number; the
  next worker starts again at attempt 1, whose directory exists, and dies, and the
  task stays `submitting` (`farm_retry`).
* `validation_farm.py:842` says that a task runs "while holding a per-node slot lock".
  The command is a child of the worker and does not inherit the lock; when the worker is
  killed it runs on, the probe finds the worker gone, and the retry runs a second command
  on the slot (`farm_orphan`). `SlotsRespected` is what holds: the workers between lock
  and unlock are no more than the slots, and the commands beside them are orphans.
* `experiment_store.py:655` says of an imported alias and its payload "Both names are
  live roots". The payload's place is read from the plan file; a plan made before the
  import names the alias's own object, and the payload is collected (`cache_alias`).
  `RootsKept` is what holds: the place the plan recorded is not collected.

`runtime.py:334,342` call `links_ready` a global consensus with the same value on
every FPGA. It is one until a fault; after it the faulted FPGA and, one edge at a
time, its ancestors stop, while other branches go on until the board's reset, which
the node's comment asks for. What the tree itself guarantees is `LockstepUntilFault`.

## Proofs

A run checks one small instance; a theorem holds for every value of the constants
that satisfies the module's ASSUMEs. Each proof has the same shape: an inductive
invariant `IInv`, one lemma per action and part of the invariant, and a last step that
combines them.

| Theorem | Property | For every |
|---|---|---|
| `RuntimeSyncTree_proofs`: `TypeCorrect`, `ReleaseTogether`, `FaultNotLost`, `StartArrivesInTime`, `StartNeedsReady` | `TypeOK`, `SameCycleRelease`, `FaultInFlight`, `StartOnItsWay`, `ReadyWasSeen` | tree, latencies, margin, counter width |
| `RuntimeSyncTree_proofs`: `ImplementsBarrier` | refinement of `StartBarrier` | the same |
| `RuntimeSyncTree_proofs`: `FaultReachesRoot`, `ReleaseIsStable` | `FaultBounded`, `StableBeforeRelease` | the same |
| `RuntimeSyncTree_proofs`: `Lockstep` | `LockstepUntilFault` | tree and frame |
| `SyncTopology_proofs`: `TypeCorrect`, `TreeIsSound`, `ShallowestTree` | `TypeOK`, `BuildsTopology`, `DepthIsHopDistance` | board: FPGAs, links, latencies, root |
| `SyncTopology_proofs`: `DecisionIsRight` | the safety half of `Decides` | the same |
| `FrameRuntime_proofs`: `TypeCorrect`, `ShadowsAreFresh` | `TypeOK`, `ShadowsFresh` | platform, cut, legal schedule, set of clocks |
| `FrameRuntime_proofs`: `ImplementsDut` | refinement of `SynchronousDut` | the same |
| `PcsEdge_proofs`: `TypeCorrect`, `ChildFollowsRoot`, `ReleasedTogether`, `ControlBeforeData`, `StaleReadyCorrected`, `FaultIsReported`, `StartedTogether` | `TypeOK`, `ChildFollows`, `ReleaseTogether`, `NoOverlap`, `StaleReadyBounded`, `FaultOnItsWay`, `RunsInStep` | delay range, margin, moduli, number of failures and drops, ends that send data |
| `ValidationFarm_proofs`: `TypeCorrect`, `RetirementExcludesLaunch`, `SlotsBoundCommands`, `AttemptsAreSeparate`, `TasksAreExclusive` | `TypeOK`, `NoSubmissionAfterRetirement`, `SlotsRespected`, `AttemptDirOwned`, `OneWorkerPerTask` | number of tasks, launchers, reconcilers, workers, slots |
| `SlotOptimizer_proofs`: `TypeCorrect`, `ScheduleIsLegal`, `FirstIsFeasible`, `OrderAndSlotsAgree`, `SearchNeverWorsens` | `TypeOK`, `EmittedLegal`, `NeverLaterThanGiven`, `WaitJustified`, `NeverWorse` | number of hops, lanes, rounds, sinks, delays, paths, iterations |
| `ExperimentCache_proofs`: `TypeCorrect`, `ModesSuffice`, `CertificatesHold`, `CollectorKeepsRoots` | `TypeOK`, `MetadataSuffices`, `CertificateMeansValidated`, `RootsKept` | number of keys, outside trees, validators, processes, operations, collections |

**The tree.** `IInv` is the conjunction of the run's five invariants. Simultaneous
release is not inductive alone. `StartOnItsWay` adds the schedule of the start word:
with `Remaining` cycles to the target, every node at distance d (`LatencyFromRoot`) is
armed once `Remaining + d + 1 <= StartMargin`, and stage k of an edge holds the word
one condition earlier per stage; the margin `max + 2` then arms everybody before
`Remaining` is zero, with one cycle to spare. `FaultInFlight` needs simultaneous
release (a parent of a released node is released, so it faults on what it sees), and
the barrier's condition on readiness needs `ReadyWasSeen`, which follows readiness
through the pipes by subtree. `FaultReachesRoot` adds a clock to this: while the root
has not faulted, some not-ready cycle is far enough up an edge that the age of the
fault and the cycles left (`ToRoot`) add up to no more than the broadcast latency.
`ReleaseIsStable` says of each stage how many cycles in a row the nodes below had
been ready when what it carries was sampled.

**Tree and controllers.** Two controllers in the same state that see the same
`links_ready` take the same step, and without a fault `links_ready` is `released`,
which is simultaneous. FrameAssumption is the only addition.

**The builder.** `TopologyInv` says that the maps are a tree whose edges are links
(`MapInv`), that an FPGA is no deeper than there are others found (`DepthInv`), that
the queue is in order of depth and nothing found is more than one level deeper than
anything queued (`QueueInv`), and that an FPGA that has left the queue has its
neighbours found, one level deeper at most (`ExpandedInv`). Everything else follows in
a single state. An FPGA found is within as many hops as it is deep, by its parents;
one within k hops is found at depth k or less, or something less deep than k is still
queued, which `QueueInv` excludes for an FPGA found deeper: hence the hop distance,
and with an empty queue the decision. The chain of parents loses a level per step and
ends at the root, so the subtrees nest and the root's is everything. The recursive
functions `Reach` and `up` exist because a function can be iterated (`Iterates`, by a
least counterexample). `BoardAssumption`: finitely many FPGAs, and names that have an
order, as the code's strings do. `TreeIsSound` discharges the `TopologyAssumption`
that the theorems about the tree start from.

**The frame.** The controllers agree (`Lockstep`) and one that has not started is in
slot zero; a value sent in this frame is in the stage of its lane that the elapsed
slots give (`PipeFresh`), and in the shadow register from its arrival on
(`ShadowsFresh`). A relay reads a shadow that is fresh because a legal schedule sends
it after the arrival. In the last slot every register therefore reads what it would
read on one chip. The rest of the refinement is arithmetic on the calendar: the event
index modulo a clock's period in ticks is the time since its last edge.
`DesignAssumption` and `PlatformAssumption` give the constants their types and refuse
a frame of fewer than two slots, as the code does; `ClockAssumption` wants a clock and
positive periods; `CalendarAssumption` says that the hyperperiod is within the limit
above which `build_virtual_clock_contract` refuses the clocks.

**The serial edge.** The wire is a queue whose records differ in age (`WireInv`), so
that it holds at most `MaxDelay`, and a reset that is held drains it (`DrainInv`).
`WindowInv` is the heart: k edges before the target, the START word is decided, being
sent, travelling with an age that leaves time, heard, or the child is armed, and at the
target both run. It holds as long as neither end has an error of its link, ready or
not: a drop leaves an error, and by `LockInv` so does a loss of lock once the root has
armed. `ReadyInv` adds that the child's READY is out before its data begins, which gives
`NoOverlap`. `StartInv` makes every START on the wire the root's current one, which gives
`ChildFollows` without any condition on the links. For `StaleReadyBounded`: once the
child has been unready for long enough with its end up, the last READY word sent, on the
wire or applied is FALSE (`LastIsFalse`, `UnreadyInv`), or it was dropped at the root,
whose own error then keeps it from being ready. `FaultOnItsWay` is inductive with these: a
child that is not ready and has no error sends READY(0) or has sent it, and its word
passes from the mux to the wire to the root or leaves an error there. `RunsInStep`
follows in a single state: a START that was dropped or late needs an error at one end;
at the root it ends its readiness, and at the child it makes FALSE the last READY word,
which in a quiet state the root has applied or has an error for. `NoneAssumption` keeps the value None apart from words and epochs.

**The farm.** `LockInv` says who holds `launch.lock` and that the retirement marker
appears only under it; `SlotInv` that a worker with a slot has it alone; `CommandInv`
that a command has a running worker or one that is gone; `PidInv` and
`DirInv` that the attempt directories of a task are numbered without holes and every
attempt number written in a state file, read by a launcher or read by a reconciler is
that of a directory, so `mkdir` arbitrates. `LeaseInv` ties a leased state to the
worker of its attempt. `RetryInv`, which holds as long as SSH has not failed, says
that wherever a retry of an attempt may still come from (a state file, a submission
under way, a reconciler that found the worker gone) either a newer directory exists,
and the retry will fail, or no worker has the task. `OneWorkerPerTask` is not
inductive without it, and is claimed under the same condition: a submission whose
SSH failed may have started its worker.

**The slot optimizer.** `LegalInv` says of a schedule under construction (`BuildInv`)
that rounds are completed one after the other and parents placed first, that what is
placed already obeys the validator's rules *as the validator will compute them from the
complete schedule* (`SlotInv`), that `route_completion` is the last arrival of the
completed rounds, and that a round starts when the validator says (`SourceInv`);
placing a hop changes none of this for the hops already placed, because their parents
and the sinks of earlier rounds keep their slots. A complete one is therefore legal,
in whatever order it was built. `FirstIsFeasible` adds `OnTime`: while the input's
order is built, every placed hop is no later than given and comes before every
unplaced hop of its round. Then parents arrive no later than given, so does the last
sink of the earlier rounds, and between the ready slot and the given slot a free one
exists by counting: the hops of the lane that could take one were all given an earlier
slot. A window of `ratio` slots suffices for the same reason, with the ratio plan's
bound on the hops of a lane. The ASSUMEs are `ReadOK` (what `read_model` checks),
`WrittenOK` (what `tdm_slot.py` writes) and `BranchAssumption`: every hop delivers to a
sink or to a further hop. The routers build routes from the paths to their sinks, so
it holds, but neither `_validate_route_tree` nor the optimizer refuses a route with a
dead end, and TLC finds inputs with one for which `NeverLaterThanGiven` fails: the hop
at the dead end may end after the next round has started, is moved forward by the list
scheduler and takes the slot of a hop of that round. `NoneAssumption` keeps None apart
from schedules.

The search is typed by what its orders are. Each element of a finite set has a rank of
its own under a strict total order, and each rank is taken (`RankFact`); so `Sorted`
lists its set whatever the order, the pairs of an exchange are pairs of hops, and the
reorderings that `next_permutation` goes through, being told apart by the hops they
list (`OrderByHops`), are permutations again (`OrderInv`). `BoundInv` keeps slots,
rounds and completion times within the frame. `WaitInv` follows a candidate from the
placement of each hop, which takes the first free slot when it heads the queue, to the
incumbent: the pair of order and slots moves through `best` and `best_priority`
together. `BestInv` says that the best of an iteration is not worse than the
incumbent, so `Accept`, which does not compare them, cannot lose anything; for that
the keys of `better` must be numbers, and the folds of `PathDelay`,
`TotalNegativeSlack` and `PeriodProduct` are typed through the existence of the
function a fold is defined by (`FoldExists`).

**The cache.** `ManifestInv`: a manifest is true of its tree, unless the tree is
disturbed, is an outside tree, of which the digest decides at the next look, or is
being removed and therefore left writable. `CertificateInv`: the
certificates of a key are accepted by the payload its manifest names. `Knows(q)` is
what a process knows in each stage about the object, the payload it carries and the
manifest it read. A step of one actor disturbs what another relies on in four ways
only, stated once (`TreesKept`, `ManifestsKept`, `CertificatesKept`, `ActorKnows`), so
that preservation is proved per action and not per pair of actions. `RootsKept` is an
action property and follows from what the collector recorded when it looked.

Only model-checked:

* liveness (`StartsWhenReady`, `EveryClockTicks`, `EmulationRuns`, `Decides`,
  `RootNotAlone`, `WaitEnds`): the prover has no fairness and no ENABLED.

Every invariant and safety property of a passing run is stated by a theorem.

## Not modelled

Nearly all C and C++ in the repository is vendored: Yosys with ABC, VTR, OpenROAD,
OpenPARF, Cap'n Proto and others under `engines/`. EmuFlow calls these as programs;
they are not its own logic, so the share of the repository's lines that the map
covers is small and stays small. Of EmuFlow's own code:

* the PCS data path: data records, frame formats, the dejitter buffer's release; for
  control records `PcsEdge` has a wire with delay, order, drops and errors;
* in the cache, dependencies between nodes, staging, failure and scratch areas,
  evidence bundles and version 1 plans, and the short time in which a managed
  manifest is writable;
* retirement after the marker: quarantine, removal and resume;
* in the farm, manifest validation and `detach_validation_farm_task`;
* bank budgets of the schedule validator, and the partitioners, routers, ratio
  optimisers, back ends, importers, PHY recipes, reports and command line, which are
  searches, conversions and tool invocations without protocol state.

Definitions that only name an index, a set or a union of actions have no entry in
the map.

## Plan

1. The dejitter buffer's fixed-latency release; retirement with quarantine and
   resume.
2. Proofs about these as they come.
