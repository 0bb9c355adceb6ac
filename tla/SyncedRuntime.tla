--------------------------- MODULE SyncedRuntime ---------------------------
(***************************************************************************)
(* The synchronisation tree wired to the runtime controllers: on every     *)
(* FPGA the serial wrapper drives the controller's links_ready with its    *)
(* tree node's global_ready.  FrameRuntime takes links_ready to be the     *)
(* same everywhere; this module shows how far the tree makes it so.        *)
(***************************************************************************)
EXTENDS RuntimeSyncTree

CONSTANTS
  FrameSlots,           \* slots of a frame
  CalendarTicks         \* events of the clock calendar

ASSUME FrameAssumption ==
  FrameSlots \in Nat \ {0} /\ CalendarTicks \in Nat \ {0}

VARIABLES slot, started, event_index    \* the controller of each FPGA

controllers == <<slot, started, event_index>>
allvars == <<vars, controllers>>

\* Faulty variant: the controller listens to its own FPGA's links.
OwnLinksReady(n) == local_ready[n]

links_ready(n) == global_ready(n)

\* The cycle in which FPGA n's virtual clock enables may be set.
FrameEnds(n) ==
  ~reset /\ started[n] /\ links_ready(n) /\ slot[n] = FrameSlots - 1

\* Faulty variant: the frame is one slot short.
WrapsBeforeLastSlot(n) ==
  IF ~started[n] \/ slot[n] = FrameSlots - 2 THEN 0 ELSE slot[n] + 1

NextSlot(n) ==
  IF ~started[n] \/ FrameEnds(n) THEN 0
  ELSE IF slot[n] = FrameSlots - 1 THEN slot[n]
  ELSE slot[n] + 1

ControllerReset ==
  /\ slot' = AllNodes(0)
  /\ started' = AllNodes(FALSE)
  /\ event_index' = AllNodes(0)

ControllerEdge ==
  /\ slot' = [n \in Node |-> NextSlot(n)]
  /\ started' = [n \in Node |-> started[n] \/ links_ready(n)]
  /\ event_index' = [n \in Node |->
       IF FrameEnds(n) THEN (event_index[n] + 1) % CalendarTicks
       ELSE event_index[n]]

SyncedInit ==
  /\ Init
  /\ slot = AllNodes(0)
  /\ started = AllNodes(FALSE)
  /\ event_index = AllNodes(0)

SyncedNext ==
  \/ ResetEdge /\ ControllerReset
  \/ FabricEdge /\ ControllerEdge

SyncedSpec == SyncedInit /\ [][SyncedNext]_allvars /\ WF_allvars(SyncedNext)

-----------------------------------------------------------------------------
(* Properties.                                                             *)

NoFault == \A n \in Node : ~sticky_fault[n]

\* Slot alignment: until a fault, every FPGA is in the same slot of the same
\* event, so a value sent in a slot arrives in the slot that captures it.
LockstepUntilFault ==
  NoFault => \A m, n \in Node :
    /\ started[m] <=> started[n]
    /\ slot[m] = slot[n]
    /\ event_index[m] = event_index[n]

\* When the links settle, no reset comes and no FPGA faults, the design's
\* clocks run forever and tick on all FPGAs in the same cycle.
EmulationRuns ==
  <>[](~reset /\ NoFault /\ \A n \in Node : local_ready[n])
    => []<>(\A n \in Node : FrameEnds(n))
=============================================================================
