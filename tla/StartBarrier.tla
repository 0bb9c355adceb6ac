---------------------------- MODULE StartBarrier ----------------------------
(***************************************************************************)
(* What the runtime start barrier promises to the transport runtime of a   *)
(* multi-FPGA build, with nothing said about trees, links or epochs: a     *)
(* board-level reset clears everything; between two resets the FPGAs start *)
(* in one step, all of them, and only when each has reported ready; an     *)
(* FPGA faults only after the start and stays faulted.                     *)
(***************************************************************************)
CONSTANT Node           \* the FPGAs of the platform

VARIABLES
  seen,                 \* FPGAs that have been ready since the last reset
  started,              \* FPGAs released into the runtime
  faulted               \* FPGAs whose sticky fault is set

vars == <<seen, started, faulted>>

Init ==
  /\ seen \in SUBSET Node
  /\ started = {}
  /\ faulted = {}

\* One fabric cycle: more FPGAs may be seen ready, all may start together,
\* and FPGAs that had started may fault.
Cycle ==
  /\ seen' \in SUBSET Node
  /\ seen \subseteq seen'
  /\ \/ started' = started
     \/ seen = Node /\ started' = Node
  /\ faulted' \in SUBSET Node
  /\ faulted \subseteq faulted'
  /\ faulted' \subseteq faulted \cup started

\* The board's synchronous reset service.
Reset ==
  /\ seen' \in SUBSET Node
  /\ started' = {}
  /\ faulted' = {}

Next == Cycle \/ Reset

Spec == Init /\ [][Next]_vars
=============================================================================
