--------------------------- MODULE SynchronousDut ---------------------------
(***************************************************************************)
(* The design under test before it was cut over several FPGAs: registers   *)
(* in clock domains, every clock with a period of its own and nothing      *)
(* shared but time.  At each tick of the timebase all registers whose      *)
(* clock has an edge take their next value, computed from the registers as *)
(* they all were before the edge.                                          *)
(***************************************************************************)
EXTENDS Naturals

CONSTANTS
  Signal,               \* the registered signals of the design
  Clock,                \* its root clocks
  ClockOf,              \* ClockOf[s]: the clock of signal s
  PeriodTicks,          \* PeriodTicks[c]: ticks of the timebase per period
  Reads,                \* Reads[s]: the signals the next value of s depends on
  Value,                \* values of a signal
  DutNext(_, _)         \* DutNext(s, view): next value of s

VARIABLES
  reg,                  \* the registers
  due                   \* due[c]: ticks to the next edge of c

vars == <<reg, due>>

FirstEdges == [c \in Clock |-> PeriodTicks[c]]

Init ==
  /\ reg \in [Signal -> Value]
  /\ due = FirstEdges

\* One tick of the timebase.
Tick ==
  /\ reg' = [s \in Signal |->
       IF due[ClockOf[s]] = 1 THEN DutNext(s, [r \in Reads[s] |-> reg[r]])
       ELSE reg[s]]
  /\ due' = [c \in Clock |-> IF due[c] = 1 THEN PeriodTicks[c] ELSE due[c] - 1]

\* A reset of the fabric restarts the clocks; the registers of the design
\* have a reset of their own.
Restart == reg' = reg /\ due' = FirstEdges

Next == Tick \/ Restart

Spec == Init /\ [][Next]_vars
=============================================================================
