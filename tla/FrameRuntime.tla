---------------------------- MODULE FrameRuntime ----------------------------
(***************************************************************************)
(* The design cut over several FPGAs.  Every FPGA has a controller         *)
(* (emuflow_virtual_runtime_controller) that counts the slots of a frame,  *)
(* and a transport that drives link lanes in the slots of the TDM schedule *)
(* and captures what arrives into shadow registers.  In the last slot of   *)
(* the frame, when the links are ready, the controller enables the clocks  *)
(* of the design that the event calendar names.  The fabric clock is       *)
(* common and phase aligned, reset is synchronous and links_ready is the   *)
(* same at every FPGA (the lockstep requirements of the runtime contract). *)
(***************************************************************************)
EXTENDS Naturals, FiniteSets

CONSTANTS
  Fpga,
  Signal, Clock, ClockOf, Reads, Value, Zero, DutNext(_, _),
  Period,               \* Period[c]: declared period in the common unit
  Source,               \* Source[s]: the FPGA whose register drives s
  Chan,                 \* lanes of the links, one direction each
  ChanFrom, ChanTo,     \* the FPGAs a lane joins
  ChanLatency,          \* cycles from the transmitter to the receiver
  FrameSlots,
  Schedules             \* the candidate TDM schedules: sets of entries

\* The design: every next value is a value, whatever is read.
ASSUME DesignAssumption ==
  /\ Zero \in Value
  /\ Reads \in [Signal -> SUBSET Signal]
  /\ ClockOf \in [Signal -> Clock]
  /\ \A s \in Signal : \A view \in [Reads[s] -> Value] : DutNext(s, view) \in Value

\* At least one clock, and positive periods (build_virtual_clock_contract).
ASSUME ClockAssumption == Clock # {} /\ Period \in [Clock -> Nat \ {0}]

\* The platform and the cut; frame_slots < 2 is refused.
ASSUME PlatformAssumption ==
  /\ Fpga # {}
  /\ Source \in [Signal -> Fpga]
  /\ ChanFrom \in [Chan -> Fpga] /\ ChanTo \in [Chan -> Fpga]
  /\ ChanLatency \in [Chan -> Nat]
  /\ FrameSlots \in Nat /\ FrameSlots >= 2

BarrierSlots == 1       \* RUNTIME_BARRIER_SLOTS

-----------------------------------------------------------------------------
(* The schedule: one entry per hop of a signal.                            *)

Entry == [sig : Signal, chan : Chan, slot : 0..(FrameSlots - 1)]

From(e) == ChanFrom[e.chan]
To(e) == ChanTo[e.chan]
ArrivalSlot(e) == e.slot + ChanLatency[e.chan]

Sinks(s) == {Source[r] : r \in {q \in Signal : s \in Reads[q]}} \ {Source[s]}

\* Faulty variant: a relay may send in the slot in which the value arrives.
ReadyOnArrival(S, e) ==
  \/ From(e) = Source[e.sig]
  \/ \E p \in S : /\ p.sig = e.sig
                  /\ To(p) = From(e)
                  /\ ArrivalSlot(p) <= e.slot

\* The value of e.sig is at From(e) before slot e.slot: the sender owns it or
\* an earlier hop brought it at least one slot before.
Ready(S, e) ==
  \/ From(e) = Source[e.sig]
  \/ \E p \in S : /\ p.sig = e.sig
                  /\ To(p) = From(e)
                  /\ ArrivalSlot(p) + 1 <= e.slot

\* What validate_tdm_schedule demands of a schedule.
ScheduleOK(S) ==
  /\ S \subseteq Entry
  /\ \A e \in S : ArrivalSlot(e) < FrameSlots - BarrierSlots
  /\ \A e, f \in S : e.chan = f.chan /\ e.slot = f.slot => e = f
  /\ \A e, f \in S : e.sig = f.sig /\ To(e) = To(f) => e = f
  /\ \A e \in S : Ready(S, e)
  /\ \A s \in Signal : \A d \in Sinks(s) : \E e \in S : e.sig = s /\ To(e) = d

-----------------------------------------------------------------------------
(* The event calendar of build_virtual_clock_contract.                     *)

Divides(a, b) == b % a = 0

\* The longest unit that measures every period.
Quantum == CHOOSE q \in 1..Period[CHOOSE c \in Clock : TRUE] :
  /\ \A c \in Clock : Divides(q, Period[c])
  /\ \A r \in 1..Period[CHOOSE c \in Clock : TRUE] :
       (\A c \in Clock : Divides(r, Period[c])) => r <= q

PeriodTicks == [c \in Clock |-> Period[c] \div Quantum]

MaxCalendarTicks == 4096

\* A calendar of more ticks is refused.
ASSUME CalendarAssumption ==
  \E n \in 1..MaxCalendarTicks : \A c \in Clock : Divides(PeriodTicks[c], n)

CalendarTicks == CHOOSE n \in 1..MaxCalendarTicks :
  /\ \A c \in Clock : Divides(PeriodTicks[c], n)
  /\ \A m \in 1..(n - 1) : \E c \in Clock : ~Divides(PeriodTicks[c], m)

\* Faulty variant: event i is tick i, so the first edge of every clock comes
\* at once.
EventsFromZero(i) == {c \in Clock : Divides(PeriodTicks[c], i)}

\* events[i].clocks; the ticks are offset by one and empty ones are kept.
EventClocks(i) == {c \in Clock : Divides(PeriodTicks[c], i + 1)}

-----------------------------------------------------------------------------
VARIABLES
  schedule,             \* the schedule the transports were generated from
  reset, links_ready,   \* inputs, the same at every FPGA
  slot, started, event_index,   \* the controller of each FPGA
  shadow_regs,          \* shadow_regs[f][s]: f's copy of signal s
  pipe,                 \* pipe[ch]: cycles in flight on a lane, newest first
  reg                   \* the design's registers, each at its Source

controller == <<slot, started, event_index>>
vars == <<schedule, reset, links_ready, controller, shadow_regs, pipe, reg>>

\* The combinational transmit multiplexer: the entry of this slot, else zero.
Sending(ch) == {e \in schedule : e.chan = ch /\ e.slot = slot[ChanFrom[ch]]}

At(f, s) == IF Source[s] = f THEN reg[s] ELSE shadow_regs[f][s]

TxWire(ch) ==
  IF Sending(ch) = {} THEN Zero
  ELSE At(ChanFrom[ch], (CHOOSE e \in Sending(ch) : TRUE).sig)

RxWire(ch) ==
  IF ChanLatency[ch] = 0 THEN TxWire(ch) ELSE pipe[ch][ChanLatency[ch]]

\* Entries whose arrival slot is the receiver's current slot.
Receiving(f, s) == {e \in schedule :
  e.sig = s /\ To(e) = f /\ ArrivalSlot(e) = slot[f]}

LastSlot(f) == slot[f] = FrameSlots - 1

\* virtual_clock_enable of FPGA f.
ClockEnables(f) ==
  IF ~reset /\ started[f] /\ links_ready /\ LastSlot(f)
  THEN EventClocks(event_index[f])
  ELSE {}

-----------------------------------------------------------------------------
AllFpgas(v) == [f \in Fpga |-> v]
NoShadows == [f \in Fpga |-> [s \in Signal |-> Zero]]
EmptyPipes == [ch \in Chan |-> [k \in 1..ChanLatency[ch] |-> Zero]]

Inputs == reset' \in BOOLEAN /\ links_ready' \in BOOLEAN

Init ==
  /\ schedule \in {S \in Schedules : ScheduleOK(S)}
  /\ reset \in BOOLEAN /\ links_ready \in BOOLEAN
  /\ slot = AllFpgas(0)
  /\ started = AllFpgas(FALSE)
  /\ event_index = AllFpgas(0)
  /\ shadow_regs = NoShadows
  /\ pipe = EmptyPipes
  /\ reg \in [Signal -> Value]

\* emuflow_tdm_link; the shadow register is the last stage of its pipe.
LinkEdge ==
  pipe' = [ch \in Chan |-> [k \in 1..ChanLatency[ch] |->
             IF k = 1 THEN TxWire(ch) ELSE pipe[ch][k - 1]]]

ResetEdge ==
  /\ reset
  /\ slot' = AllFpgas(0)
  /\ started' = AllFpgas(FALSE)
  /\ event_index' = AllFpgas(0)
  /\ shadow_regs' = NoShadows
  /\ pipe' = EmptyPipes
  /\ Inputs
  /\ UNCHANGED <<schedule, reg>>

\* A controller waits in slot zero until it is started, and in the last slot
\* until the links are ready.
NextSlot(f) ==
  IF ~started[f] THEN 0
  ELSE IF ~LastSlot(f) THEN slot[f] + 1
  ELSE IF links_ready THEN 0
  ELSE slot[f]

\* Faulty variant: the calendar does not start over.
EventWithoutWrap(f) ==
  IF started[f] /\ LastSlot(f) /\ links_ready THEN event_index[f] + 1
  ELSE event_index[f]

\* Faulty variant: the event is consumed but not advanced.
SameEvent(f) == event_index[f]

NextEvent(f) ==
  IF started[f] /\ LastSlot(f) /\ links_ready
  THEN IF event_index[f] = CalendarTicks - 1 THEN 0 ELSE event_index[f] + 1
  ELSE event_index[f]

ControllerEdge ==
  /\ slot' = [f \in Fpga |-> NextSlot(f)]
  /\ started' = [f \in Fpga |-> started[f] \/ links_ready]
  /\ event_index' = [f \in Fpga |-> NextEvent(f)]

ShadowEdge ==
  shadow_regs' = [f \in Fpga |-> [s \in Signal |->
    IF Receiving(f, s) = {} THEN shadow_regs[f][s]
    ELSE RxWire((CHOOSE e \in Receiving(f, s) : TRUE).chan)]]

\* A register of the design on FPGA f sees f's registers and shadows.
DutEdge ==
  reg' = [s \in Signal |->
    IF ClockOf[s] \in ClockEnables(Source[s])
    THEN DutNext(s, [r \in Reads[s] |-> At(Source[s], r)])
    ELSE reg[s]]

FabricEdge ==
  /\ ~reset
  /\ ControllerEdge
  /\ ShadowEdge
  /\ LinkEdge
  /\ DutEdge
  /\ Inputs
  /\ UNCHANGED schedule

Next == ResetEdge \/ FabricEdge

\* The fabric clock never stops.
Spec == Init /\ [][Next]_vars /\ WF_vars(Next)

-----------------------------------------------------------------------------
(* Properties.                                                             *)

\* The registers keep their widths and the schedule stays a legal one.
TypeOK ==
  /\ ScheduleOK(schedule)
  /\ reset \in BOOLEAN /\ links_ready \in BOOLEAN
  /\ slot \in [Fpga -> 0..(FrameSlots - 1)]
  /\ started \in [Fpga -> BOOLEAN]
  /\ event_index \in [Fpga -> 0..(CalendarTicks - 1)]
  /\ shadow_regs \in [Fpga -> [Signal -> Value]]
  /\ DOMAIN pipe = Chan
  /\ \A ch \in Chan : pipe[ch] \in [1..ChanLatency[ch] -> Value]
  /\ reg \in [Signal -> Value]

\* "Scheduling, RTL generation, equivalence checking ... must use the same
\* convention": once a frame has passed an entry's arrival slot, the shadow
\* it feeds holds the register's value of this frame, relayed hops included.
ShadowsFresh ==
  \A f \in Fpga : \A e \in schedule :
    started[f] /\ To(e) = f /\ slot[f] > ArrivalSlot(e)
      => shadow_regs[f][e.sig] = reg[e.sig]

\* Every legal schedule on the cut design, with its stalls and its finite
\* calendar, runs the original design: the registers go through the states
\* of the design on one chip, at the relative clock rates it declares.
Dut == INSTANCE SynchronousDut WITH
  due <- [c \in Clock |->
    PeriodTicks[c] - (event_index[CHOOSE f \in Fpga : TRUE] % PeriodTicks[c])]

DutSpec == Dut!Spec

\* If resets stop and the links come back after every stall, however many
\* stalls there are, every frame ends: the calendar runs through all its
\* events, so no clock of the design stops.
EveryClockTicks ==
  (<>[]~reset /\ []<>links_ready)
    => \A c \in Clock : \A f \in Fpga : []<>(c \in ClockEnables(f))
=============================================================================
