------------------------ MODULE FrameRuntime_proofs -------------------------
(***************************************************************************)
(* Every legal schedule, on every platform and for every set of clocks     *)
(* whose calendar fits, runs the design as it was before it was cut.  The  *)
(* argument: the controllers agree (Lockstep), a value sent in this frame  *)
(* is in its lane until it arrives (PipeFresh) and in its shadow register  *)
(* from then on (ShadowsFresh), so in the last slot every register reads   *)
(* what it would read on one chip; and the event index names the tick.     *)
(***************************************************************************)
EXTENDS FrameRuntime, NatLemmas

\* The controllers of any two FPGAs are in the same state.
Lockstep ==
  \A f, g \in Fpga : /\ slot[f] = slot[g]
                     /\ started[f] <=> started[g]
                     /\ event_index[f] = event_index[g]

\* A controller that has not started is in slot zero.
WaitsInZero == \A f \in Fpga : started[f] \/ slot[f] = 0

\* From the slot after it is sent to the slot it arrives in, the value of
\* this frame is in the stage of its lane that the elapsed cycles give.
PipeFresh ==
  \A f \in Fpga : \A e \in schedule :
    started[f] /\ e.slot < slot[f] /\ slot[f] <= ArrivalSlot(e)
      => pipe[e.chan][slot[f] - e.slot] = reg[e.sig]

IInv ==
  /\ TypeOK
  /\ Lockstep
  /\ WaitsInZero
  /\ PipeFresh
  /\ ShadowsFresh

-----------------------------------------------------------------------------
(* The calendar.                                                           *)

LEMMA QuantumFact ==
  /\ Quantum \in Nat \ {0}
  /\ \A c \in Clock : Divides(Quantum, Period[c])
<1> DEFINE P == Period[CHOOSE c \in Clock : TRUE]
           S == {q \in 1..P : \A c \in Clock : Divides(q, Period[c])}
<1>1. P \in Nat \ {0}
  BY ClockAssumption
<1>2. 1 \in S
  <2>1. \A p \in Nat : p % 1 = 0
    OBVIOUS
  <2>2. QED
    BY <1>1, <2>1, ClockAssumption DEF Divides
<1>3. \E q \in S : \A r \in S : r <= q
  <2>1. S \in SUBSET Nat /\ \A q \in S : q <= P
    BY <1>1
  <2> HIDE DEF S, P
  <2>2. QED
    BY <1>1, <1>2, <2>1, GreatestNat
<1>4. \E q \in 1..P : /\ \A c \in Clock : Divides(q, Period[c])
                      /\ \A r \in 1..P :
                           (\A c \in Clock : Divides(r, Period[c])) => r <= q
  BY <1>3, Zenon
<1>5. /\ Quantum \in 1..P
      /\ \A c \in Clock : Divides(Quantum, Period[c])
  BY <1>4, Zenon DEF Quantum
<1>6. QED
  BY <1>1, <1>5

\* Every clock has a period of at least one tick.
LEMMA PeriodTicksType == PeriodTicks \in [Clock -> Nat \ {0}]
<1> SUFFICES ASSUME NEW c \in Clock
             PROVE  Period[c] \div Quantum \in Nat \ {0}
  BY DEF PeriodTicks
<1> DEFINE p == Period[c]
           q == Quantum
<1>1. p \in Nat \ {0} /\ q \in Nat \ {0} /\ p % q = 0
  BY QuantumFact, ClockAssumption DEF Divides
<1> HIDE DEF p, q
<1>2. p \div q \in Nat
  BY <1>1
<1>3. p = (q * (p \div q)) + (p % q)
  BY <1>1
<1>4. p \div q # 0
  BY <1>1, <1>2, <1>3
<1>5. QED
  BY <1>2, <1>4 DEF p, q

LEMMA CalendarFact ==
  /\ CalendarTicks \in Nat \ {0}
  /\ \A c \in Clock : Divides(PeriodTicks[c], CalendarTicks)
<1> DEFINE S == {n \in 1..MaxCalendarTicks :
                   \A c \in Clock : Divides(PeriodTicks[c], n)}
<1>1. PICK n \in S : \A m \in S : n <= m
  <2>1. S \in SUBSET Nat /\ S # {}
    BY CalendarAssumption
  <2> HIDE DEF S
  <2>2. QED
    BY <2>1, LeastNat
<1>2. \A m \in 1..(n - 1) : \E c \in Clock : ~Divides(PeriodTicks[c], m)
  <2> SUFFICES ASSUME NEW m \in 1..(n - 1),
                      \A c \in Clock : Divides(PeriodTicks[c], m)
               PROVE  FALSE
    OBVIOUS
  <2>1. n \in 1..MaxCalendarTicks
    BY <1>1
  <2>2. m \in 1..MaxCalendarTicks /\ m < n
    BY <2>1 DEF MaxCalendarTicks
  <2>3. m \in S
    BY <2>2
  <2>4. n <= m
    BY <1>1, <2>3
  <2>5. QED
    BY <2>1, <2>2, <2>4 DEF MaxCalendarTicks
<1>3. /\ CalendarTicks \in 1..MaxCalendarTicks
      /\ \A c \in Clock : Divides(PeriodTicks[c], CalendarTicks)
  BY <1>1, <1>2, Zenon DEF CalendarTicks
<1>4. QED
  BY <1>3 DEF MaxCalendarTicks

-----------------------------------------------------------------------------
(* The fabric.                                                             *)

\* What an entry of a legal schedule is.
LEMMA EntryFact ==
  ASSUME TypeOK, NEW e \in schedule
  PROVE  /\ e.sig \in Signal /\ e.chan \in Chan
         /\ e.slot \in Nat /\ ChanLatency[e.chan] \in Nat
         /\ From(e) \in Fpga /\ To(e) \in Fpga
         /\ ArrivalSlot(e) \in Nat
         /\ e.slot <= ArrivalSlot(e)
         /\ ArrivalSlot(e) < FrameSlots - 1
<1>1. e \in Entry /\ ArrivalSlot(e) < FrameSlots - BarrierSlots
  BY DEF TypeOK, ScheduleOK
<1>2. e.sig \in Signal /\ e.chan \in Chan /\ e.slot \in 0..(FrameSlots - 1)
  BY <1>1 DEF Entry
<1>3. QED
  BY <1>1, <1>2, PlatformAssumption DEF From, To, ArrivalSlot, BarrierSlots

\* A sender has the value of this frame in the slot of its entry.
LEMMA SenderHasValue ==
  ASSUME IInv, NEW e \in schedule, started[From(e)], e.slot = slot[From(e)]
  PROVE  At(From(e), e.sig) = reg[e.sig]
<1>1. Ready(schedule, e)
  BY DEF IInv, TypeOK, ScheduleOK
<1>2. CASE From(e) = Source[e.sig]
  BY <1>2 DEF At
<1>3. CASE \E p \in schedule : /\ p.sig = e.sig
                               /\ To(p) = From(e)
                               /\ ArrivalSlot(p) + 1 <= e.slot
  <2>1. PICK p \in schedule : /\ p.sig = e.sig
                              /\ To(p) = From(e)
                              /\ ArrivalSlot(p) + 1 <= e.slot
    BY <1>3
  <2>2. ArrivalSlot(p) \in Nat /\ e.slot \in Nat /\ From(e) \in Fpga
    BY EntryFact DEF IInv
  <2>3. slot[From(e)] > ArrivalSlot(p)
    BY <2>1, <2>2
  <2>4. shadow_regs[From(e)][e.sig] = reg[e.sig]
    BY <2>1, <2>2, <2>3 DEF IInv, ShadowsFresh
  <2>5. QED
    BY <2>4 DEF At
<1>4. QED
  BY <1>1, <1>2, <1>3 DEF Ready

\* Only one entry is on a lane in a slot, so the lane carries its value.
LEMMA LaneCarries ==
  ASSUME IInv, NEW e \in schedule, started[From(e)], e.slot = slot[From(e)]
  PROVE  TxWire(e.chan) = reg[e.sig]
<1>1. e \in Sending(e.chan)
  BY DEF Sending, From
<1>2. \A d \in Sending(e.chan) : d = e
  BY DEF Sending, From, IInv, TypeOK, ScheduleOK
<1>3. (CHOOSE d \in Sending(e.chan) : TRUE) = e
  BY <1>1, <1>2
<1>4. TxWire(e.chan) = At(From(e), e.sig)
  BY <1>1, <1>3 DEF TxWire, From
<1>5. QED
  BY <1>4, SenderHasValue

\* A value that arrives is the value of this frame.
LEMMA ReceivedIsFresh ==
  ASSUME IInv, NEW e \in schedule, started[To(e)], ArrivalSlot(e) = slot[To(e)]
  PROVE  RxWire(e.chan) = reg[e.sig]
<1>1. /\ From(e) \in Fpga /\ To(e) \in Fpga /\ e.slot \in Nat
      /\ ChanLatency[e.chan] \in Nat
  BY EntryFact DEF IInv
<1>2. started[From(e)] /\ slot[From(e)] = slot[To(e)]
  BY <1>1 DEF IInv, Lockstep
<1>3. CASE ChanLatency[e.chan] = 0
  <2>1. e.slot = slot[From(e)]
    BY <1>1, <1>2, <1>3 DEF ArrivalSlot
  <2>2. QED
    BY <1>2, <1>3, <2>1, LaneCarries DEF RxWire
<1>4. CASE ChanLatency[e.chan] # 0
  <2>1. /\ e.slot < slot[To(e)]
        /\ slot[To(e)] <= ArrivalSlot(e)
        /\ slot[To(e)] - e.slot = ChanLatency[e.chan]
    BY <1>1, <1>4 DEF ArrivalSlot
  <2>2. pipe[e.chan][slot[To(e)] - e.slot] = reg[e.sig]
    BY <1>1, <2>1 DEF IInv, PipeFresh
  <2>3. QED
    BY <1>4, <2>1, <2>2 DEF RxWire
<1>5. QED
  BY <1>3, <1>4

-----------------------------------------------------------------------------
(* Types.                                                                  *)

LEMMA InitIInv == Init => IInv
<1> SUFFICES ASSUME Init PROVE IInv
  OBVIOUS
<1>1. TypeOK
  BY CalendarFact, DesignAssumption, PlatformAssumption
     DEF Init, TypeOK, AllFpgas, NoShadows, EmptyPipes
<1>2. Lockstep /\ WaitsInZero /\ PipeFresh /\ ShadowsFresh
  BY DEF Init, AllFpgas, Lockstep, WaitsInZero, PipeFresh, ShadowsFresh
<1>3. QED
  BY <1>1, <1>2 DEF IInv

LEMMA ResetIInv == IInv /\ ResetEdge => IInv'
<1> SUFFICES ASSUME IInv, ResetEdge PROVE IInv'
  OBVIOUS
<1>1. TypeOK'
  BY CalendarFact, DesignAssumption, PlatformAssumption
     DEF IInv, TypeOK, ResetEdge, Inputs, AllFpgas, NoShadows, EmptyPipes
<1>2. (Lockstep /\ WaitsInZero /\ PipeFresh /\ ShadowsFresh)'
  BY DEF ResetEdge, AllFpgas, Lockstep, WaitsInZero, PipeFresh, ShadowsFresh
<1>3. QED
  BY <1>1, <1>2 DEF IInv

\* The wires carry values.
LEMMA WireTypes ==
  ASSUME TypeOK
  PROVE  /\ \A f \in Fpga : \A s \in Signal : At(f, s) \in Value
         /\ \A ch \in Chan : TxWire(ch) \in Value /\ RxWire(ch) \in Value
<1>1. \A f \in Fpga : \A s \in Signal : At(f, s) \in Value
  BY DEF TypeOK, At
<1>2. ASSUME NEW ch \in Chan PROVE TxWire(ch) \in Value
  <2>1. CASE Sending(ch) = {}
    BY <2>1, DesignAssumption DEF TxWire
  <2>2. CASE Sending(ch) # {}
    <3>1. PICK e \in schedule : e = CHOOSE d \in Sending(ch) : TRUE
      BY <2>2 DEF Sending
    <3>2. e.sig \in Signal /\ ChanFrom[ch] \in Fpga
      BY EntryFact, PlatformAssumption
    <3>3. QED
      BY <1>1, <2>2, <3>1, <3>2 DEF TxWire
  <2>3. QED
    BY <2>1, <2>2
<1>3. ASSUME NEW ch \in Chan PROVE RxWire(ch) \in Value
  <2>1. ChanLatency[ch] # 0 => pipe[ch][ChanLatency[ch]] \in Value
    <3> HAVE ChanLatency[ch] # 0
    <3>1. ChanLatency[ch] \in 1..ChanLatency[ch]
      BY PlatformAssumption
    <3>2. pipe[ch] \in [1..ChanLatency[ch] -> Value]
      BY DEF TypeOK
    <3>3. QED
      BY <3>1, <3>2
  <2>2. QED
    BY <1>2, <2>1 DEF RxWire
<1>4. QED
  BY <1>1, <1>2, <1>3

LEMMA FabricTypes == TypeOK /\ FabricEdge => TypeOK'
<1> SUFFICES ASSUME TypeOK, FabricEdge PROVE TypeOK'
  OBVIOUS
<1>1. ScheduleOK(schedule)' /\ reset' \in BOOLEAN /\ links_ready' \in BOOLEAN
  BY DEF TypeOK, FabricEdge, Inputs, ScheduleOK, Ready
<1>2. slot' \in [Fpga -> 0..(FrameSlots - 1)]
  BY PlatformAssumption
     DEF TypeOK, FabricEdge, ControllerEdge, NextSlot, LastSlot
<1>3. started' \in [Fpga -> BOOLEAN]
  BY DEF TypeOK, FabricEdge, ControllerEdge
<1>4. event_index' \in [Fpga -> 0..(CalendarTicks - 1)]
  BY CalendarFact DEF TypeOK, FabricEdge, ControllerEdge, NextEvent
<1>5. shadow_regs' \in [Fpga -> [Signal -> Value]]
  <2>1. ASSUME NEW f \in Fpga, NEW s \in Signal, Receiving(f, s) # {}
        PROVE  RxWire((CHOOSE e \in Receiving(f, s) : TRUE).chan) \in Value
    <3>1. PICK e \in schedule : e = CHOOSE d \in Receiving(f, s) : TRUE
      BY <2>1 DEF Receiving
    <3>2. QED
      BY <3>1, EntryFact, WireTypes
  <2>2. QED
    BY <2>1 DEF TypeOK, FabricEdge, ShadowEdge
<1>6. /\ DOMAIN pipe' = Chan
      /\ \A ch \in Chan : pipe'[ch] \in [1..ChanLatency[ch] -> Value]
  <2>1. ASSUME NEW ch \in Chan, NEW k \in 1..ChanLatency[ch], k # 1
        PROVE  pipe[ch][k - 1] \in Value
    <3>1. k - 1 \in 1..ChanLatency[ch]
      BY <2>1, PlatformAssumption
    <3>2. pipe[ch] \in [1..ChanLatency[ch] -> Value]
      BY DEF TypeOK
    <3>3. QED
      BY <3>1, <3>2
  <2>2. QED
    BY <2>1, WireTypes DEF FabricEdge, LinkEdge
<1>7. reg' \in [Signal -> Value]
  <2>1. ASSUME NEW s \in Signal
        PROVE  DutNext(s, [r \in Reads[s] |-> At(Source[s], r)]) \in Value
    <3>1. [r \in Reads[s] |-> At(Source[s], r)] \in [Reads[s] -> Value]
      BY WireTypes, DesignAssumption, PlatformAssumption
    <3>2. QED
      BY <3>1, DesignAssumption
  <2>2. QED
    BY <2>1 DEF TypeOK, FabricEdge, DutEdge
<1>8. QED
  BY <1>1, <1>2, <1>3, <1>4, <1>5, <1>6, <1>7 DEF TypeOK

-----------------------------------------------------------------------------
(* Freshness.                                                              *)

\* The frame of FPGA f ends at this edge: a started controller in the last
\* slot sees the links ready.
FrameEnds(f) == started[f] /\ LastSlot(f) /\ links_ready

\* The registers of one controller after an edge.
LEMMA ControllerRegisters ==
  ASSUME FabricEdge, NEW f \in Fpga
  PROVE  /\ slot'[f] = NextSlot(f)
         /\ started'[f] <=> (started[f] \/ links_ready)
         /\ event_index'[f] = NextEvent(f)
  BY DEF FabricEdge, ControllerEdge

LEMMA FabricLockstep == IInv /\ FabricEdge => Lockstep' /\ WaitsInZero'
<1> SUFFICES ASSUME IInv, FabricEdge, NEW f \in Fpga, NEW g \in Fpga
             PROVE  /\ slot'[f] = slot'[g]
                    /\ started'[f] <=> started'[g]
                    /\ event_index'[f] = event_index'[g]
                    /\ started'[f] \/ slot'[f] = 0
  BY DEF Lockstep, WaitsInZero
<1>1. /\ slot[f] = slot[g]
      /\ started[f] <=> started[g]
      /\ event_index[f] = event_index[g]
  BY DEF IInv, Lockstep
<1>2. NextSlot(f) = NextSlot(g) /\ NextEvent(f) = NextEvent(g)
  BY <1>1 DEF NextSlot, NextEvent, LastSlot
<1>3. started[f] \/ NextSlot(f) = 0
  BY DEF NextSlot
<1>4. QED
  BY <1>1, <1>2, <1>3, ControllerRegisters

\* The registers of the design move only when the frame ends.
LEMMA RegHeld ==
  ASSUME IInv, FabricEdge, NEW f \in Fpga, ~FrameEnds(f)
  PROVE  reg' = reg
<1>1. \A g \in Fpga : ClockEnables(g) = {}
  BY DEF ClockEnables, FrameEnds, LastSlot, IInv, Lockstep
<1>2. \A s \in Signal : reg'[s] = reg[s]
  BY <1>1, PlatformAssumption DEF FabricEdge, DutEdge
<1>3. reg \in [Signal -> Value] /\ reg' \in [Signal -> Value]
  BY FabricTypes DEF IInv, TypeOK
<1>4. QED
  BY <1>2, <1>3

\* A started controller is in the slot after, waits in the last slot, or
\* begins a frame.
LEMMA SlotCases ==
  ASSUME IInv, FabricEdge, NEW f \in Fpga, started'[f], slot'[f] # 0
  PROVE  /\ started[f] /\ ~FrameEnds(f)
         /\ \/ slot'[f] = slot[f] + 1
            \/ slot'[f] = slot[f] /\ LastSlot(f)
<1>1. slot'[f] = NextSlot(f)
  BY ControllerRegisters
<1>2. QED
  BY <1>1 DEF NextSlot, FrameEnds

LEMMA FabricPipeFresh == IInv /\ FabricEdge => PipeFresh'
<1> SUFFICES ASSUME IInv, FabricEdge, NEW f \in Fpga, NEW e \in schedule,
                    started'[f], e.slot < slot'[f], slot'[f] <= ArrivalSlot(e)
             PROVE  pipe'[e.chan][slot'[f] - e.slot] = reg'[e.sig]
  BY DEF PipeFresh, FabricEdge, ArrivalSlot
<1>1. /\ e.chan \in Chan /\ e.slot \in Nat /\ ChanLatency[e.chan] \in Nat
      /\ From(e) \in Fpga
      /\ ArrivalSlot(e) \in Nat /\ ArrivalSlot(e) < FrameSlots - 1
      /\ slot[f] \in Nat /\ slot'[f] \in Nat /\ FrameSlots \in Nat
  BY EntryFact, FabricTypes, PlatformAssumption DEF IInv, TypeOK
<1>2. started[f] /\ ~FrameEnds(f) /\ slot'[f] = slot[f] + 1
  BY <1>1, SlotCases DEF LastSlot
<1>3. reg' = reg
  BY <1>2, RegHeld
<1>4. DEFINE k == slot'[f] - e.slot
<1>5. k \in 1..ChanLatency[e.chan]
  BY <1>1 DEF ArrivalSlot
<1>6. pipe'[e.chan][k] = IF k = 1 THEN TxWire(e.chan) ELSE pipe[e.chan][k - 1]
  BY <1>1, <1>5 DEF FabricEdge, LinkEdge
<1>7. CASE e.slot = slot[f]
  <2>1. k = 1
    BY <1>1, <1>2, <1>7
  <2>2. started[From(e)] /\ e.slot = slot[From(e)]
    BY <1>1, <1>2, <1>7 DEF IInv, Lockstep
  <2>3. TxWire(e.chan) = reg[e.sig]
    BY <2>2, LaneCarries
  <2>4. QED
    BY <1>3, <1>6, <2>1, <2>3
<1>8. CASE e.slot # slot[f]
  <2>1. e.slot < slot[f] /\ slot[f] <= ArrivalSlot(e)
    BY <1>1, <1>2, <1>8
  <2>2. pipe[e.chan][slot[f] - e.slot] = reg[e.sig]
    BY <1>2, <2>1 DEF IInv, PipeFresh
  <2>3. k # 1 /\ k - 1 = slot[f] - e.slot
    BY <1>1, <1>2, <2>1
  <2>4. QED
    BY <1>3, <1>6, <2>2, <2>3
<1>9. QED
  BY <1>7, <1>8

LEMMA FabricShadowsFresh == IInv /\ FabricEdge => ShadowsFresh'
<1> SUFFICES ASSUME IInv, FabricEdge, NEW f \in Fpga, NEW e \in schedule,
                    started'[f], To(e) = f, slot'[f] > ArrivalSlot(e)
             PROVE  shadow_regs'[f][e.sig] = reg'[e.sig]
  BY DEF ShadowsFresh, FabricEdge, ArrivalSlot, To
<1>1. /\ e.sig \in Signal
      /\ ArrivalSlot(e) \in Nat /\ ArrivalSlot(e) < FrameSlots - 1
      /\ slot[f] \in Nat /\ slot'[f] \in Nat /\ FrameSlots \in Nat
  BY EntryFact, FabricTypes, PlatformAssumption DEF IInv, TypeOK
<1>2. /\ started[f] /\ ~FrameEnds(f)
      /\ slot'[f] = slot[f] + 1 \/ (slot'[f] = slot[f] /\ LastSlot(f))
  BY <1>1, SlotCases
<1>3. reg' = reg
  BY <1>2, RegHeld
<1>4. slot[f] >= ArrivalSlot(e)
  BY <1>1, <1>2 DEF LastSlot
<1>5. shadow_regs'[f][e.sig] =
        IF Receiving(f, e.sig) = {} THEN shadow_regs[f][e.sig]
        ELSE RxWire((CHOOSE d \in Receiving(f, e.sig) : TRUE).chan)
  BY <1>1 DEF FabricEdge, ShadowEdge
<1>6. \A d \in Receiving(f, e.sig) : d = e
  BY DEF Receiving, IInv, TypeOK, ScheduleOK
<1>7. CASE slot[f] = ArrivalSlot(e)
  <2>1. e \in Receiving(f, e.sig)
    BY <1>7 DEF Receiving
  <2>2. (CHOOSE d \in Receiving(f, e.sig) : TRUE) = e
    BY <1>6, <2>1
  <2>3. RxWire(e.chan) = reg[e.sig]
    BY <1>2, <1>7, ReceivedIsFresh
  <2>4. QED
    BY <1>3, <1>5, <2>1, <2>2, <2>3
<1>8. CASE slot[f] # ArrivalSlot(e)
  <2>1. Receiving(f, e.sig) = {}
    BY <1>6, <1>8 DEF Receiving
  <2>2. shadow_regs[f][e.sig] = reg[e.sig]
    BY <1>1, <1>2, <1>4, <1>8 DEF IInv, ShadowsFresh
  <2>3. QED
    BY <1>3, <1>5, <2>1, <2>2
<1>9. QED
  BY <1>7, <1>8

LEMMA StepIInv == IInv /\ [Next]_vars => IInv'
<1> SUFFICES ASSUME IInv, [Next]_vars PROVE IInv'
  OBVIOUS
<1>1. CASE ResetEdge
  BY <1>1, ResetIInv
<1>2. CASE FabricEdge
  BY <1>2, FabricTypes, FabricLockstep, FabricPipeFresh, FabricShadowsFresh
     DEF IInv
<1>3. CASE UNCHANGED vars
  BY <1>3 DEF vars, controller, IInv, TypeOK, Lockstep, WaitsInZero, PipeFresh,
              ShadowsFresh, ScheduleOK, Ready
<1>4. QED
  BY <1>1, <1>2, <1>3 DEF Next

\* On every platform the registers keep their widths and the schedule stays
\* legal.
THEOREM TypeCorrect == Spec => []TypeOK
<1>1. IInv => TypeOK
  BY DEF IInv
<1>2. QED
  BY InitIInv, StepIInv, <1>1, PTL DEF Spec

\* For every legal schedule, every lane latency and every pattern of stalls
\* and resets, a shadow register past its arrival slot holds the value of
\* this frame, relayed hops included.
THEOREM ShadowsAreFresh == Spec => []ShadowsFresh
<1>1. IInv => ShadowsFresh
  BY DEF IInv
<1>2. QED
  BY InitIInv, StepIInv, <1>1, PTL DEF Spec

-----------------------------------------------------------------------------
(* The design before the cut.                                              *)

Some == CHOOSE f \in Fpga : TRUE

\* The refinement mapping: ticks to the next edge of each clock.
Due(i) == [c \in Clock |-> PeriodTicks[c] - (i % PeriodTicks[c])]

LEMMA SomeFpga == Some \in Fpga
  BY PlatformAssumption DEF Some

\* The event calendar names the clocks that are due, and the next event is
\* one tick on, the wrap of the calendar included.
LEMMA CalendarStep ==
  ASSUME NEW i \in 0..(CalendarTicks - 1), NEW c \in Clock
  PROVE  /\ c \in EventClocks(i) <=> Due(i)[c] = 1
         /\ Due(IF i = CalendarTicks - 1 THEN 0 ELSE i + 1)[c]
              = IF Due(i)[c] = 1 THEN PeriodTicks[c] ELSE Due(i)[c] - 1
<1> DEFINE P == PeriodTicks[c]
           r == i % P
<1>1. P \in Nat \ {0} /\ i \in Nat /\ CalendarTicks \in Nat
  BY PeriodTicksType, CalendarFact
<1>2. Due(i)[c] = P - r
  BY DEF Due
<1>3. /\ r \in 0..(P - 1)
      /\ (i + 1) % P = IF r = P - 1 THEN 0 ELSE r + 1
  BY <1>1, NextRemainder
<1>4. Due(i)[c] = 1 <=> r = P - 1
  BY <1>1, <1>2, <1>3
<1>5. c \in EventClocks(i) <=> (i + 1) % P = 0
  BY DEF EventClocks, Divides
<1>6. c \in EventClocks(i) <=> Due(i)[c] = 1
  <2> HIDE DEF P, r
  <2>1. r + 1 # 0
    BY <1>1, <1>3
  <2>2. (i + 1) % P = 0 <=> r = P - 1
    BY <1>3, <2>1, Zenon
  <2>3. QED
    BY <1>4, <1>5, <2>2, Zenon
<1>7. CASE i = CalendarTicks - 1
  <2>1. (i + 1) % P = 0
    <3>1. CalendarTicks % P = 0
      BY CalendarFact DEF Divides
    <3>2. i + 1 = CalendarTicks
      BY <1>1, <1>7
    <3>3. QED
      BY <3>1, <3>2
  <2>2. Due(i)[c] = 1
    BY <1>5, <1>6, <2>1
  <2>3. Due(0)[c] = P - (0 % P)
    BY DEF Due
  <2>4. 0 % P = 0
    BY <1>1
  <2>5. Due(0)[c] = P
    BY <1>1, <2>3, <2>4
  <2>6. QED
    BY <1>6, <1>7, <2>2, <2>5
<1>8. CASE i # CalendarTicks - 1
  <2>1. Due(i + 1)[c] = P - ((i + 1) % P)
    BY DEF Due
  <2> HIDE DEF P, r
  <2>2. CASE r = P - 1
    <3>1. (i + 1) % P = 0
      BY <1>3, <2>2
    <3>2. Due(i + 1)[c] = P
      BY <1>1, <2>1, <3>1
    <3>3. QED
      BY <1>4, <1>6, <1>8, <2>2, <3>2 DEF P
  <2>3. CASE r # P - 1
    <3>1. (i + 1) % P = r + 1
      BY <1>3, <2>3
    <3>2. Due(i + 1)[c] = Due(i)[c] - 1
      BY <1>1, <1>2, <1>3, <2>1, <3>1
    <3>3. QED
      BY <1>4, <1>6, <1>8, <2>3, <3>2
  <2>4. QED
    BY <2>2, <2>3
<1>9. QED
  BY <1>7, <1>8

LEMMA DueAtZero == Due(0) = [c \in Clock |-> PeriodTicks[c]]
<1>1. \A c \in Clock : PeriodTicks[c] - (0 % PeriodTicks[c]) = PeriodTicks[c]
  <2> TAKE c \in Clock
  <2> DEFINE P == PeriodTicks[c]
  <2>1. P \in Nat \ {0}
    BY PeriodTicksType
  <2> HIDE DEF P
  <2>2. 0 % P = 0
    BY <2>1
  <2>3. P - (0 % P) = P
    BY <2>1, <2>2
  <2>4. QED
    BY <2>3 DEF P
<1>2. QED
  BY <1>1 DEF Due

\* In the last slot a register of the design reads what it would read on
\* one chip.
LEMMA ReadsAreFresh ==
  ASSUME IInv, NEW s \in Signal, NEW r \in Reads[s],
         started[Source[s]], LastSlot(Source[s])
  PROVE  At(Source[s], r) = reg[r]
<1>1. r \in Signal /\ Source[s] \in Fpga
  BY DesignAssumption, PlatformAssumption
<1>2. CASE Source[r] = Source[s]
  BY <1>2 DEF At
<1>3. CASE Source[r] # Source[s]
  <2>1. Source[s] \in Sinks(r)
    BY <1>1, <1>3 DEF Sinks
  <2>2. PICK e \in schedule : e.sig = r /\ To(e) = Source[s]
    BY <1>1, <2>1 DEF IInv, TypeOK, ScheduleOK
  <2>3. slot[Source[s]] > ArrivalSlot(e)
    BY EntryFact, PlatformAssumption DEF LastSlot, IInv
  <2>4. shadow_regs[Source[s]][r] = reg[r]
    BY <1>1, <2>2, <2>3 DEF IInv, ShadowsFresh
  <2>5. QED
    BY <1>3, <2>4 DEF At
<1>4. QED
  BY <1>2, <1>3

LEMMA InitImplements == Init => Dut!Init
<1> SUFFICES ASSUME Init PROVE Dut!Init
  OBVIOUS
<1>1. event_index[Some] = 0
  BY SomeFpga DEF Init, AllFpgas
<1>2. QED
  BY <1>1, DueAtZero DEF Dut!Init, Dut!FirstEdges, Init, Due, Some

\* The end of a frame is a tick of the design.
LEMMA FrameEndIsTick ==
  ASSUME IInv, FabricEdge, FrameEnds(Some)
  PROVE  Dut!Tick
<1> DEFINE i == event_index[Some]
<1>1. Some \in Fpga /\ i \in 0..(CalendarTicks - 1)
  BY SomeFpga DEF IInv, TypeOK
<1>2. \A f \in Fpga : FrameEnds(f) /\ event_index[f] = i
  BY <1>1 DEF IInv, Lockstep, FrameEnds, LastSlot
<1>3. event_index'[Some] = IF i = CalendarTicks - 1 THEN 0 ELSE i + 1
  BY <1>1, <1>2, ControllerRegisters DEF NextEvent, FrameEnds
<1>4. ASSUME NEW s \in Signal
      PROVE  reg'[s] = IF Due(i)[ClockOf[s]] = 1
                       THEN DutNext(s, [r \in Reads[s] |-> reg[r]])
                       ELSE reg[s]
  <2>1. Source[s] \in Fpga /\ ClockOf[s] \in Clock
    BY PlatformAssumption, DesignAssumption
  <2>2. ClockEnables(Source[s]) = EventClocks(i)
    BY <1>2, <2>1 DEF ClockEnables, FrameEnds, FabricEdge
  <2>3. [r \in Reads[s] |-> At(Source[s], r)] = [r \in Reads[s] |-> reg[r]]
    BY <1>2, <2>1, ReadsAreFresh DEF FrameEnds
  <2>4. ClockOf[s] \in EventClocks(i) <=> Due(i)[ClockOf[s]] = 1
    BY <1>1, <2>1, CalendarStep
  <2>5. QED
    BY <2>2, <2>3, <2>4 DEF FabricEdge, DutEdge
<1>5. \A c \in Clock :
        Due(event_index'[Some])[c]
          = IF Due(i)[c] = 1 THEN PeriodTicks[c] ELSE Due(i)[c] - 1
  BY <1>1, <1>3, CalendarStep
<1>6. reg' = [s \in Signal |-> IF Due(i)[ClockOf[s]] = 1
                               THEN DutNext(s, [r \in Reads[s] |-> reg[r]])
                               ELSE reg[s]]
  <2>1. reg' = [s \in Signal |-> reg'[s]]
    BY DEF FabricEdge, DutEdge
  <2>2. QED
    BY <1>4, <2>1
<1>7. Due(event_index'[Some])
        = [c \in Clock |-> IF Due(i)[c] = 1 THEN PeriodTicks[c] ELSE Due(i)[c] - 1]
  BY <1>5 DEF Due
<1>8. QED
  BY <1>6, <1>7 DEF Dut!Tick, Due, Some

LEMMA StepImplements == IInv /\ [Next]_vars => [Dut!Next]_(Dut!vars)
<1> SUFFICES ASSUME IInv, [Next]_vars PROVE Dut!Next \/ UNCHANGED Dut!vars
  OBVIOUS
<1>1. CASE ResetEdge
  <2>1. event_index'[Some] = 0 /\ reg' = reg
    BY <1>1, SomeFpga DEF ResetEdge, AllFpgas
  <2>2. Dut!Restart
    BY <2>1, DueAtZero DEF Dut!Restart, Dut!FirstEdges, Due, Some
  <2>3. QED
    BY <2>2 DEF Dut!Next
<1>2. CASE FabricEdge /\ FrameEnds(Some)
  BY <1>2, FrameEndIsTick DEF Dut!Next
<1>3. CASE FabricEdge /\ ~FrameEnds(Some)
  <2>1. reg' = reg
    BY <1>3, SomeFpga, RegHeld
  <2>2. event_index'[Some] = event_index[Some]
    BY <1>3, SomeFpga, ControllerRegisters DEF NextEvent, FrameEnds
  <2>3. QED
    BY <2>1, <2>2 DEF Dut!vars, Some
<1>4. CASE UNCHANGED vars
  BY <1>4 DEF vars, controller, Dut!vars
<1>5. QED
  BY <1>1, <1>2, <1>3, <1>4 DEF Next

\* Every legal schedule on every platform runs the design as it was before
\* it was cut: a frame that ends is one tick of its timebase, a reset of the
\* fabric restarts its clocks, and everything between is invisible to it.
THEOREM ImplementsDut == Spec => DutSpec
<1>1. Spec => []IInv
  BY InitIInv, StepIInv, PTL DEF Spec
<1>2. QED
  BY <1>1, InitImplements, StepImplements, PTL DEF Spec, DutSpec, Dut!Spec
=============================================================================
