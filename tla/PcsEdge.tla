------------------------------ MODULE PcsEdge ------------------------------
(***************************************************************************)
(* One edge of the runtime synchronisation tree as it is built on a board: *)
(* a root and one child, each with its tree node, its control endpoint     *)
(* (emuflow_runtime_sync_control_endpoint) and its half of                 *)
(* emuflow_runtime_sync_pcs_edge, joined as serial_wrapper.py joins them.  *)
(* RuntimeSyncTree has shift registers in this place; here readiness and   *)
(* the start are records with sequence numbers that travel through FIFOs   *)
(* and a serial link, each end of which may lose lock or a record.  Both    *)
(* leave an error behind that only a reset clears.                         *)
(*                                                                         *)
(* A step is an edge of the fabric clock, which both FPGAs share, as they  *)
(* share the synchronous reset.  A record that entered the transmit FIFO   *)
(* is at the other endpoint MinDelay to MaxDelay cycles later, or dropped. *)
(* Data records are left out; a DataEnd sends them while it runs.          *)
(***************************************************************************)
EXTENDS Integers, Sequences, FiniteSets

CONSTANTS
  StartMargin, ReadyStable, EpochModulus,   \* as in RuntimeSyncTree
  SeqModulus,           \* 2^16: the sequence numbers of the control records
  MinDelay, MaxDelay,   \* FIFOs, PCS and wire, in fabric cycles
  MinReset,             \* cycles the board holds the reset
  MinRelock,            \* cycles until rx_status comes back
  DataEnd,              \* ends that send data on this lane; the others are
                        \* active for the control plane only
  MaxFalls,             \* bound: failures of inputs between two resets
  None

ASSUME DelayAssumption ==
  /\ MinDelay \in Nat \ {0} /\ MaxDelay \in Nat /\ MinDelay <= MaxDelay
  /\ SeqModulus \in Nat \ {0} /\ MaxFalls \in Nat

\* The latency in the platform description, from which the margin is made,
\* counts the endpoints: they take four cycles.
ASSUME MarginAssumption ==
  /\ ReadyStable \in Nat \ {0} /\ EpochModulus \in Nat /\ StartMargin \in Nat
  /\ MaxDelay + 4 <= StartMargin /\ StartMargin < EpochModulus

\* None is no epoch, no readiness and no record.
ASSUME NoneAssumption ==
  /\ None \notin 0..(EpochModulus - 1) /\ None \notin BOOLEAN
  /\ None \notin [kind : {"START"}, seq : 0..(SeqModulus - 1),
                  value : 0..(EpochModulus - 1)]
  /\ None \notin [kind : {"READY"}, seq : 0..(SeqModulus - 1), value : BOOLEAN]

\* Records on their way are not reset with the fabric.
ASSUME ResetAssumption == MinReset \in Nat /\ MinReset >= MaxDelay

\* A lock that was lost is back after sixteen periods of 125 us.
ASSUME RelockAssumption == MinRelock \in Nat /\ MinRelock >= MaxDelay

P == "parent"
C == "child"
Node == {P, C}
Other(n) == IF n = P THEN C ELSE P

VARIABLES
  reset, reset_held,    \* input: the reset, and for how long it is there
  board_ready,          \* input: the other terms of local_phy_ready
  link_ready, relock,   \* input: PCS lock at this end, and how long it is lost
  link_error,           \* input: sticky errors of the adapter and the dejitter
                        \* buffer: bad block, CRC, framing, overflow, underflow
  tx_ready,             \* input: room in the transmit FIFO
  falls,
  epoch, start_armed, target_epoch, released, sticky_fault,
  ready_stable_count,   \* the root's
  remote_subtree_ready, \* at the parent
  remote_start,         \* at the child: the epoch, or None
  tx_control,           \* the record that waits for the mux, or None
  next_tx_sequence, expected_rx_sequence,
  last_ready_sent,      \* at the child; None is !ready_sent_valid
  start_sent,           \* at the parent
  protocol_error,
  arbitration_error,    \* of the record mux
  wire,                 \* wire[n]: what n sent, oldest first, with its age
  disturbed,            \* history: a node was not ready since the root armed
  in_step,              \* history: both were released by the same edge
  unready               \* history: cycles in which the child was not ready,
                        \* was able to say so, and was not again ready

inputs == <<reset, reset_held, board_ready, link_ready, relock, link_error,
            tx_ready, falls>>
node == <<epoch, start_armed, target_epoch, released, sticky_fault,
          ready_stable_count>>
endpoint == <<remote_subtree_ready, remote_start, tx_control,
              next_tx_sequence, expected_rx_sequence, last_ready_sent,
              start_sent, protocol_error, arbitration_error>>
history == <<disturbed, in_step, unready>>
vars == <<inputs, node, endpoint, history, wire>>

Both(v) == [n \in Node |-> v]

-----------------------------------------------------------------------------
(* The tree nodes. *)

\* Faulty variant: the error of the adapter is not connected.
IgnoresAdapter(n) == protocol_error[n] \/ arbitration_error[n]

edge_error(n) == protocol_error[n] \/ arbitration_error[n] \/ link_error[n]
local_ready(n) == board_ready[n] /\ link_ready[n] /\ ~edge_error(n)
subtree_ready(n) == local_ready(n) /\ (n = P => remote_subtree_ready)
global_ready(n) == released[n] /\ ~sticky_fault[n]

\* Faulty variant: the root decides again while a start is pending.
RootArmsAgain ==
  subtree_ready(P) /\ ready_stable_count >= ReadyStable - 1

RootArms ==
  /\ ~start_armed[P] /\ subtree_ready(P)
  /\ ready_stable_count >= ReadyStable - 1

Arms(n) == IF n = P THEN RootArms ELSE ~start_armed[C] /\ remote_start # None

\* Faulty variant: a margin that forgets the endpoints.
StartEpochShort(n) ==
  IF n = P THEN (epoch + MaxDelay + 2) % EpochModulus ELSE remote_start

StartEpoch(n) ==
  IF n = P THEN (epoch + StartMargin) % EpochModulus ELSE remote_start

Releases(n) == start_armed[n] /\ epoch = target_epoch[n]

NextReadyStableCount ==
  IF ~subtree_ready(P) THEN 0
  ELSE IF ready_stable_count < ReadyStable THEN ready_stable_count + 1
  ELSE ready_stable_count

NodeEdge ==
  /\ epoch' = (epoch + 1) % EpochModulus
  /\ ready_stable_count' = NextReadyStableCount
  /\ start_armed' = [n \in Node |-> start_armed[n] \/ Arms(n)]
  /\ target_epoch' =
       [n \in Node |-> IF Arms(n) THEN StartEpoch(n) ELSE target_epoch[n]]
  /\ released' = [n \in Node |-> released[n] \/ Releases(n)]
  /\ sticky_fault' =
       [n \in Node |-> sticky_fault[n] \/ (released[n] /\ ~subtree_ready(n))]

-----------------------------------------------------------------------------
(* The control endpoints and the wire. *)

\* control_reset, while the fabric is not in reset.
Down(n) == ~link_ready[n]

CanSend(n) == tx_control[n] = None \/ tx_ready[n]

WantsStart == start_armed[P] /\ ~start_sent

\* Faulty variant: READY is sent when it rises, not when it falls.
SendsRise == last_ready_sent = None
             \/ (subtree_ready(C) /\ last_ready_sent = FALSE)

\* Faulty variant: READY is repeated.
RepeatsReady == TRUE

WantsReady == last_ready_sent = None \/ subtree_ready(C) # last_ready_sent

Wants(n) == IF n = P THEN WantsStart ELSE WantsReady

Loads(n) == ~Down(n) /\ Wants(n) /\ CanSend(n)

Word(n) ==
  [kind |-> IF n = P THEN "START" ELSE "READY",
   seq  |-> next_tx_sequence[n],
   value |-> IF n = P THEN target_epoch[P] ELSE subtree_ready(C)]

TransmitEdge ==
  /\ tx_control' = [n \in Node |->
       IF Down(n) THEN None
       ELSE IF Loads(n) THEN Word(n)
       ELSE IF tx_ready[n] THEN None ELSE tx_control[n]]
  /\ next_tx_sequence' = [n \in Node |->
       IF Down(n) THEN 0
       ELSE IF Loads(n) THEN (next_tx_sequence[n] + 1) % SeqModulus
       ELSE next_tx_sequence[n]]
  /\ start_sent' = (~Down(P) /\ start_armed[P] /\ (start_sent \/ Loads(P)))
  /\ last_ready_sent' = IF Down(C) THEN None
                        ELSE IF Loads(C) THEN subtree_ready(C)
                        ELSE last_ready_sent

\* The ends at which a record may, and must, arrive in this cycle.
Due(n, age) == wire[Other(n)] # <<>> /\ Head(wire[Other(n)]).age >= age
Arrivals == {S \in SUBSET Node :
  \A n \in Node : (Due(n, MaxDelay) => n \in S) /\ (n \in S => Due(n, MinDelay))}

Arrived(n) == Head(wire[Other(n)]).word

SequenceError(n) == Arrived(n).seq # expected_rx_sequence[n]

\* rx_control_ready is constant: an endpoint in reset takes records and loses
\* them.  A parent receives READY only, a child START only.
ReceiveEdge(arriving) ==
  /\ expected_rx_sequence' = [n \in Node |->
       IF Down(n) THEN 0
       ELSE IF n \in arriving THEN (Arrived(n).seq + 1) % SeqModulus
       ELSE expected_rx_sequence[n]]
  /\ protocol_error' = [n \in Node |->
       ~Down(n) /\ (protocol_error[n] \/ (n \in arriving /\ SequenceError(n)))]
  /\ remote_subtree_ready' =
       (~Down(P) /\ IF P \in arriving THEN Arrived(P).value
                    ELSE remote_subtree_ready)
  /\ remote_start' =
       IF ~Down(C) /\ C \in arriving THEN Arrived(C).value ELSE None

SendsData(n) == n \in DataEnd /\ global_ready(n)

\* The mux gives control precedence over data and notes an overlap.
MuxEdge ==
  arbitration_error' = [n \in Node |->
    arbitration_error[n] \/ (tx_control[n] # None /\ SendsData(n))]

Aged(w) == [i \in DOMAIN w |-> [w[i] EXCEPT !.age = @ + 1]]

\* What n sent, after the edge.
WireEdge(arriving, accepted) ==
  wire' = [n \in Node |->
    Aged(IF Other(n) \in arriving THEN Tail(wire[n]) ELSE wire[n])
    \o IF n \in accepted THEN <<[word |-> tx_control[n], age |-> 1]>> ELSE <<>>]

-----------------------------------------------------------------------------
(* Clock edges. *)

\* Faulty variant: the records a deframer drops leave no error.
LosesSilently(lost) == TRUE

\* The deframer drops a record with a bad CRC or frame, or that finds the
\* buffer full, and one that comes while block lock is lost.  Each has set the
\* sticky error, which is at the fabric before the record would have been.
Dropped(lost) == \A n \in lost : link_error'[n]

\* Ends at which the board or the link fails in this edge.
Failing == {n \in Node : \/ board_ready[n] /\ ~board_ready'[n]
                         \/ link_error'[n] /\ ~link_error[n]}

\* The inputs after an edge.  Lock is lost by the last of sixteen bad blocks,
\* the first of which left an error, and is back MinRelock cycles later.  Room
\* for the control record is only in doubt when data is sent.
Inputs ==
  /\ reset' \in BOOLEAN
  /\ reset /\ ~reset' => reset_held >= MinReset
  /\ reset_held' = IF ~reset THEN 0
                   ELSE IF reset_held < MinReset THEN reset_held + 1
                   ELSE reset_held
  /\ board_ready' \in [Node -> BOOLEAN]
  /\ link_error' \in IF reset THEN {Both(FALSE)}
                    ELSE {f \in [Node -> BOOLEAN] : \A n \in Node : link_error[n] => f[n]}
  /\ link_ready' \in IF reset THEN {Both(FALSE)}
                    ELSE {f \in [Node -> BOOLEAN] : \A n \in Node :
                            IF link_ready[n] THEN f[n] \/ link_error[n]
                            ELSE f[n] => relock[n] = MinRelock}
  /\ relock' = [n \in Node |-> IF reset THEN MinRelock
                               ELSE IF link_ready[n] THEN 0
                               ELSE IF relock[n] < MinRelock THEN relock[n] + 1
                               ELSE relock[n]]
  /\ falls' = IF reset THEN 0 ELSE falls + Cardinality(Failing)
  /\ falls' <= MaxFalls
  /\ tx_ready' \in {f \in [Node -> BOOLEAN] :
                      \A n \in Node : (n \in DataEnd /\ released'[n]) \/ f[n]}

HistoryEdge ==
  /\ disturbed' = (disturbed \/ ((start_armed[P] \/ RootArms)
                                 /\ \E n \in Node : ~local_ready(n)))
  /\ in_step' = (in_step \/ (Releases(P) /\ Releases(C) /\ ~released[P]))
  /\ unready' = IF subtree_ready(C) \/ Down(C) \/ ~tx_ready[C] THEN 0
                ELSE IF unready < MaxDelay + 2 THEN unready + 1
                ELSE unready

ResetEdge ==
  /\ reset
  /\ epoch' = 0 /\ ready_stable_count' = 0
  /\ start_armed' = Both(FALSE) /\ target_epoch' = Both(0)
  /\ released' = Both(FALSE) /\ sticky_fault' = Both(FALSE)
  /\ remote_subtree_ready' = FALSE /\ remote_start' = None
  /\ tx_control' = Both(None) /\ next_tx_sequence' = Both(0)
  /\ expected_rx_sequence' = Both(0)
  /\ last_ready_sent' = None /\ start_sent' = FALSE
  /\ protocol_error' = Both(FALSE) /\ arbitration_error' = Both(FALSE)
  /\ disturbed' = FALSE /\ in_step' = FALSE /\ unready' = 0
  /\ Inputs
  /\ \E arriving \in Arrivals : WireEdge(arriving, {})

FabricEdge ==
  /\ ~reset
  /\ NodeEdge
  /\ TransmitEdge
  /\ MuxEdge
  /\ HistoryEdge
  /\ Inputs
  /\ \E arriving \in Arrivals : \E lost \in SUBSET arriving :
       /\ Dropped(lost)
       /\ ReceiveEdge(arriving \ lost)
       /\ WireEdge(arriving, {n \in Node : tx_control[n] # None /\ tx_ready[n]})

Init ==
  /\ reset = TRUE /\ reset_held = MinReset
  /\ board_ready = Both(FALSE) /\ link_ready = Both(FALSE)
  /\ relock = Both(MinRelock) /\ link_error = Both(FALSE)
  /\ tx_ready = Both(TRUE) /\ falls = 0
  /\ epoch = 0 /\ ready_stable_count = 0
  /\ start_armed = Both(FALSE) /\ target_epoch = Both(0)
  /\ released = Both(FALSE) /\ sticky_fault = Both(FALSE)
  /\ remote_subtree_ready = FALSE /\ remote_start = None
  /\ tx_control = Both(None) /\ next_tx_sequence = Both(0)
  /\ expected_rx_sequence = Both(0)
  /\ last_ready_sent = None /\ start_sent = FALSE
  /\ protocol_error = Both(FALSE) /\ arbitration_error = Both(FALSE)
  /\ wire = Both(<<>>)
  /\ disturbed = FALSE /\ in_step = FALSE /\ unready = 0

Next == ResetEdge \/ FabricEdge

\* The clock never stops; an edge is always possible.
Fairness == []<><<TRUE>>_vars

Spec == Init /\ [][Next]_vars /\ Fairness

-----------------------------------------------------------------------------
(* Properties *)

\* Types.  The wire never holds more records than cycles of delay.
TypeOK ==
  /\ reset \in BOOLEAN /\ reset_held \in 0..MinReset
  /\ board_ready \in [Node -> BOOLEAN] /\ link_ready \in [Node -> BOOLEAN]
  /\ relock \in [Node -> 0..MinRelock] /\ link_error \in [Node -> BOOLEAN]
  /\ tx_ready \in [Node -> BOOLEAN] /\ falls \in 0..MaxFalls
  /\ epoch \in 0..(EpochModulus - 1) /\ ready_stable_count \in 0..ReadyStable
  /\ start_armed \in [Node -> BOOLEAN] /\ released \in [Node -> BOOLEAN]
  /\ target_epoch \in [Node -> 0..(EpochModulus - 1)]
  /\ sticky_fault \in [Node -> BOOLEAN]
  /\ remote_subtree_ready \in BOOLEAN
  /\ remote_start \in {None} \union 0..(EpochModulus - 1)
  /\ next_tx_sequence \in [Node -> 0..(SeqModulus - 1)]
  /\ expected_rx_sequence \in [Node -> 0..(SeqModulus - 1)]
  /\ last_ready_sent \in {None, TRUE, FALSE} /\ start_sent \in BOOLEAN
  /\ protocol_error \in [Node -> BOOLEAN]
  /\ arbitration_error \in [Node -> BOOLEAN]
  /\ \A n \in Node : Len(wire[n]) <= MaxDelay
  /\ disturbed \in BOOLEAN /\ in_step \in BOOLEAN
  /\ unready \in 0..(MaxDelay + 2)

\* "nodes did not release on the same epoch", over the serial link: as long as
\* both ends stay ready from the decision on, the START word overtakes the
\* epoch it names, whatever the jitter, and both FPGAs are released by the
\* same edge.
ReleaseTogether == ~disturbed => (released[P] <=> released[C])

\* Whatever the links do, a child runs only for a start its root decided:
\* never before the root, and never for another epoch.
ChildFollows ==
  /\ released[C] => released[P]
  /\ start_armed[C] => start_armed[P] /\ target_epoch[C] = target_epoch[P]

\* READY is sent on change only and never repeated, through FIFOs and a link
\* that drops records.  Nevertheless a root does not count a subtree as ready
\* MaxDelay + 2 cycles after the child, with its end up and room to send, was
\* not: the word has arrived, or the error that its loss left has.
StaleReadyBounded == unready >= MaxDelay + 2 => ~subtree_ready(P)

\* "Control is legal only while the runtime data stream is stopped": the mux
\* meets both only after an FPGA lost readiness in the start window.
NoOverlap == (\E n \in Node : arbitration_error[n]) => disturbed

Settled == ~reset /\ \A n \in Node : link_ready[n]

\* "so a descendant failure propagates to the root": if the links are up for
\* good and the transmit FIFO drains, a root does not keep running beside a
\* child that faulted or missed the start, whatever failed and was dropped.
RootNotAlone ==
  <>[]Settled /\ []<>tx_ready[C]
    => <>[](global_ready(P) => global_ready(C) /\ in_step)

\* Both links are up and nothing is pending, waiting or under way.
Quiet ==
  /\ Settled /\ remote_start = None /\ ~WantsStart /\ ~WantsReady
  /\ \A n \in Node : tx_control[n] = None /\ wire[n] = <<>>

\* "nodes did not release on the same epoch", without any proviso: once all is
\* quiet, a root that runs has a child that was released with it, although a
\* START that is lost is not sent again.
RunsInStep == Quiet /\ global_ready(P) /\ subtree_ready(P) => in_step

\* READY(0) of the child, waiting for the mux or under way.
UnreadyUnderWay ==
  \/ tx_control[C] # None /\ tx_control[C].value = FALSE
  \/ \E i \in DOMAIN wire[C] : wire[C][i].word.value = FALSE

\* "so a descendant failure propagates to the root": a child that faults sends
\* READY(0) once, and a loss of lock resets the endpoint that should send it.
\* Nevertheless the fault of a child is at the root or on its way, or has left
\* an error at the child that keeps it from being ready until it is reported.
FaultOnItsWay ==
  sticky_fault[C] =>
    sticky_fault[P] \/ ~subtree_ready(P) \/ UnreadyUnderWay \/ edge_error(C)
=============================================================================
