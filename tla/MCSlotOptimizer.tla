--------------------------- MODULE MCSlotOptimizer ---------------------------
(***************************************************************************)
(* Inputs of the slot optimizer: four hops on two lanes.  In the one-round *)
(* shapes all compete for a lane, or some relay what others sent on the    *)
(* other lane, where the FPGA that relays a value may read it or not; in   *)
(* the two-round shape hops 2 and 3 are sent when the values of 0 and 1    *)
(* have settled.  Every legal schedule that fits the frame is an input,    *)
(* with the order it implies.  In the shorter frame some reorderings are   *)
(* infeasible.                                                             *)
(***************************************************************************)
EXTENDS SlotOptimizer

CONSTANTS Frames, Latencies

Shapes == {
  [lane |-> <<0, 0, 0, 0>>, round |-> <<0, 0, 0, 0>>, parent |-> {}],
  [lane |-> <<0, 0, 0, 1>>, round |-> <<0, 0, 0, 0>>, parent |-> {<<3, 2>>}],
  [lane |-> <<0, 0, 0, 1>>, round |-> <<0, 0, 0, 0>>, parent |-> {<<0, 3>>}],
  [lane |-> <<0, 0, 1, 1>>, round |-> <<0, 0, 0, 0>>,
   parent |-> {<<0, 2>>, <<1, 3>>}],
  [lane |-> <<0, 0, 0, 1>>, round |-> <<0, 0, 1, 1>>, parent |-> {}]}

\* Path 1 is the tight one.  Path 2 is as good as the ratio delay model allows.
Paths == {<<[period |-> 4, required |-> 2, fixed |-> 0, hops |-> <<1>>],
            [period |-> 4, required |-> 5, fixed |-> 1, hops |-> <<0, 2>>]>>,
          <<[period |-> 3, required |-> 3, fixed |-> 1, hops |-> <<>>],
            [period |-> 4, required |-> 4, fixed |-> 0, hops |-> <<1, 3>>],
            [period |-> 3, required |-> 2, fixed |-> 0, hops |-> <<2>>]>>}

\* The hops in the order of round, given slot, identifier.
Order(shape, given, h) == Cardinality({g \in Hop :
  \/ shape.round[g + 1] < shape.round[h + 1]
  \/ /\ shape.round[g + 1] = shape.round[h + 1]
     /\ given[g] < given[h] \/ (given[g] = given[h] /\ g < h)})

Input(shape, frame, latency, paths, given, relays) ==
  LET m == [frame_slots |-> frame, runtime_barrier_slots |-> 1,
            settle_slots |-> 1, max_iterations |-> 2,
            positive_scale |-> 2, negative_scale |-> 1, maximum_period |-> 4,
            hops |-> [h \in Hop |->
              [round |-> shape.round[h + 1], lane |-> shape.lane[h + 1],
               ratio |-> 4, latency |-> latency, release |-> 0,
               priority |-> Order(shape, given, h),
               slot_period |-> 1, base |-> 1, beta |-> 0,
               ratio_delay_model |-> shape.lane[h + 1] = 1 /\ latency = 0]],
            dependencies |-> {[parent |-> e[1], child |-> e[2], delay |-> 1] :
                                e \in shape.parent},
            sinks |-> {[route |-> h, round |-> shape.round[h + 1],
                        hop |-> h] : h \in Hop \ relays},
            paths |-> paths, given |-> given]
  IN  m @@ [planned_round_one_ready |->
              IF \E h \in Hop : shape.round[h + 1] = 1
              THEN RoundStart(m, given, 1) ELSE -1]

MCModels ==
  UNION {
    {m \in {Input(shape, frame, latency, paths, given, relays) :
              frame \in Frames, latency \in Latencies, paths \in Paths,
              given \in [Hop -> 0..(Max(Frames) - 2)],
              relays \in {{}, {e[1] : e \in shape.parent}}} :
       Legal(m, m.given)} : shape \in Shapes}
=============================================================================
