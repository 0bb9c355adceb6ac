--------------------------- MODULE MCFrameRuntime ---------------------------
(***************************************************************************)
(* Three FPGAs in a line, A - B - C.  Signal a is read on B and C, so it   *)
(* crosses B as a relay; b and c are read on A, so c's relay shares the    *)
(* lane from B to A with b.  Two clocks of periods 20 and 30 give the      *)
(* calendar an empty tick.                                                 *)
(***************************************************************************)
EXTENDS FrameRuntime

MCFpga == {"A", "B", "C"}
MCSignal == {"a", "b", "c"}
MCSource == [s \in MCSignal |-> CASE s = "a" -> "A" [] s = "b" -> "B" [] s = "c" -> "C"]
MCReads == [s \in MCSignal |->
  CASE s = "a" -> {"b", "c"} [] s = "b" -> {"a", "b"} [] s = "c" -> {"a"}]
MCClock == {"k1", "k2"}
MCClockOf == [s \in MCSignal |-> IF s = "b" THEN "k2" ELSE "k1"]
MCPeriod == [c \in MCClock |-> IF c = "k1" THEN 20 ELSE 30]

MCChan == {"ab", "bc", "cb", "ba"}
MCChanFrom == [ch \in MCChan |->
  CASE ch = "ab" -> "A" [] ch = "bc" -> "B" [] ch = "cb" -> "C" [] ch = "ba" -> "B"]
MCChanTo == [ch \in MCChan |->
  CASE ch = "ab" -> "B" [] ch = "bc" -> "C" [] ch = "cb" -> "B" [] ch = "ba" -> "A"]
MCChanLatency == [ch \in MCChan |-> CASE ch = "ab" -> 0 [] ch = "bc" -> 1
                                      [] ch = "cb" -> 1 [] ch = "ba" -> 2]

\* a copies b xor c, b counts on a, c delays a.
MCDutNext(s, view) ==
  CASE s = "a" -> (view["b"] + view["c"]) % 2
    [] s = "b" -> (view["b"] + view["a"]) % 2
    [] s = "c" -> 1 - view["a"]

\* Every assignment of slots to the five hops.
MCSchedules ==
  {{[sig |-> "a", chan |-> "ab", slot |-> t[1]],
    [sig |-> "a", chan |-> "bc", slot |-> t[2]],
    [sig |-> "c", chan |-> "cb", slot |-> t[3]],
    [sig |-> "c", chan |-> "ba", slot |-> t[4]],
    [sig |-> "b", chan |-> "ba", slot |-> t[5]]}
   : t \in [1..5 -> 0..(FrameSlots - 1)]}
=============================================================================
