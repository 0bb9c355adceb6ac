---------------------------- MODULE SlotOptimizer ----------------------------
(***************************************************************************)
(* emuflow_tdm_slot_optimizer: given the lane and the TDM ratio of every   *)
(* hop, choose the slot in which it is sent.  build_schedule is a list     *)
(* scheduler driven by a priority per hop; optimize starts from the input  *)
(* priorities and accepts the best reordering of hops around the worst     *)
(* path as long as one is better.  A step is one turn of a loop of the     *)
(* program.  Text I/O, the hash set of occupied cells (a set here) and the *)
(* counters that are only reported are left out.                           *)
(***************************************************************************)
EXTENDS Integers, FiniteSetsExt, SequencesExt, Functions

CONSTANTS
  HopCount,
  Models,               \* the inputs
  None

Hop == 0..(HopCount - 1)

\* The slot at which hop h, sent as sl says, is at the far end of its link.
Arrival(m, sl, h) == sl[h] + m.hops[h].latency

\* What validate_tdm_schedule demands of a schedule (tdm.py).  A round starts
\* settle_slots after the last sink of the earlier rounds has its value.
RoundStart(m, sl, r) ==
  Max({0} \union {Arrival(m, sl, s.hop) + m.settle_slots :
                    s \in {t \in m.sinks : t.round < r}})

SourceReady(m, sl, h) ==
  Max({RoundStart(m, sl, m.hops[h].round), m.hops[h].release} \union
      {Arrival(m, sl, d.parent) + d.delay :
         d \in {e \in m.dependencies : e.child = h}})

Legal(m, sl) ==
  /\ \A h, g \in Hop :
       h # g /\ m.hops[h].lane = m.hops[g].lane => sl[h] # sl[g]
  /\ \A h \in Hop :
       /\ sl[h] >= SourceReady(m, sl, h)
       /\ sl[h] - SourceReady(m, sl, h) < m.hops[h].ratio
       /\ Arrival(m, sl, h) < m.frame_slots - m.runtime_barrier_slots

\* What read_model checks.  Times are integers in a unit small enough for all
\* of them; a domain and a lane of it are one lane here.
ReadOK(m) ==
  /\ m.positive_scale \in Nat \ {0} /\ m.negative_scale \in Nat \ {0}
  /\ m.maximum_period \in Nat \ {0}
  /\ m.frame_slots \in Nat \ {0}
  /\ m.runtime_barrier_slots \in Nat /\ m.settle_slots \in Nat
  /\ m.max_iterations \in Nat
  /\ \A h \in Hop :
       /\ m.hops[h].round \in Nat /\ m.hops[h].lane \in Nat
       /\ m.hops[h].ratio \in Nat \ {0} /\ m.hops[h].latency \in Nat
       /\ m.hops[h].release \in Nat /\ m.hops[h].priority \in Nat
       /\ m.hops[h].slot_period \in Nat \ {0} /\ m.hops[h].base \in Nat
       /\ m.hops[h].beta \in Nat /\ m.hops[h].ratio_delay_model \in BOOLEAN
  /\ \A h, g \in Hop : m.hops[h].priority = m.hops[g].priority => h = g
  /\ \A d \in m.dependencies :
       /\ d.parent \in Hop /\ d.child \in Hop /\ d.parent # d.child
       /\ d.delay \in Nat
       /\ m.hops[d.parent].round = m.hops[d.child].round
  /\ \A d, e \in m.dependencies :
       d.parent = e.parent /\ d.child = e.child => d = e
  /\ IsFiniteSet(m.dependencies) /\ IsFiniteSet(m.sinks)
  /\ m.sinks # {} /\ m.paths # <<>>
  /\ m.paths \in Seq([period : Nat \ {0}, required : Nat \ {0}, fixed : Nat,
                      hops : Seq(Hop)])

\* What _write_native_input writes.  The input is made from a legal schedule,
\* given: it orders the hops by round and slot, and its start of round 1 is
\* the latest the result may have.  Round 0 has a sink, a relay waits a slot
\* or more, and the ratio plan puts no more hops on a lane than the ratio of
\* each (validate_tdm_ratio_plan).
WrittenOK(m) ==
  /\ m.given \in [Hop -> Nat] /\ Legal(m, m.given)
  /\ \A h, g \in Hop :
       \/ m.hops[h].round < m.hops[g].round
       \/ m.hops[h].round = m.hops[g].round /\ m.given[h] < m.given[g]
       => m.hops[h].priority < m.hops[g].priority
  /\ m.planned_round_one_ready =
       IF \E h \in Hop : m.hops[h].round = 1
       THEN RoundStart(m, m.given, 1) ELSE -1
  /\ \A s \in m.sinks : /\ s.route \in Nat /\ s.hop \in Hop
                        /\ s.round = m.hops[s.hop].round
  /\ \E s \in m.sinks : s.round = 0
  /\ \A d \in m.dependencies : d.delay > 0
  /\ \A h \in Hop :
       Cardinality({g \in Hop : m.hops[g].lane = m.hops[h].lane})
         <= m.hops[h].ratio

ASSUME HopAssumption == HopCount \in Nat \ {0}
ASSUME ModelAssumption == \A m \in Models : ReadOK(m) /\ WrittenOK(m)

\* A router makes a route from the paths to its sinks, so no branch ends
\* elsewhere; no check refuses one that does.
ASSUME BranchAssumption ==
  \A m \in Models : \A h \in Hop :
    (\E s \in m.sinks : s.hop = h) \/ (\E d \in m.dependencies : d.parent = h)

ASSUME NoneAssumption == None \notin [slots : [Hop -> Int], ready : [Hop -> Int]]

VARIABLES
  model,                \* the input
  pc,
  priority,             \* the order of the incumbent
  trial,                \* the order build_schedule works with
  round, source_ready,  \* build_schedule: the current round
  slots, ready,         \* build_schedule: result, -1 where not placed
  route_completion,
  incumbent,            \* optimize: result.schedule
  best, best_priority,  \* optimize: best of this iteration
  untried,              \* orders of this iteration not yet built
  iteration

building == <<trial, round, source_ready, slots, ready, route_completion>>
vars == <<model, pc, priority, building, incumbent, best, best_priority,
          untried, iteration>>

-----------------------------------------------------------------------------
(* build_schedule *)

MaximumRound == Max({model.hops[h].round : h \in Hop})
Routes == 0..Max({s.route : s \in model.sinks})
Parents(h) == {d \in model.dependencies : d.child = h}
Placed(h) == slots[h] >= 0

NoSlots == [h \in Hop |-> -1]

\* Start build_schedule with the given order.
Build(order) ==
  /\ trial' = order
  /\ round' = 0 /\ source_ready' = 0
  /\ slots' = NoSlots /\ ready' = NoSlots
  /\ route_completion' = [r \in Routes |-> -1]
  /\ pc' = "round"

\* ready_queue: unplaced hops of the round whose parents are all placed.
ReadyQueue == {h \in Hop :
  /\ model.hops[h].round = round /\ ~Placed(h)
  /\ \A d \in Parents(h) : Placed(d.parent)}

\* Faulty variant: the highest priority number goes first.
IsBottom(h) == \A g \in ReadyQueue : trial[g] <= trial[h]

\* The head of the queue: the lowest priority, then the lowest index.
IsTop(h) == \A g \in ReadyQueue :
  trial[h] < trial[g] \/ (trial[h] = trial[g] /\ h <= g)

ReadySlot(h) ==
  Max({source_ready, model.hops[h].release} \union
      {Arrival(model, slots, d.parent) + d.delay : d \in Parents(h)})

Latest(h) ==
  Min({ReadySlot(h) + model.hops[h].ratio,
       model.frame_slots - model.runtime_barrier_slots
         - model.hops[h].latency})

Occupied(h, s) == \E g \in Hop :
  model.hops[g].lane = model.hops[h].lane /\ slots[g] = s

Free(h) == {s \in ReadySlot(h)..(Latest(h) - 1) : ~Occupied(h, s)}

PriorCompletion ==
  Max({-1} \union {route_completion[s.route] :
                     s \in {t \in model.sinks : t.round < round}})

\* Faulty variant: a round starts when the one before it is complete.
RoundSourceUnsettled == IF round = 0 THEN 0 ELSE PriorCompletion

RoundSource ==
  IF round = 0 THEN 0 ELSE PriorCompletion + model.settle_slots

RoundBlocked ==
  \/ round > 0 /\ PriorCompletion < 0
  \/ /\ round = 1 /\ model.planned_round_one_ready >= 0
     /\ RoundSource > model.planned_round_one_ready

\* build_schedule returns.  The first schedule must be feasible.
Infeasible == pc' = IF incumbent = None THEN "failed" ELSE "next"

StartRound ==
  /\ pc = "round" /\ round <= MaximumRound
  /\ IF RoundBlocked
     THEN Infeasible /\ UNCHANGED source_ready
     ELSE source_ready' = RoundSource /\ pc' = "place"
  /\ UNCHANGED <<model, priority, trial, round, slots, ready,
                 route_completion, incumbent, best, best_priority, untried,
                 iteration>>

PlaceHop ==
  /\ pc = "place"
  /\ \E h \in ReadyQueue :
       /\ IsTop(h)
       /\ IF Free(h) = {}
          THEN Infeasible /\ UNCHANGED <<slots, ready>>
          ELSE /\ slots' = [slots EXCEPT ![h] = Min(Free(h))]
               /\ ready' = [ready EXCEPT ![h] = ReadySlot(h)]
               /\ UNCHANGED pc
  /\ UNCHANGED <<model, priority, trial, round, source_ready,
                 route_completion, incumbent, best, best_priority, untried,
                 iteration>>

\* The queue ran empty.  Hops that wait for each other are never placed.
EndRound ==
  /\ pc = "place" /\ ReadyQueue = {}
  /\ IF \E h \in Hop : model.hops[h].round = round /\ ~Placed(h)
     THEN Infeasible /\ UNCHANGED <<route_completion, round>>
     ELSE /\ route_completion' = [r \in Routes |->
               Max({route_completion[r]} \union
                   {Arrival(model, slots, s.hop) : s \in {t \in model.sinks :
                      t.round = round /\ t.route = r}})]
          /\ round' = round + 1
          /\ pc' = "round"
  /\ UNCHANGED <<model, priority, trial, source_ready, slots, ready,
                 incumbent, best, best_priority, untried, iteration>>

-----------------------------------------------------------------------------
(* What the optimizer compares: the tail of build_schedule, and better.    *)

\* Delay of a path under the slots sl.
PathDelay(m, sl, p) ==
  LET Cross(arrival, h) ==
        LET hop == m.hops[h] IN
        IF hop.ratio_delay_model
        THEN arrival + hop.base + hop.beta * (hop.ratio - 1)
        ELSE Max({arrival, hop.slot_period * sl[h]}) + hop.base
  IN  p.fixed + FoldLeft(Cross, 0, p.hops)

PeriodProduct(m) ==
  FoldFunction(LAMBDA x, y : x * y, 1,
               [i \in DOMAIN m.paths |-> m.paths[i].period])

\* normalized_slack, exact: the quotient times the common denominator
\* positive_scale * maximum_period * negative_scale * PeriodProduct.
NormalizedSlack(m, sl, p) ==
  LET slack == p.required - PathDelay(m, sl, p) IN
  IF slack >= 0
  THEN slack * p.period * m.negative_scale * PeriodProduct(m)
  ELSE slack * m.positive_scale * m.maximum_period
             * (PeriodProduct(m) \div p.period)

Slacks(sl) ==
  [i \in DOMAIN model.paths |-> NormalizedSlack(model, sl, model.paths[i])]
WorstSlack(sl) == Min(Range(Slacks(sl)))
NegativePaths(sl) == {i \in DOMAIN model.paths : Slacks(sl)[i] < 0}
TotalNegativeSlack(sl) == SumFunctionOnSet(Slacks(sl), NegativePaths(sl))
CompletionSlot(sl) == Max({Arrival(model, sl, s.hop) : s \in model.sinks})
TotalWait(s) == SumFunction([h \in Hop |-> s.slots[h] - s.ready[h]])

\* The keys of better, each to be minimised, most significant first.
Keys(s) ==
  <<-WorstSlack(s.slots), -TotalNegativeSlack(s.slots),
    Cardinality(NegativePaths(s.slots)), CompletionSlot(s.slots),
    TotalWait(s)>> \o [i \in 1..HopCount |-> s.slots[i - 1]]

LexLess(a, b) == \E i \in DOMAIN a :
  a[i] < b[i] /\ \A j \in 1..(i - 1) : a[j] = b[j]

\* Faulty variant: the smaller worst slack wins.
BetterWorstPath(s, t) ==
  LET Flip(k) == [k EXCEPT ![1] = -k[1]] IN LexLess(Flip(Keys(s)), Flip(Keys(t)))

Better(s, t) == LexLess(Keys(s), Keys(t))

\* Hops before h on its lane, in its round.
Blockers(sl, h) == {g \in Hop :
  /\ g # h
  /\ model.hops[g].round = model.hops[h].round
  /\ model.hops[g].lane = model.hops[h].lane
  /\ sl[g] < sl[h]}

\* Paths with a hop that is not the first of its round on its lane.
MovablePaths(sl) == {i \in DOMAIN model.paths :
  \E h \in Range(model.paths[i].hops) : Blockers(sl, h) # {}}

WorstMovablePath(sl) ==
  CHOOSE i \in MovablePaths(sl) : \A j \in MovablePaths(sl) :
    \/ Slacks(sl)[i] < Slacks(sl)[j]
    \/ Slacks(sl)[i] = Slacks(sl)[j] /\ i <= j

-----------------------------------------------------------------------------
(* optimize *)

\* The nearest n blockers of h; slots of a lane are distinct.
NearestBlockers(sl, h, n) == {g \in Blockers(sl, h) :
  Cardinality({k \in Blockers(sl, h) : sl[k] > sl[g]}) < n}

\* The elements of S, sorted.
Sorted(S, Less(_, _)) ==
  [i \in 1..Cardinality(S) |->
     CHOOSE x \in S : Cardinality({y \in S : Less(y, x)}) = i - 1]

\* The hops in the order o.
HopsBy(o) == Sorted(Hop, LAMBDA g, h : o[g] < o[h])

\* The hops of N exchange their priorities in every possible way, in the order
\* of next_permutation.
Reorderings(N) ==
  Sorted(
    {[h \in Hop |-> IF h \in N THEN priority[f[h]] ELSE priority[h]] :
       f \in Bijection(N, N)} \ {priority},
    LAMBDA o, q : LexLess(HopsBy(o), HopsBy(q)))

\* candidates: a hop of the path and its nearest blocker.
SwapPairs(sl, path) ==
  UNION {{<<Min({h, g}), Max({h, g})>> : g \in NearestBlockers(sl, h, 1)} :
           h \in Range(path)}

\* Faulty variant: the hop takes the priority of its blocker, which keeps it.
CopiedPriorities(sl) ==
  LET path == model.paths[WorstMovablePath(sl)].hops
      pairs == Sorted(SwapPairs(sl, path), LexLess)
  IN  [i \in DOMAIN pairs |->
         [priority EXCEPT ![pairs[i][1]] = priority[pairs[i][2]]]]

\* The orders an iteration tries: the swaps, then for every hop of the path the
\* reorderings of it and up to three blockers.
Neighbours(sl) ==
  LET path == model.paths[WorstMovablePath(sl)].hops
      pairs == Sorted(SwapPairs(sl, path), LexLess)
  IN  [i \in DOMAIN pairs |->
         [priority EXCEPT ![pairs[i][1]] = priority[pairs[i][2]],
                          ![pairs[i][2]] = priority[pairs[i][1]]]]
      \o FlattenSeq([i \in DOMAIN path |->
           Reorderings({path[i]} \union NearestBlockers(sl, path[i], 3))])

Candidate == [slots |-> slots, ready |-> ready]

\* build_schedule succeeded.
FirstSchedule ==
  /\ pc = "round" /\ round > MaximumRound /\ incumbent = None
  /\ incumbent' = Candidate
  /\ pc' = "search"
  /\ UNCHANGED <<model, priority, building, best, best_priority, untried,
                 iteration>>

JudgeCandidate ==
  /\ pc = "round" /\ round > MaximumRound /\ incumbent # None
  /\ IF Better(Candidate, best)
     THEN best' = Candidate /\ best_priority' = trial
     ELSE UNCHANGED <<best, best_priority>>
  /\ pc' = "next"
  /\ UNCHANGED <<model, priority, building, incumbent, untried, iteration>>

\* The head of the loop of optimize.
Search ==
  /\ pc = "search"
  /\ iteration < model.max_iterations
  /\ MovablePaths(incumbent.slots) # {}
  /\ iteration' = iteration + 1
  /\ untried' = Neighbours(incumbent.slots)
  /\ best' = incumbent /\ best_priority' = None
  /\ pc' = "next"
  /\ UNCHANGED <<model, priority, building, incumbent>>

TryNext ==
  /\ pc = "next"
  /\ untried # <<>>
  /\ untried' = Tail(untried) /\ Build(Head(untried))
  /\ UNCHANGED <<model, priority, incumbent, best, best_priority, iteration>>

\* Faulty variant: the order of the schedule is not kept with it.
AcceptSlotsOnly ==
  /\ pc = "next" /\ untried = <<>> /\ best_priority # None
  /\ incumbent' = Candidate
  /\ priority' = best_priority
  /\ pc' = "search"
  /\ UNCHANGED <<model, building, best, best_priority, untried, iteration>>

Accept ==
  /\ pc = "next" /\ untried = <<>> /\ best_priority # None
  /\ priority' = best_priority
  /\ incumbent' = best
  /\ pc' = "search"
  /\ UNCHANGED <<model, building, best, best_priority, untried, iteration>>

\* No improvement, nothing to move, or the iterations are used up.
Finish ==
  /\ \/ pc = "next" /\ untried = <<>> /\ best_priority = None
     \/ pc = "search" /\ iteration = model.max_iterations
     \/ pc = "search" /\ MovablePaths(incumbent.slots) = {}
  /\ pc' = "done"
  /\ UNCHANGED <<model, priority, building, incumbent, best, best_priority,
                 untried, iteration>>

Init ==
  /\ model \in Models
  /\ priority = [h \in Hop |-> model.hops[h].priority]
  /\ trial = priority /\ round = 0 /\ source_ready = 0
  /\ slots = NoSlots /\ ready = NoSlots
  /\ route_completion = [r \in Routes |-> -1]
  /\ pc = "round"
  /\ incumbent = None /\ best = None /\ best_priority = None
  /\ untried = <<>> /\ iteration = 0

Next ==
  \/ StartRound \/ PlaceHop \/ EndRound
  \/ FirstSchedule \/ JudgeCandidate
  \/ Search \/ TryNext \/ Accept \/ Finish

Spec == Init /\ [][Next]_vars

-----------------------------------------------------------------------------
(* Properties *)

IsOrder(o) ==
  /\ DOMAIN o = Hop /\ IsInjective(o)
  /\ Range(o) = {model.hops[h].priority : h \in Hop}
SlotMaps == [Hop -> -1..(model.frame_slots - 1)]
Schedules == [slots : SlotMaps, ready : SlotMaps]

\* Types.  An order is a permutation of the input's priorities whatever
\* exchanges the search has made; two hops never share a place in it.
TypeOK ==
  /\ pc \in {"round", "place", "search", "next", "done", "failed"}
  /\ \A o \in {priority, trial} \union Range(untried) : IsOrder(o)
  /\ best_priority = None \/ IsOrder(best_priority)
  /\ round \in 0..(MaximumRound + 1)
  /\ source_ready \in 0..(model.frame_slots + model.settle_slots)
  /\ slots \in SlotMaps /\ ready \in SlotMaps
  /\ route_completion \in [Routes -> -1..(model.frame_slots - 1)]
  /\ incumbent \in Schedules \union {None}
  /\ best \in Schedules \union {None}
  /\ iteration \in 0..model.max_iterations

\* The schedule optimize holds, which is the one it writes when it stops, is
\* legal by the declarative reading of validate_tdm_schedule, although it was
\* built hop by hop under reordered priorities; the ready slots written with
\* it are the ones the validator recomputes, and round 1 is not later than
\* planned.
EmittedLegal ==
  incumbent # None =>
    /\ Legal(model, incumbent.slots)
    /\ incumbent.ready =
         [h \in Hop |-> SourceReady(model, incumbent.slots, h)]
    /\ model.planned_round_one_ready >= 0 =>
         RoundStart(model, incumbent.slots, 1) <= model.planned_round_one_ready

\* optimize keeps the order and the schedule of the incumbent together: every
\* slot a hop waits is taken by a hop of its lane, and a hop with no parent
\* waits only for earlier rounds and for hops before it in the order.  Were the
\* two to come apart the next exchange would start from another schedule.
WaitJustified ==
  incumbent # None =>
    \A h \in Hop : \A s \in incumbent.ready[h]..(incumbent.slots[h] - 1) :
      \E g \in Hop :
        /\ model.hops[g].lane = model.hops[h].lane /\ incumbent.slots[g] = s
        /\ \/ model.hops[g].round < model.hops[h].round
           \/ model.hops[g].round = model.hops[h].round
              /\ (Parents(h) = {} => priority[g] < priority[h])

\* "initial list schedule is infeasible" cannot happen on an input written
\* from a legal schedule: while the input's order is built, no hop is placed
\* later than it was given.
NeverLaterThanGiven ==
  /\ pc # "failed"
  /\ incumbent = None => \A h \in Hop : slots[h] <= model.given[h]

\* A schedule is given up only for one whose worst path is no worse and, when
\* the worst paths are equal, whose total negative slack is no worse.
NeverWorse ==
  [][incumbent # None =>
       \/ WorstSlack(incumbent'.slots) > WorstSlack(incumbent.slots)
       \/ /\ WorstSlack(incumbent'.slots) = WorstSlack(incumbent.slots)
          /\ TotalNegativeSlack(incumbent'.slots)
               >= TotalNegativeSlack(incumbent.slots)]_vars
=============================================================================
