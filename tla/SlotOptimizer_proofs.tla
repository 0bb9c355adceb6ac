------------------------ MODULE SlotOptimizer_proofs ------------------------
(***************************************************************************)
(* What build_schedule makes of any order of the hops: a schedule that     *)
(* breaks no rule of the platform or none at all, and of the order of the  *)
(* given schedule one that is never later than given, so that the first    *)
(* candidate always fits.  Then of the search: the orders it tries are     *)
(* permutations, the order and the schedule it holds belong together, and  *)
(* it never gives up a schedule for a worse one.  The hops, lanes, rounds, *)
(* delays and paths are arbitrary.                                         *)
(***************************************************************************)
EXTENDS SlotOptimizer, FiniteSetTheorems, NatLemmas, TLAPS

-----------------------------------------------------------------------------
(* What an input is.                                                       *)

LEMMA ModelFacts ==
  ASSUME NEW m \in Models
  PROVE  /\ m.frame_slots \in Nat /\ m.runtime_barrier_slots \in Nat
         /\ m.settle_slots \in Nat
         /\ \A h \in Hop :
              /\ m.hops[h].round \in Nat /\ m.hops[h].lane \in Nat
              /\ m.hops[h].ratio \in Nat \ {0} /\ m.hops[h].latency \in Nat
              /\ m.hops[h].release \in Nat /\ m.hops[h].priority \in Nat
         /\ \A d \in m.dependencies :
              /\ d.parent \in Hop /\ d.child \in Hop /\ d.parent # d.child
              /\ d.delay \in Nat /\ d.delay > 0
              /\ m.hops[d.parent].round = m.hops[d.child].round
         /\ \A s \in m.sinks : /\ s.route \in Nat /\ s.hop \in Hop
                               /\ s.round = m.hops[s.hop].round
         /\ \E s \in m.sinks : s.round = 0
         /\ IsFiniteSet(m.dependencies) /\ IsFiniteSet(m.sinks)
  BY ModelAssumption DEF ReadOK, WrittenOK

LEMMA HopFacts == IsFiniteSet(Hop) /\ Hop # {} /\ Hop \in SUBSET Nat
<1>1. HopCount - 1 \in Nat /\ 0 \in Int /\ HopCount - 1 \in Int
  BY HopAssumption
<1>2. IsFiniteSet(Hop)
  BY <1>1, FS_Interval DEF Hop
<1>3. 0 \in Hop /\ Hop \in SUBSET Nat
  BY <1>1 DEF Hop
<1>4. QED
  BY <1>2, <1>3

\* The largest of some integers and of the values of a function.
LEMMA MaxOver ==
  ASSUME NEW B \in SUBSET Int, IsFiniteSet(B), B # {},
         NEW D, IsFiniteSet(D), NEW f \in [D -> Int]
  PROVE  LET x == Max(B \union {f[d] : d \in D})
         IN  /\ x \in Int
             /\ x \in B \/ \E d \in D : x = f[d]
             /\ \A y \in B : y <= x
             /\ \A d \in D : f[d] <= x
<1> DEFINE S == B \union {f[d] : d \in D}
<1>1. IsFiniteSet({f[d] : d \in D})
  BY FiniteRange
<1>2. IsFiniteSet(S) /\ S \in SUBSET Int /\ S # {}
  BY <1>1, FS_Union
<1>3. Max(S) \in S /\ Max(S) \in Int /\ \A y \in S : y <= Max(S)
  <2> HIDE DEF S
  <2>1. QED
    BY <1>2, MaxFact
<1>4. QED
  BY <1>3

LEMMA ArrivalType ==
  ASSUME NEW m \in Models, NEW sl \in [Hop -> Int], NEW h \in Hop
  PROVE  /\ Arrival(m, sl, h) \in Int /\ sl[h] <= Arrival(m, sl, h)
         /\ Arrival(m, sl, h) = sl[h] + m.hops[h].latency
  BY ModelFacts DEF Arrival

LEMMA RoundStartFact ==
  ASSUME NEW m \in Models, NEW sl \in [Hop -> Int], NEW r \in Nat
  PROVE  /\ RoundStart(m, sl, r) \in Nat
         /\ \A s \in m.sinks : s.round < r
              => Arrival(m, sl, s.hop) + m.settle_slots <= RoundStart(m, sl, r)
         /\ \/ RoundStart(m, sl, r) = 0
            \/ \E s \in m.sinks : /\ s.round < r
                 /\ RoundStart(m, sl, r) = Arrival(m, sl, s.hop) + m.settle_slots
<1> DEFINE B == {0}
           D == {t \in m.sinks : t.round < r}
           f == [s \in D |-> Arrival(m, sl, s.hop) + m.settle_slots]
<1>1. IsFiniteSet(D)
  BY ModelFacts, FS_Subset
<1>2. f \in [D -> Int]
  <2>1. \A s \in D : s.hop \in Hop /\ m.settle_slots \in Int
    BY ModelFacts
  <2>2. \A s \in D : Arrival(m, sl, s.hop) + m.settle_slots \in Int
    BY <2>1, ArrivalType
  <2>3. QED
    BY <2>2
<1>3. B \in SUBSET Int /\ IsFiniteSet(B) /\ B # {}
  BY FS_Singleton
<1>4. RoundStart(m, sl, r) = Max(B \union {f[d] : d \in D})
  <2>1. {f[d] : d \in D} = {Arrival(m, sl, s.hop) + m.settle_slots : s \in D}
    OBVIOUS
  <2>2. QED
    BY <2>1 DEF RoundStart
<1>5. LET x == RoundStart(m, sl, r)
      IN  /\ x \in Int
          /\ x \in B \/ \E d \in D : x = f[d]
          /\ \A y \in B : y <= x
          /\ \A d \in D : f[d] <= x
  <2> HIDE DEF D, f, B
  <2>1. QED
    BY <1>1, <1>2, <1>3, <1>4, MaxOver
<1>6. RoundStart(m, sl, r) \in Nat
  BY <1>5
<1>7. \A s \in m.sinks : s.round < r
        => Arrival(m, sl, s.hop) + m.settle_slots <= RoundStart(m, sl, r)
  <2>1. \A s \in m.sinks : s.round < r => s \in D
    OBVIOUS
  <2>2. \A s \in D : f[s] = Arrival(m, sl, s.hop) + m.settle_slots
    OBVIOUS
  <2> HIDE DEF D, f, B
  <2>3. QED
    BY <1>5, <2>1, <2>2
<1>8. \/ RoundStart(m, sl, r) = 0
      \/ \E s \in m.sinks : /\ s.round < r
           /\ RoundStart(m, sl, r) = Arrival(m, sl, s.hop) + m.settle_slots
  BY <1>5, Zenon
<1>9. QED
  BY <1>6, <1>7, <1>8

LEMMA SourceReadyFact ==
  ASSUME NEW m \in Models, NEW sl \in [Hop -> Int], NEW h \in Hop
  PROVE  LET x == SourceReady(m, sl, h)
             R == RoundStart(m, sl, m.hops[h].round)
         IN  /\ x \in Nat /\ R <= x /\ m.hops[h].release <= x
             /\ \A d \in m.dependencies : d.child = h
                  => Arrival(m, sl, d.parent) + d.delay <= x
             /\ \/ x = R \/ x = m.hops[h].release
                \/ \E d \in m.dependencies :
                     d.child = h /\ x = Arrival(m, sl, d.parent) + d.delay
<1> DEFINE R == RoundStart(m, sl, m.hops[h].round)
           B == {R, m.hops[h].release}
           D == {e \in m.dependencies : e.child = h}
           f == [d \in D |-> Arrival(m, sl, d.parent) + d.delay]
<1>1. IsFiniteSet(D)
  BY ModelFacts, FS_Subset
<1>2. f \in [D -> Int]
  <2>1. \A d \in D : d.parent \in Hop /\ d.delay \in Int
    BY ModelFacts
  <2>2. \A d \in D : Arrival(m, sl, d.parent) + d.delay \in Int
    BY <2>1, ArrivalType
  <2>3. QED
    BY <2>2
<1>3. R \in Nat /\ m.hops[h].release \in Nat
  BY ModelFacts, RoundStartFact
<1>4. B \in SUBSET Int /\ IsFiniteSet(B) /\ B # {}
  <2>1. B = {R} \union {m.hops[h].release}
    OBVIOUS
  <2>2. IsFiniteSet(B)
    <3>1. \A x : IsFiniteSet({x})
      BY FS_Singleton
    <3>2. IsFiniteSet({R} \union {m.hops[h].release})
      BY <3>1, FS_Union
    <3>3. QED
      BY <2>1, <3>2
  <2>3. QED
    BY <1>3, <2>2
<1>5. SourceReady(m, sl, h) = Max(B \union {f[d] : d \in D})
  <2>1. {f[d] : d \in D} = {Arrival(m, sl, d.parent) + d.delay : d \in D}
    OBVIOUS
  <2>2. QED
    BY <2>1 DEF SourceReady
<1>6. LET x == SourceReady(m, sl, h)
      IN  /\ x \in Int
          /\ x \in B \/ \E d \in D : x = f[d]
          /\ \A y \in B : y <= x
          /\ \A d \in D : f[d] <= x
  <2> HIDE DEF D, f, B
  <2>1. QED
    BY <1>1, <1>2, <1>4, <1>5, MaxOver
<1>7. R <= SourceReady(m, sl, h) /\ SourceReady(m, sl, h) \in Nat
  BY <1>3, <1>6
<1>8. \A d \in m.dependencies : d.child = h
        => Arrival(m, sl, d.parent) + d.delay <= SourceReady(m, sl, h)
  BY <1>6
<1>9. QED
  BY <1>6, <1>7, <1>8

\* What a hop waits for depends on the hops of the earlier rounds and on its
\* parents only.
LEMMA RoundStartSame ==
  ASSUME NEW m \in Models, NEW sl, NEW sm, NEW r \in Nat,
         \A g \in Hop : m.hops[g].round < r => sl[g] = sm[g]
  PROVE  RoundStart(m, sl, r) = RoundStart(m, sm, r)
<1> DEFINE D == {t \in m.sinks : t.round < r}
<1>1. \A s \in D : s.hop \in Hop /\ m.hops[s.hop].round < r
  BY ModelFacts
<1>2. \A s \in D : Arrival(m, sl, s.hop) + m.settle_slots
                     = Arrival(m, sm, s.hop) + m.settle_slots
  BY <1>1 DEF Arrival
<1>3. {Arrival(m, sl, s.hop) + m.settle_slots : s \in D}
        = {Arrival(m, sm, s.hop) + m.settle_slots : s \in D}
  BY <1>2
<1>4. QED
  BY <1>3 DEF RoundStart

LEMMA SourceReadySame ==
  ASSUME NEW m \in Models, NEW sl, NEW sm, NEW h \in Hop,
         \A g \in Hop : m.hops[g].round < m.hops[h].round => sl[g] = sm[g],
         \A d \in m.dependencies : d.child = h => sl[d.parent] = sm[d.parent]
  PROVE  SourceReady(m, sl, h) = SourceReady(m, sm, h)
<1> DEFINE D == {e \in m.dependencies : e.child = h}
<1>1. \A d \in D : Arrival(m, sl, d.parent) + d.delay
                     = Arrival(m, sm, d.parent) + d.delay
  BY DEF Arrival
<1>2. {Arrival(m, sl, d.parent) + d.delay : d \in D}
        = {Arrival(m, sm, d.parent) + d.delay : d \in D}
  BY <1>1
<1>3. RoundStart(m, sl, m.hops[h].round) = RoundStart(m, sm, m.hops[h].round)
  BY ModelFacts, RoundStartSame
<1>4. QED
  BY <1>2, <1>3 DEF SourceReady

-----------------------------------------------------------------------------
(* What build_schedule has done so far.                                    *)

BuildType ==
  /\ slots \in [Hop -> Int] /\ ready \in [Hop -> Int]
  /\ \A h \in Hop : slots[h] >= -1
  /\ round \in Nat
  /\ route_completion \in [Routes -> Int]

\* Rounds are completed one after the other, and parents are placed first.
RoundInv ==
  /\ \A h \in Hop : model.hops[h].round < round => Placed(h)
  /\ \A h \in Hop : Placed(h) => \/ model.hops[h].round < round
                                 \/ pc = "place" /\ model.hops[h].round = round
  /\ \A d \in model.dependencies : Placed(d.child) => Placed(d.parent)

\* A placed hop is in a slot the validator accepts, and its ready slot is the
\* one the validator will compute from the complete schedule.
SlotInv ==
  /\ \A h \in Hop : Placed(h) =>
       /\ ready[h] = SourceReady(model, slots, h)
       /\ ready[h] <= slots[h] /\ slots[h] - ready[h] < model.hops[h].ratio
       /\ Arrival(model, slots, h) < model.frame_slots - model.runtime_barrier_slots
  /\ \A g, h \in Hop :
       g # h /\ model.hops[g].lane = model.hops[h].lane /\ Placed(g) /\ Placed(h)
         => slots[g] # slots[h]

\* route_completion is the last arrival of the completed rounds.
CompletionInv ==
  /\ \A s \in model.sinks : s.round < round
       => Arrival(model, slots, s.hop) <= route_completion[s.route]
  /\ \A r \in Routes :
       \/ route_completion[r] = -1
       \/ \E s \in model.sinks : /\ s.round < round
                                 /\ route_completion[r] = Arrival(model, slots, s.hop)

\* A round starts when the validator says so, round 1 not later than planned.
SourceInv ==
  /\ pc = "place" => source_ready = RoundStart(model, slots, round)
  /\ /\ round > 1 \/ (pc = "place" /\ round = 1)
     /\ model.planned_round_one_ready >= 0
     => RoundStart(model, slots, 1) <= model.planned_round_one_ready

BuildInv == BuildType /\ RoundInv /\ SlotInv /\ CompletionInv /\ SourceInv

Building == pc \in {"round", "place"}

\* What the optimizer promises of a complete schedule.
Emitted(s) ==
  /\ Legal(model, s.slots)
  /\ s.ready = [h \in Hop |-> SourceReady(model, s.slots, h)]
  /\ model.planned_round_one_ready >= 0 =>
       RoundStart(model, s.slots, 1) <= model.planned_round_one_ready

LegalInv ==
  /\ model \in Models
  /\ Building => BuildInv
  /\ incumbent # None => Emitted(incumbent)
  /\ best_priority # None => Emitted(best)

LEMMA RoutesFact ==
  ASSUME model \in Models
  PROVE  \A s \in model.sinks : s.route \in Routes
<1> DEFINE f == [s \in model.sinks |-> s.route]
           T == {s.route : s \in model.sinks}
<1>1. {f[s] : s \in model.sinks} = T
  OBVIOUS
<1>2. IsFiniteSet(T)
  <2>1. IsFiniteSet({f[s] : s \in model.sinks})
    <3> HIDE DEF f
    <3>1. QED
      BY ModelFacts, FiniteRange
  <2>2. QED
    BY <1>1, <2>1
<1>3. T \in SUBSET Nat /\ T # {}
  BY ModelFacts
<1>4. Max(T) \in Int /\ \A y \in T : y <= Max(T)
  <2>1. T \in SUBSET Int
    BY <1>3
  <2> HIDE DEF T
  <2>2. QED
    BY <1>2, <1>3, <2>1, MaxFact
<1>5. \A s \in model.sinks : s.route \in T
  OBVIOUS
<1>6. Routes = 0..Max(T)
  BY DEF Routes
<1> HIDE DEF T
<1>7. \A s \in model.sinks : s.route \in Nat /\ s.route <= Max(T)
  BY <1>3, <1>4, <1>5
<1>8. QED
  BY <1>4, <1>6, <1>7

LEMMA MaximumRoundFact ==
  ASSUME model \in Models
  PROVE  /\ MaximumRound \in Nat
         /\ \A h \in Hop : model.hops[h].round <= MaximumRound
<1> DEFINE f == [h \in Hop |-> model.hops[h].round]
           T == {model.hops[h].round : h \in Hop}
<1>1. {f[h] : h \in Hop} = T
  OBVIOUS
<1>2. IsFiniteSet(T)
  <2>1. IsFiniteSet({f[h] : h \in Hop})
    <3> HIDE DEF f
    <3>1. QED
      BY HopFacts, FiniteRange
  <2>2. QED
    BY <1>1, <2>1
<1>3. T \in SUBSET Nat /\ T # {}
  BY ModelFacts, HopFacts
<1>4. Max(T) \in T /\ \A y \in T : y <= Max(T)
  <2>1. T \in SUBSET Int
    BY <1>3
  <2> HIDE DEF T
  <2>2. QED
    BY <1>2, <1>3, <2>1, MaxFact
<1>5. \A h \in Hop : model.hops[h].round \in T
  OBVIOUS
<1>6. MaximumRound = Max(T)
  BY DEF MaximumRound
<1> HIDE DEF T
<1>7. QED
  BY <1>3, <1>4, <1>5, <1>6

\* The start of round 1 is planned if there is a round 1.
LEMMA PlannedType ==
  ASSUME NEW m \in Models
  PROVE  /\ m.planned_round_one_ready \in Int
         /\ m.planned_round_one_ready >= 0 =>
              /\ \E h \in Hop : m.hops[h].round = 1
              /\ m.planned_round_one_ready = RoundStart(m, m.given, 1)
<1>1. m.given \in [Hop -> Int]
  BY ModelAssumption DEF WrittenOK
<1>2. RoundStart(m, m.given, 1) \in Nat
  BY <1>1, RoundStartFact
<1>3. m.planned_round_one_ready = IF \E h \in Hop : m.hops[h].round = 1
                                  THEN RoundStart(m, m.given, 1) ELSE -1
  BY ModelAssumption DEF WrittenOK
<1>4. QED
  BY <1>2, <1>3

\* The completion that build_schedule remembers gives the start of the round.
LEMMA PriorFact ==
  ASSUME model \in Models, BuildInv, round > 0
  PROVE  /\ PriorCompletion \in Nat
         /\ PriorCompletion + model.settle_slots = RoundStart(model, slots, round)
<1> USE DEF BuildInv, BuildType
<1> DEFINE B == {-1}
           D == {t \in model.sinks : t.round < round}
           f == [s \in D |-> route_completion[s.route]]
           x == PriorCompletion
           R == RoundStart(model, slots, round)
<1>1. IsFiniteSet(D)
  BY ModelFacts, FS_Subset
<1>2. \A s \in D : s.route \in Routes /\ s.hop \in Hop /\ s.round = model.hops[s.hop].round
  BY RoutesFact, ModelFacts
<1>3. f \in [D -> Int]
  BY <1>2
<1>4. B \in SUBSET Int /\ IsFiniteSet(B) /\ B # {}
  <2>1. \A y : IsFiniteSet({y})
    BY FS_Singleton
  <2>2. IsFiniteSet(B)
    BY <2>1, Zenon
  <2>3. QED
    BY <2>2
<1>5. x = Max(B \union {f[d] : d \in D})
  <2>1. {f[d] : d \in D} = {route_completion[s.route] : s \in D}
    OBVIOUS
  <2>2. QED
    BY <2>1 DEF PriorCompletion
<1>6. /\ x \in Int
      /\ x \in B \/ \E d \in D : x = f[d]
      /\ \A d \in D : f[d] <= x
  <2> HIDE DEF D, f, B, x
  <2>1. QED
    BY <1>1, <1>3, <1>4, <1>5, MaxOver
<1>7. \A s \in D : f[s] = route_completion[s.route] /\ f[s] \in Int
  BY <1>3
<1>8. \A s \in D : /\ Arrival(model, slots, s.hop) <= f[s]
                   /\ Arrival(model, slots, s.hop) \in Nat
  <2>1. ASSUME NEW s \in D
        PROVE  /\ Arrival(model, slots, s.hop) <= f[s]
               /\ Arrival(model, slots, s.hop) \in Nat
    <3>1. slots[s.hop] >= 0 /\ slots[s.hop] \in Int
      BY <1>2 DEF RoundInv, Placed
    <3>2. /\ Arrival(model, slots, s.hop) \in Int
          /\ slots[s.hop] <= Arrival(model, slots, s.hop)
      BY <1>2, ArrivalType
    <3>3. Arrival(model, slots, s.hop) <= f[s]
      BY DEF CompletionInv
    <3>4. QED
      BY <3>1, <3>2, <3>3
  <2>2. QED
    BY <2>1
<1>9. PICK z \in D : TRUE
  BY ModelFacts
<1>10. /\ \A s \in D : Arrival(model, slots, s.hop) <= x
       /\ x >= 0
  <2>1. \A s \in D : f[s] \in Int /\ f[s] <= x /\ x \in Int
    BY <1>6, <1>7
  <2> HIDE DEF D, f, x
  <2>2. \A s \in D : Arrival(model, slots, s.hop) <= x
    BY <1>8, <2>1
  <2>3. QED
    BY <1>6, <1>8, <1>9, <2>2
<1>11. PICK s \in D : x = Arrival(model, slots, s.hop)
  <2>1. PICK d \in D : x = f[d]
    BY <1>6, <1>10
  <2>2. x = route_completion[d.route] /\ d.route \in Routes /\ x # -1
    BY <1>2, <1>7, <1>10, <2>1
  <2>3. QED
    BY <2>2 DEF CompletionInv
<1>12. model.settle_slots \in Nat /\ R \in Nat
  BY ModelFacts, RoundStartFact
<1>13. x + model.settle_slots <= R
  BY <1>11, RoundStartFact
<1>14. R <= x + model.settle_slots
  <2>1. CASE R = 0
    BY <1>6, <1>10, <1>12, <2>1
  <2>2. CASE \E t \in model.sinks : /\ t.round < round
               /\ R = Arrival(model, slots, t.hop) + model.settle_slots
    <3>1. PICK t \in D : R = Arrival(model, slots, t.hop) + model.settle_slots
      BY <2>2
    <3>2. Arrival(model, slots, t.hop) <= x /\ Arrival(model, slots, t.hop) \in Nat
      BY <1>8, <1>10
    <3>3. QED
      BY <1>6, <1>12, <3>1, <3>2
  <2>3. QED
    BY <2>1, <2>2, RoundStartFact
<1>15. QED
  BY <1>6, <1>10, <1>12, <1>13, <1>14

-----------------------------------------------------------------------------
(* build_schedule, action by action.                                       *)

LEMMA MinOfTwo ==
  ASSUME NEW a \in Int, NEW b \in Int
  PROVE  /\ Min({a, b}) \in {a, b} /\ Min({a, b}) \in Int
         /\ Min({a, b}) <= a /\ Min({a, b}) <= b
<1> DEFINE S == {a, b}
<1>1. S \in SUBSET Int
  OBVIOUS
<1>2. CASE a <= b
  <2>1. a \in S /\ \A y \in S : a <= y
    BY <1>2
  <2>2. Min(S) = a
    BY <1>1, <2>1, MinIs
  <2>3. QED
    BY <1>2, <2>2
<1>3. CASE b <= a
  <2>1. b \in S /\ \A y \in S : b <= y
    BY <1>3
  <2>2. Min(S) = b
    BY <1>1, <2>1, MinIs
  <2>3. QED
    BY <1>3, <2>2
<1>4. QED
  BY <1>2, <1>3

\* What a hop waits for when it is at the head of the queue.
LEMMA ReadySlotFact ==
  ASSUME model \in Models, BuildInv, pc = "place", NEW h \in ReadyQueue
  PROVE  /\ h \in Hop /\ ~Placed(h) /\ model.hops[h].round = round
         /\ ReadySlot(h) = SourceReady(model, slots, h) /\ ReadySlot(h) \in Nat
         /\ \A d \in model.dependencies : d.child = h => Placed(d.parent)
<1>1. /\ h \in Hop /\ ~Placed(h) /\ model.hops[h].round = round
      /\ \A d \in model.dependencies : d.child = h => Placed(d.parent)
  BY DEF ReadyQueue, Parents
<1>2. ReadySlot(h) = SourceReady(model, slots, h)
  BY <1>1 DEF ReadySlot, SourceReady, Parents, BuildInv, SourceInv
<1>3. ReadySlot(h) \in Nat
  BY <1>1, <1>2, SourceReadyFact DEF BuildInv, BuildType
<1>4. QED
  BY <1>1, <1>2, <1>3

\* The slot it gets is the first one of its window in which its lane is free.
LEMMA FirstFree ==
  ASSUME model \in Models, BuildInv, pc = "place", NEW h \in ReadyQueue,
         Free(h) # {}
  PROVE  LET q == Min(Free(h))
         IN  /\ q \in Nat /\ ReadySlot(h) <= q
             /\ q - ReadySlot(h) < model.hops[h].ratio
             /\ q + model.hops[h].latency
                  < model.frame_slots - model.runtime_barrier_slots
             /\ \A g \in Hop : model.hops[g].lane = model.hops[h].lane => slots[g] # q
             /\ \A s \in ReadySlot(h)..(q - 1) : Occupied(h, s)
             /\ \A s \in Free(h) : q <= s
<1> DEFINE q == Min(Free(h))
           a == ReadySlot(h)
           b == ReadySlot(h) + model.hops[h].ratio
           c == model.frame_slots - model.runtime_barrier_slots
                  - model.hops[h].latency
<1>1. h \in Hop /\ a \in Nat
  BY ReadySlotFact
<1>2. b \in Int /\ c \in Int
  BY <1>1, ModelFacts
<1>3. Latest(h) \in Int /\ Latest(h) <= b /\ Latest(h) <= c
  <2> HIDE DEF b, c
  <2>1. Latest(h) = Min({b, c})
    BY DEF Latest, b, c
  <2>2. QED
    BY <1>2, <2>1, MinOfTwo
<1>4. Free(h) \in SUBSET Int /\ \A s \in Free(h) : a <= s
  BY <1>1, <1>3 DEF Free
<1>5. q \in Free(h) /\ q \in Int /\ \A s \in Free(h) : q <= s
  BY <1>1, <1>4, MinFact
<1>6. a <= q /\ q <= Latest(h) - 1 /\ ~Occupied(h, q)
  BY <1>1, <1>3, <1>5 DEF Free
<1>7. q - a < model.hops[h].ratio
  BY <1>1, <1>2, <1>3, <1>5, <1>6, ModelFacts
<1>8. q + model.hops[h].latency < model.frame_slots - model.runtime_barrier_slots
  BY <1>1, <1>2, <1>3, <1>5, <1>6, ModelFacts
<1>9. \A g \in Hop : model.hops[g].lane = model.hops[h].lane => slots[g] # q
  BY <1>6 DEF Occupied
<1>10. ASSUME NEW s \in a..(q - 1) PROVE Occupied(h, s)
  <2>1. s \in Int /\ a <= s /\ s < q
    BY <1>1, <1>5
  <2>2. s \in a..(Latest(h) - 1)
    BY <1>1, <1>3, <1>5, <1>6, <2>1
  <2>3. s \notin Free(h)
    BY <1>5, <2>1
  <2>4. QED
    BY <2>2, <2>3 DEF Free
<1>11. q \in Nat
  BY <1>1, <1>5, <1>6
<1>12. QED
  BY <1>5, <1>6, <1>7, <1>8, <1>9, <1>10, <1>11

\* A hop is placed: what that changes.
Places(h) ==
  /\ pc = "place" /\ h \in ReadyQueue /\ IsTop(h) /\ Free(h) # {}
  /\ slots' = [slots EXCEPT ![h] = Min(Free(h))]
  /\ ready' = [ready EXCEPT ![h] = ReadySlot(h)]
  /\ UNCHANGED <<model, pc, priority, trial, round, source_ready,
                 route_completion, incumbent, best, best_priority, untried, iteration>>

LEMMA PlacedAfter ==
  ASSUME model \in Models, BuildInv, NEW h, Places(h)
  PROVE  /\ h \in Hop /\ ~Placed(h) /\ Placed(h)'
         /\ slots' \in [Hop -> Int] /\ ready' \in [Hop -> Int]
         /\ slots'[h] = Min(Free(h)) /\ ready'[h] = ReadySlot(h)
         /\ \A g \in Hop : g # h => /\ slots'[g] = slots[g] /\ ready'[g] = ready[g]
                                    /\ Placed(g)' <=> Placed(g)
<1>1. h \in Hop /\ ~Placed(h) /\ ReadySlot(h) \in Nat
  BY ReadySlotFact DEF Places
<1>2. Min(Free(h)) \in Nat
  BY FirstFree DEF Places
<1>3. /\ slots' \in [Hop -> Int] /\ ready' \in [Hop -> Int]
      /\ slots'[h] = Min(Free(h)) /\ ready'[h] = ReadySlot(h)
      /\ \A g \in Hop : g # h => slots'[g] = slots[g] /\ ready'[g] = ready[g]
  BY <1>1, <1>2 DEF Places, BuildInv, BuildType
<1>4. QED
  BY <1>1, <1>2, <1>3 DEF Placed

\* Nothing that a placed hop waits for changes.
LEMMA PlacedKeepsReady ==
  ASSUME model \in Models, BuildInv, NEW h, Places(h)
  PROVE  /\ \A g \in Hop : Placed(g) \/ g = h
              => SourceReady(model, slots', g) = SourceReady(model, slots, g)
         /\ \A r \in Nat : r <= round
              => RoundStart(model, slots', r) = RoundStart(model, slots, r)
<1>1. /\ h \in Hop /\ ~Placed(h) /\ model.hops[h].round = round
      /\ \A d \in model.dependencies : d.child = h => Placed(d.parent)
  BY ReadySlotFact DEF Places
<1>2. \A g \in Hop : g # h => slots'[g] = slots[g]
  BY PlacedAfter
<1>3. \A g \in Hop : model.hops[g].round < round => slots'[g] = slots[g]
  <2>1. ~(round < round)
    BY DEF BuildInv, BuildType
  <2>2. QED
    BY <1>1, <1>2, <2>1
<1>4. ASSUME NEW g \in Hop, Placed(g) \/ g = h
      PROVE  SourceReady(model, slots', g) = SourceReady(model, slots, g)
  <2>1. model.hops[g].round <= round /\ model.hops[g].round \in Nat /\ round \in Nat
    BY <1>1, <1>4, ModelFacts DEF BuildInv, BuildType, RoundInv
  <2>2. \A k \in Hop : model.hops[k].round < model.hops[g].round => slots'[k] = slots[k]
    BY <1>3, <2>1, ModelFacts
  <2>3. \A d \in model.dependencies : d.child = g => d.parent \in Hop /\ Placed(d.parent)
    BY <1>1, <1>4, ModelFacts DEF BuildInv, RoundInv
  <2>4. \A d \in model.dependencies : d.child = g => slots'[d.parent] = slots[d.parent]
    BY <1>1, <1>2, <2>3
  <2>5. QED
    BY <2>2, <2>4, SourceReadySame
<1>5. ASSUME NEW r \in Nat, r <= round
      PROVE  RoundStart(model, slots', r) = RoundStart(model, slots, r)
  <2>1. \A k \in Hop : model.hops[k].round < r => slots'[k] = slots[k]
    BY <1>3, <1>5, ModelFacts DEF BuildInv, BuildType
  <2>2. QED
    BY <2>1, RoundStartSame
<1>6. QED
  BY <1>4, <1>5

LEMMA PlaceBuilds ==
  ASSUME model \in Models, BuildInv, NEW h, Places(h)
  PROVE  BuildInv'
<1> DEFINE q == Min(Free(h))
<1>1. /\ h \in Hop /\ ~Placed(h) /\ Placed(h)'
      /\ slots' \in [Hop -> Int] /\ ready' \in [Hop -> Int]
      /\ slots'[h] = q /\ ready'[h] = ReadySlot(h)
      /\ \A g \in Hop : g # h => /\ slots'[g] = slots[g] /\ ready'[g] = ready[g]
                                 /\ Placed(g)' <=> Placed(g)
  BY PlacedAfter
<1>2. /\ model' = model /\ pc' = "place" /\ pc = "place" /\ round' = round
      /\ source_ready' = source_ready /\ route_completion' = route_completion
  BY DEF Places
<1>3. /\ q \in Nat /\ ReadySlot(h) <= q /\ q - ReadySlot(h) < model.hops[h].ratio
      /\ q + model.hops[h].latency < model.frame_slots - model.runtime_barrier_slots
      /\ \A g \in Hop : model.hops[g].lane = model.hops[h].lane => slots[g] # q
  BY FirstFree DEF Places
<1>4. /\ model.hops[h].round = round /\ ReadySlot(h) = SourceReady(model, slots, h)
      /\ \A d \in model.dependencies : d.child = h => Placed(d.parent)
  BY ReadySlotFact DEF Places
<1>5. BuildType'
  <2>1. \A g \in Hop : slots'[g] >= -1
    BY <1>1, <1>3 DEF BuildInv, BuildType
  <2>2. Routes' = Routes
    BY <1>2 DEF Routes
  <2>3. QED
    BY <1>1, <1>2, <2>1, <2>2 DEF BuildInv, BuildType
<1>6. RoundInv'
  <2>1. \A g \in Hop : model.hops[g].round < round => Placed(g)'
    BY <1>1 DEF BuildInv, RoundInv
  <2>2. \A g \in Hop : Placed(g)' => \/ model.hops[g].round < round
                                     \/ model.hops[g].round = round
    BY <1>1, <1>4 DEF BuildInv, RoundInv
  <2>3. ASSUME NEW d \in model.dependencies, slots'[d.child] >= 0
        PROVE  slots'[d.parent] >= 0
    <3>1. d.parent \in Hop /\ d.child \in Hop
      BY ModelFacts
    <3>2. d.child = h \/ Placed(d.child)
      BY <1>1, <2>3, <3>1 DEF Placed
    <3>3. Placed(d.parent)
      BY <1>4, <3>2 DEF BuildInv, RoundInv
    <3>4. QED
      BY <1>1, <3>1, <3>3 DEF Placed
  <2>4. QED
    BY <1>2, <2>1, <2>2, <2>3 DEF RoundInv, Placed
<1>7. SlotInv'
  <2>1. ASSUME NEW g \in Hop, Placed(g)'
        PROVE  /\ ready'[g] = SourceReady(model, slots', g)
               /\ ready'[g] <= slots'[g]
               /\ slots'[g] - ready'[g] < model.hops[g].ratio
               /\ Arrival(model, slots', g)
                    < model.frame_slots - model.runtime_barrier_slots
    <3>1. CASE g = h
      <4>1. SourceReady(model, slots', h) = SourceReady(model, slots, h)
        BY <1>1, PlacedKeepsReady
      <4>2. QED
        BY <1>1, <1>3, <1>4, <3>1, <4>1 DEF Arrival
    <3>2. CASE g # h
      <4>1. Placed(g) /\ slots'[g] = slots[g] /\ ready'[g] = ready[g]
        BY <1>1, <2>1, <3>2
      <4>2. SourceReady(model, slots', g) = SourceReady(model, slots, g)
        BY <4>1, PlacedKeepsReady
      <4>3. Arrival(model, slots', g) = Arrival(model, slots, g)
        BY <4>1 DEF Arrival
      <4>4. QED
        BY <4>1, <4>2, <4>3 DEF BuildInv, SlotInv
    <3>3. QED
      BY <3>1, <3>2
  <2>2. ASSUME NEW f \in Hop, NEW g \in Hop, f # g,
               model.hops[f].lane = model.hops[g].lane, Placed(f)', Placed(g)'
        PROVE  slots'[f] # slots'[g]
    <3>1. CASE f = h
      BY <1>1, <1>3, <2>2, <3>1
    <3>2. CASE g = h
      BY <1>1, <1>3, <2>2, <3>2
    <3>3. CASE f # h /\ g # h
      BY <1>1, <2>2, <3>3 DEF BuildInv, SlotInv
    <3>4. QED
      BY <3>1, <3>2, <3>3
  <2>3. QED
    BY <1>2, <2>1, <2>2 DEF SlotInv
<1>8. CompletionInv'
  <2>1. ASSUME NEW s \in model.sinks, s.round < round
        PROVE  Arrival(model, slots', s.hop) = Arrival(model, slots, s.hop)
    <3>1. s.hop \in Hop /\ model.hops[s.hop].round < round
      BY <2>1, ModelFacts
    <3>2. s.hop # h
      BY <1>1, <3>1 DEF BuildInv, RoundInv
    <3>3. QED
      BY <1>1, <3>1, <3>2 DEF Arrival
  <2>2. Routes' = Routes
    BY <1>2 DEF Routes
  <2>3. \A s \in model.sinks : s.round < round
          => Arrival(model, slots', s.hop) <= route_completion[s.route]
    BY <2>1 DEF BuildInv, CompletionInv
  <2>4. ASSUME NEW r \in Routes, route_completion[r] # -1
        PROVE  \E s \in model.sinks : /\ s.round < round
                 /\ route_completion[r] = Arrival(model, slots', s.hop)
    BY <2>1, <2>4 DEF BuildInv, CompletionInv
  <2>5. QED
    BY <1>2, <2>2, <2>3, <2>4 DEF CompletionInv
<1>9. SourceInv'
  <2>1. round \in Nat
    BY DEF BuildInv, BuildType
  <2>2. RoundStart(model, slots', round) = RoundStart(model, slots, round)
    BY <2>1, PlacedKeepsReady
  <2>3. round >= 1 => RoundStart(model, slots', 1) = RoundStart(model, slots, 1)
    BY <2>1, PlacedKeepsReady
  <2>4. QED
    BY <1>2, <2>1, <2>2, <2>3 DEF BuildInv, SourceInv
<1>10. QED
  BY <1>5, <1>6, <1>7, <1>8, <1>9 DEF BuildInv

LEMMA StartBuilds ==
  ASSUME model \in Models, BuildInv, StartRound, pc' \in {"round", "place"}
  PROVE  BuildInv'
<1>1. /\ ~RoundBlocked /\ source_ready' = RoundSource /\ pc' = "place" /\ pc = "round"
      /\ UNCHANGED <<model, round, slots, ready, route_completion>>
  BY DEF StartRound, Infeasible
<1>2. round \in Nat /\ slots \in [Hop -> Int]
  BY DEF BuildInv, BuildType
<1>3. RoundSource = RoundStart(model, slots, round)
  <2>1. CASE round = 0
    <3>1. \A s \in model.sinks : ~(s.round < 0)
      BY ModelFacts
    <3>2. RoundStart(model, slots, 0) = 0
      BY <1>2, <3>1, RoundStartFact
    <3>3. QED
      BY <2>1, <3>2 DEF RoundSource
  <2>2. CASE round # 0
    <3>1. round > 0
      BY <1>2, <2>2
    <3>2. QED
      BY <2>2, <3>1, PriorFact DEF RoundSource
  <2>3. QED
    BY <2>1, <2>2
<1>4. round = 1 /\ model.planned_round_one_ready >= 0
        => ~(RoundSource > model.planned_round_one_ready)
  BY <1>1 DEF RoundBlocked
<1>5. BuildType' /\ SlotInv' /\ CompletionInv'
  BY <1>1 DEF BuildInv, BuildType, SlotInv, CompletionInv, Routes, Placed
<1>6. RoundInv'
  BY <1>1 DEF BuildInv, RoundInv, Placed
<1>7. SourceInv'
  <2>1. source_ready' = RoundStart(model, slots, round)
    BY <1>1, <1>3
  <2>2. ASSUME round > 1 \/ round = 1, model.planned_round_one_ready >= 0
        PROVE  RoundStart(model, slots, 1) <= model.planned_round_one_ready
    <3>1. CASE round > 1
      BY <2>2, <3>1 DEF BuildInv, SourceInv
    <3>2. CASE round = 1
      <4>1. model.planned_round_one_ready \in Int
        BY PlannedType
      <4>2. RoundStart(model, slots, 1) \in Nat
        BY <1>2, RoundStartFact
      <4>3. QED
        BY <1>3, <1>4, <2>2, <3>2, <4>1, <4>2
    <3>3. QED
      BY <2>2, <3>1, <3>2
  <2>3. QED
    BY <1>1, <2>1, <2>2 DEF SourceInv
<1>8. QED
  BY <1>5, <1>6, <1>7 DEF BuildInv

\* The new completion of a route.
LEMMA CompletionFact ==
  ASSUME model \in Models, BuildInv, NEW r \in Routes
  PROVE  LET D == {t \in model.sinks : t.round = round /\ t.route = r}
             x == Max({route_completion[r]} \union {Arrival(model, slots, s.hop) : s \in D})
         IN  /\ x \in Int
             /\ x = route_completion[r] \/ \E d \in D : x = Arrival(model, slots, d.hop)
             /\ route_completion[r] <= x
             /\ \A d \in D : Arrival(model, slots, d.hop) <= x
<1> DEFINE B == {route_completion[r]}
           D == {t \in model.sinks : t.round = round /\ t.route = r}
           f == [s \in D |-> Arrival(model, slots, s.hop)]
           x == Max(B \union {f[d] : d \in D})
<1>1. B \in SUBSET Int /\ IsFiniteSet(B) /\ B # {}
  <2>1. \A y : IsFiniteSet({y})
    BY FS_Singleton
  <2>2. QED
    BY <2>1 DEF BuildInv, BuildType
<1>2. IsFiniteSet(D)
  BY ModelFacts, FS_Subset
<1>3. f \in [D -> Int]
  <2>1. \A s \in D : s.hop \in Hop
    BY ModelFacts
  <2>2. \A s \in D : Arrival(model, slots, s.hop) \in Int
    BY <2>1, ArrivalType DEF BuildInv, BuildType
  <2>3. QED
    BY <2>2
<1>4. /\ x \in Int
      /\ x \in B \/ \E d \in D : x = f[d]
      /\ \A y \in B : y <= x
      /\ \A d \in D : f[d] <= x
  <2> HIDE DEF B, D, f
  <2>1. QED
    BY <1>1, <1>2, <1>3, MaxOver
<1>5. {f[d] : d \in D} = {Arrival(model, slots, s.hop) : s \in D}
  OBVIOUS
<1>6. \A d \in D : f[d] = Arrival(model, slots, d.hop)
  OBVIOUS
<1> DEFINE y == Max({route_completion[r]} \union {Arrival(model, slots, s.hop) : s \in D})
<1>7. y = x
  BY <1>5
<1> HIDE DEF f, x, D, y
<1>8. /\ y \in Int /\ (y = route_completion[r] \/ \E d \in D : y = Arrival(model, slots, d.hop))
      /\ route_completion[r] <= y /\ \A d \in D : Arrival(model, slots, d.hop) <= y
  BY <1>4, <1>6, <1>7
<1>9. QED
  BY <1>8 DEF y, D

LEMMA EndBuilds ==
  ASSUME model \in Models, BuildInv, EndRound, pc' \in {"round", "place"}
  PROVE  BuildInv'
<1> DEFINE C(r) == Max({route_completion[r]} \union
                       {Arrival(model, slots, s.hop) : s \in {t \in model.sinks :
                          t.round = round /\ t.route = r}})
<1>1. /\ \A h \in Hop : model.hops[h].round = round => Placed(h)
      /\ route_completion' = [r \in Routes |-> C(r)]
      /\ round' = round + 1 /\ pc = "place" /\ pc' = "round"
      /\ UNCHANGED <<model, slots, ready>>
  BY DEF EndRound, Infeasible
<1>2. round \in Nat /\ round' \in Nat /\ slots \in [Hop -> Int]
  BY <1>1 DEF BuildInv, BuildType
<1>3. \A r \in Routes :
        /\ C(r) \in Int
        /\ \/ C(r) = route_completion[r]
           \/ \E d \in model.sinks : /\ d.round = round /\ d.route = r
                                     /\ C(r) = Arrival(model, slots, d.hop)
        /\ route_completion[r] <= C(r)
        /\ \A d \in model.sinks : d.round = round /\ d.route = r
             => Arrival(model, slots, d.hop) <= C(r)
  BY CompletionFact
<1> HIDE DEF C
<1>4. BuildType'
  <2>1. Routes' = Routes
    BY <1>1 DEF Routes
  <2>2. QED
    BY <1>1, <1>2, <1>3, <2>1 DEF BuildInv, BuildType
<1>5. RoundInv'
  <2>0. \A h \in Hop : model.hops[h].round < round + 1
          <=> model.hops[h].round < round \/ model.hops[h].round = round
    <3>1. \A h \in Hop : model.hops[h].round \in Nat
      BY ModelFacts
    <3>2. \A a, b \in Nat : a < b + 1 <=> a < b \/ a = b
      OBVIOUS
    <3>3. QED
      BY <1>2, <3>1, <3>2
  <2>1. \A h \in Hop : model.hops[h].round < round + 1 => Placed(h)
    BY <1>1, <2>0 DEF BuildInv, RoundInv
  <2>2. \A h \in Hop : Placed(h) => model.hops[h].round < round + 1
    BY <2>0 DEF BuildInv, RoundInv
  <2>3. QED
    BY <1>1, <2>1, <2>2 DEF BuildInv, RoundInv, Placed
<1>6. SlotInv'
  BY <1>1 DEF BuildInv, SlotInv, Placed
<1>7. CompletionInv'
  <2>1. ASSUME NEW s \in model.sinks, s.round < round + 1
        PROVE  Arrival(model, slots, s.hop) <= C(s.route)
    <3>1. /\ s.route \in Routes /\ s.hop \in Hop /\ s.round \in Nat
          /\ Arrival(model, slots, s.hop) \in Int
      BY <1>2, RoutesFact, ModelFacts, ArrivalType
    <3>2. CASE s.round = round
      BY <1>3, <3>1, <3>2
    <3>3. CASE s.round < round
      <4>1. Arrival(model, slots, s.hop) <= route_completion[s.route]
        BY <3>3 DEF BuildInv, CompletionInv
      <4>2. route_completion[s.route] \in Int
        BY <3>1 DEF BuildInv, BuildType
      <4>3. QED
        BY <1>3, <3>1, <4>1, <4>2
    <3>4. QED
      BY <1>2, <2>1, <3>1, <3>2, <3>3
  <2>2. ASSUME NEW r \in Routes
        PROVE  \/ C(r) = -1
               \/ \E s \in model.sinks : /\ s.round < round + 1
                                         /\ C(r) = Arrival(model, slots, s.hop)
    <3>1. CASE C(r) = route_completion[r]
      <4>1. CASE route_completion[r] = -1
        BY <3>1, <4>1
      <4>2. CASE route_completion[r] # -1
        <5>1. PICK s \in model.sinks : s.round < round
                 /\ route_completion[r] = Arrival(model, slots, s.hop)
          BY <4>2 DEF BuildInv, CompletionInv
        <5>2. s.round < round + 1
          BY <1>2, <5>1, ModelFacts
        <5>3. QED
          BY <3>1, <5>1, <5>2
      <4>3. QED
        BY <4>1, <4>2
    <3>2. CASE \E d \in model.sinks : /\ d.round = round
                                      /\ C(r) = Arrival(model, slots, d.hop)
      BY <1>2, <3>2
    <3>3. QED
      BY <1>3, <3>1, <3>2
  <2>3. Routes' = Routes
    BY <1>1 DEF Routes
  <2>4. \A s \in model.sinks : s.round < round + 1
          => Arrival(model, slots, s.hop) <= route_completion'[s.route]
    <3>1. \A s \in model.sinks : route_completion'[s.route] = C(s.route)
      BY <1>1, RoutesFact
    <3>2. QED
      BY <2>1, <3>1
  <2>5. \A r \in Routes : route_completion'[r] = C(r)
    BY <1>1
  <2>6. QED
    BY <1>1, <2>2, <2>3, <2>4, <2>5 DEF CompletionInv
<1>8. SourceInv'
  BY <1>1, <1>2 DEF BuildInv, SourceInv
<1>9. QED
  BY <1>4, <1>5, <1>6, <1>7, <1>8 DEF BuildInv

\* build_schedule starts with nothing placed.
Fresh ==
  /\ model \in Models /\ pc = "round" /\ round = 0 /\ slots = NoSlots /\ ready = NoSlots
  /\ route_completion = [r \in Routes |-> -1]

LEMMA NothingPlaced == Fresh => BuildInv
<1> SUFFICES ASSUME Fresh PROVE BuildInv
  OBVIOUS
<1> USE DEF Fresh
<1>1. BuildType
  BY DEF BuildType, NoSlots
<1>2. \A h \in Hop : ~Placed(h)
  BY DEF Placed, NoSlots
<1>3. RoundInv
  <2>1. \A h \in Hop : ~(model.hops[h].round < 0)
    BY ModelFacts
  <2>2. \A d \in model.dependencies : ~Placed(d.child)
    BY <1>2, ModelFacts
  <2>3. QED
    BY <1>2, <2>1, <2>2 DEF RoundInv
<1>4. SlotInv
  BY <1>2 DEF SlotInv
<1>5. CompletionInv
  <2>1. \A s \in model.sinks : ~(s.round < 0)
    BY ModelFacts
  <2>2. QED
    BY <2>1 DEF CompletionInv
<1>6. SourceInv
  BY DEF SourceInv
<1>7. QED
  BY <1>1, <1>3, <1>4, <1>5, <1>6 DEF BuildInv

\* When all rounds are complete the schedule is what the optimizer promises.
LEMMA CompleteIsLegal ==
  ASSUME model \in Models, BuildInv, pc = "round", round > MaximumRound
  PROVE  Emitted(Candidate)
<1>1. round \in Nat /\ slots \in [Hop -> Int] /\ ready \in [Hop -> Int]
  BY DEF BuildInv, BuildType
<1>2. \A h \in Hop : Placed(h)
  <2>1. \A h \in Hop : model.hops[h].round < round
    BY <1>1, MaximumRoundFact, ModelFacts
  <2>2. QED
    BY <2>1 DEF BuildInv, RoundInv
<1>3. Candidate.slots = slots /\ Candidate.ready = ready
  BY DEF Candidate
<1>4. Legal(model, slots)
  <2>1. \A h \in Hop :
          /\ ready[h] = SourceReady(model, slots, h)
          /\ ready[h] <= slots[h] /\ slots[h] - ready[h] < model.hops[h].ratio
          /\ Arrival(model, slots, h) < model.frame_slots - model.runtime_barrier_slots
          /\ ready[h] \in Int /\ slots[h] \in Int
    BY <1>1, <1>2 DEF BuildInv, SlotInv
  <2>2. \A g, h \in Hop : g # h /\ model.hops[g].lane = model.hops[h].lane
          => slots[g] # slots[h]
    BY <1>2 DEF BuildInv, SlotInv
  <2>3. QED
    BY <2>1, <2>2 DEF Legal
<1>5. ready = [h \in Hop |-> SourceReady(model, slots, h)]
  BY <1>1, <1>2 DEF BuildInv, SlotInv
<1>6. model.planned_round_one_ready >= 0 =>
        RoundStart(model, slots, 1) <= model.planned_round_one_ready
  <2> SUFFICES ASSUME model.planned_round_one_ready >= 0
               PROVE  RoundStart(model, slots, 1) <= model.planned_round_one_ready
    OBVIOUS
  <2>1. PICK h \in Hop : model.hops[h].round = 1
    BY PlannedType
  <2>2. round > 1
    BY <1>1, <2>1, MaximumRoundFact
  <2>3. QED
    BY <2>2 DEF BuildInv, SourceInv
<1>7. QED
  BY <1>3, <1>4, <1>5, <1>6 DEF Emitted

LEMMA InitLegal == Init => LegalInv
<1> SUFFICES ASSUME Init PROVE LegalInv
  OBVIOUS
<1>1. BuildInv
  BY NothingPlaced DEF Init, Fresh
<1>2. QED
  BY <1>1 DEF Init, LegalInv

LEMMA SameEmitted ==
  ASSUME model' = model, NEW s, Emitted(s)
  PROVE  Emitted(s)'
  BY DEF Emitted

LEMMA StepLegal == LegalInv /\ [Next]_vars => LegalInv'
<1> SUFFICES ASSUME LegalInv, [Next]_vars PROVE LegalInv'
  OBVIOUS
<1> USE DEF LegalInv, Building
<1>1. CASE StartRound
  <2>1. /\ UNCHANGED <<model, incumbent, best, best_priority>>
        /\ pc = "round" /\ BuildInv
    BY <1>1 DEF StartRound
  <2>2. Building' => BuildInv'
    BY <1>1, <2>1, StartBuilds
  <2>3. QED
    BY <2>1, <2>2 DEF Emitted
<1>2. CASE PlaceHop
  <2>1. /\ UNCHANGED <<model, incumbent, best, best_priority>>
        /\ pc = "place" /\ BuildInv
    BY <1>2 DEF PlaceHop
  <2>2. ASSUME Building' PROVE BuildInv'
    <3>1. PICK h \in ReadyQueue : Places(h)
      BY <1>2, <2>1, <2>2 DEF PlaceHop, Infeasible, Places
    <3>2. QED
      BY <2>1, <3>1, PlaceBuilds
  <2>3. QED
    BY <2>1, <2>2 DEF Emitted
<1>3. CASE EndRound
  <2>1. /\ UNCHANGED <<model, incumbent, best, best_priority>>
        /\ pc = "place" /\ BuildInv
    BY <1>3 DEF EndRound
  <2>2. Building' => BuildInv'
    BY <1>3, <2>1, EndBuilds
  <2>3. QED
    BY <2>1, <2>2 DEF Emitted
<1>4. CASE FirstSchedule
  <2>1. Emitted(Candidate)
    BY <1>4, CompleteIsLegal DEF FirstSchedule
  <2>2. QED
    BY <1>4, <2>1 DEF FirstSchedule, Emitted
<1>5. CASE JudgeCandidate
  <2>1. Emitted(Candidate)
    BY <1>5, CompleteIsLegal DEF JudgeCandidate
  <2>2. QED
    BY <1>5, <2>1 DEF JudgeCandidate, Emitted
<1>6. CASE Search
  BY <1>6 DEF Search, Emitted
<1>7. CASE TryNext
  <2>1. /\ UNCHANGED <<model, incumbent, best, best_priority>>
        /\ pc' = "round" /\ round' = 0 /\ slots' = NoSlots /\ ready' = NoSlots
        /\ route_completion' = [r \in Routes |-> -1]
    BY <1>7 DEF TryNext, Build
  <2>2. Fresh'
    BY <2>1 DEF Fresh, NoSlots, Routes
  <2>3. BuildInv'
    BY <2>2, NothingPlaced, PTL
  <2>4. QED
    BY <2>1, <2>3 DEF Emitted
<1>8. CASE Accept
  BY <1>8 DEF Accept, Emitted
<1>9. CASE Finish
  BY <1>9 DEF Finish, Emitted
<1>10. CASE UNCHANGED vars
  <2>1. UNCHANGED <<model, pc, incumbent, best, best_priority, slots, ready, round,
                    source_ready, route_completion>>
    BY <1>10 DEF vars, building
  <2>2. BuildInv => BuildInv'
    BY <2>1 DEF BuildInv, BuildType, RoundInv, SlotInv, CompletionInv, SourceInv,
               Routes, Placed
  <2>3. QED
    BY <2>1, <2>2 DEF Emitted
<1>11. QED
  BY <1>1, <1>2, <1>3, <1>4, <1>5, <1>6, <1>7, <1>8, <1>9, <1>10 DEF Next

\* For every input made from a legal schedule, whatever number of hops, lanes,
\* rounds and iterations, the schedule that optimize holds and finally writes
\* is one that validate_tdm_schedule accepts, with the ready slots it computes.
THEOREM ScheduleIsLegal == Spec => []EmittedLegal
<1>1. LegalInv => EmittedLegal
  BY DEF LegalInv, EmittedLegal, Emitted
<1>2. QED
  BY <1>1, InitLegal, StepLegal, PTL DEF Spec

-----------------------------------------------------------------------------
(* The given schedule.                                                     *)

LEMMA GivenFacts ==
  ASSUME NEW m \in Models
  PROVE  /\ m.given \in [Hop -> Nat] /\ m.given \in [Hop -> Int]
         /\ \A h, g \in Hop :
              h # g /\ m.hops[h].lane = m.hops[g].lane => m.given[h] # m.given[g]
         /\ \A h \in Hop :
              /\ SourceReady(m, m.given, h) <= m.given[h]
              /\ m.given[h] + m.hops[h].latency
                   < m.frame_slots - m.runtime_barrier_slots
         /\ \A h, g \in Hop : m.hops[h].round = m.hops[g].round /\ m.given[h] < m.given[g]
              => m.hops[h].priority < m.hops[g].priority
         /\ \A h, g \in Hop : m.hops[h].priority = m.hops[g].priority => h = g
         /\ \A h \in Hop : Cardinality({g \in Hop : m.hops[g].lane = m.hops[h].lane})
                             <= m.hops[h].ratio
<1>1. m.given \in [Hop -> Nat] /\ Legal(m, m.given)
  BY ModelAssumption DEF WrittenOK
<1>2. \A h, g \in Hop : m.hops[h].round = m.hops[g].round /\ m.given[h] < m.given[g]
        => m.hops[h].priority < m.hops[g].priority
  BY ModelAssumption DEF WrittenOK
<1>3. \A h, g \in Hop : m.hops[h].priority = m.hops[g].priority => h = g
  BY ModelAssumption DEF ReadOK
<1>4. \A h \in Hop : Cardinality({g \in Hop : m.hops[g].lane = m.hops[h].lane})
                       <= m.hops[h].ratio
  BY ModelAssumption DEF WrittenOK
<1>5. \A h, g \in Hop :
        h # g /\ m.hops[h].lane = m.hops[g].lane => m.given[h] # m.given[g]
  BY <1>1 DEF Legal
<1>6. ASSUME NEW h \in Hop
      PROVE  /\ SourceReady(m, m.given, h) <= m.given[h]
             /\ m.given[h] + m.hops[h].latency
                  < m.frame_slots - m.runtime_barrier_slots
  <2>1. /\ m.given[h] >= SourceReady(m, m.given, h)
        /\ Arrival(m, m.given, h) < m.frame_slots - m.runtime_barrier_slots
    BY <1>1 DEF Legal
  <2>2. m.given \in [Hop -> Int]
    BY <1>1
  <2>3. SourceReady(m, m.given, h) \in Nat
    BY <2>2, SourceReadyFact
  <2>4. QED
    BY <1>1, <2>1, <2>3 DEF Arrival
<1>7. m.given \in [Hop -> Int]
  BY <1>1
<1>8. QED
  BY <1>1, <1>2, <1>3, <1>4, <1>5, <1>6, <1>7

\* A parent is sent before its child, and has the lower priority number.
LEMMA ParentFirst ==
  ASSUME NEW m \in Models, NEW d \in m.dependencies
  PROVE  /\ m.given[d.parent] < m.given[d.child]
         /\ m.hops[d.parent].priority < m.hops[d.child].priority
<1>1. /\ d.parent \in Hop /\ d.child \in Hop /\ d.delay \in Nat /\ d.delay > 0
      /\ m.hops[d.parent].round = m.hops[d.child].round
  BY ModelFacts
<1>2. m.given \in [Hop -> Int] /\ m.given \in [Hop -> Nat]
  BY GivenFacts
<1>3. /\ Arrival(m, m.given, d.parent) + d.delay <= SourceReady(m, m.given, d.child)
      /\ SourceReady(m, m.given, d.child) \in Nat
  BY <1>1, <1>2, SourceReadyFact
<1>4. SourceReady(m, m.given, d.child) <= m.given[d.child]
  BY <1>1, GivenFacts
<1>5. /\ m.given[d.parent] <= Arrival(m, m.given, d.parent)
      /\ Arrival(m, m.given, d.parent) \in Int
  BY <1>1, <1>2, ArrivalType
<1>6. m.given[d.parent] < m.given[d.child]
  BY <1>1, <1>2, <1>3, <1>4, <1>5
<1>7. QED
  BY <1>1, <1>6, GivenFacts

\* Some sink of a round is sent no earlier than a given hop of it: the last
\* hop of the round has no child, so it ends at a sink.
LEMMA SinkAfter ==
  ASSUME NEW m \in Models, NEW g \in Hop
  PROVE  \E s \in m.sinks : /\ s.round = m.hops[g].round
                            /\ m.given[g] <= m.given[s.hop]
<1> DEFINE K == {k \in Hop : m.hops[k].round = m.hops[g].round}
           T == {m.given[k] : k \in K}
<1>1. m.given \in [Hop -> Nat]
  BY GivenFacts
<1>2. IsFiniteSet(K)
  BY HopFacts, FS_Subset
<1>3. IsFiniteSet(T) /\ T \in SUBSET Int /\ T # {}
  BY <1>1, <1>2, FiniteRange
<1>4. PICK t \in T : \A u \in T : u <= t
  <2> HIDE DEF T
  <2>1. QED
    BY <1>3, FiniteMax
<1>5. PICK k \in K : t = m.given[k]
  BY <1>4
<1>6. \A j \in K : m.given[j] <= m.given[k]
  BY <1>4, <1>5
<1>7. ~ \E d \in m.dependencies : d.parent = k
  <2> SUFFICES ASSUME NEW d \in m.dependencies, d.parent = k PROVE FALSE
    OBVIOUS
  <2>1. m.given[k] < m.given[d.child]
    BY ParentFirst
  <2>2. d.child \in K
    BY <1>5, ModelFacts
  <2>3. QED
    BY <1>1, <1>5, <1>6, <2>1, <2>2
<1>8. PICK s \in m.sinks : s.hop = k
  BY <1>5, <1>7, BranchAssumption
<1>9. s.round = m.hops[g].round
  BY <1>5, <1>8, ModelFacts
<1>10. QED
  BY <1>6, <1>8, <1>9

LEMMA EarlierRoundFirst ==
  ASSUME NEW m \in Models, NEW g \in Hop, NEW h \in Hop,
         m.hops[g].round < m.hops[h].round
  PROVE  m.given[g] <= m.given[h]
<1>1. m.given \in [Hop -> Nat] /\ m.given \in [Hop -> Int]
  BY GivenFacts
<1>2. PICK s \in m.sinks : s.round = m.hops[g].round /\ m.given[g] <= m.given[s.hop]
  BY SinkAfter
<1>3. s.hop \in Hop /\ m.hops[h].round \in Nat /\ m.settle_slots \in Nat
  BY ModelFacts
<1> DEFINE R == RoundStart(m, m.given, m.hops[h].round)
<1>4. R \in Nat /\ Arrival(m, m.given, s.hop) + m.settle_slots <= R
  BY <1>1, <1>2, <1>3, RoundStartFact
<1>5. R <= SourceReady(m, m.given, h) /\ SourceReady(m, m.given, h) \in Nat
  BY <1>1, SourceReadyFact
<1>6. SourceReady(m, m.given, h) <= m.given[h]
  BY GivenFacts
<1>7. /\ m.given[s.hop] <= Arrival(m, m.given, s.hop)
      /\ Arrival(m, m.given, s.hop) \in Int
  BY <1>1, <1>3, ArrivalType
<1> HIDE DEF R
<1>8. m.given[g] \in Nat /\ m.given[h] \in Nat /\ m.given[s.hop] \in Nat
  BY <1>1, <1>3
<1>9. QED
  BY <1>2, <1>3, <1>4, <1>5, <1>6, <1>7, <1>8

\* Sent earlier, nothing makes a hop wait longer.
LEMMA RoundStartMonotone ==
  ASSUME NEW m \in Models, NEW sl \in [Hop -> Int], NEW sm \in [Hop -> Int],
         NEW r \in Nat, \A g \in Hop : sl[g] <= sm[g]
  PROVE  RoundStart(m, sl, r) <= RoundStart(m, sm, r)
<1>1. RoundStart(m, sl, r) \in Nat /\ RoundStart(m, sm, r) \in Nat
  BY RoundStartFact
<1>2. CASE RoundStart(m, sl, r) = 0
  BY <1>1, <1>2
<1>3. CASE \E s \in m.sinks : /\ s.round < r
             /\ RoundStart(m, sl, r) = Arrival(m, sl, s.hop) + m.settle_slots
  <2>1. PICK s \in m.sinks : /\ s.round < r
             /\ RoundStart(m, sl, r) = Arrival(m, sl, s.hop) + m.settle_slots
    BY <1>3
  <2>2. Arrival(m, sm, s.hop) + m.settle_slots <= RoundStart(m, sm, r)
    BY <2>1, RoundStartFact
  <2>3. s.hop \in Hop /\ m.settle_slots \in Nat /\ m.hops[s.hop].latency \in Nat
    BY ModelFacts
  <2>4. sl[s.hop] \in Int /\ sm[s.hop] \in Int /\ sl[s.hop] <= sm[s.hop]
    BY <2>3
  <2>5. QED
    BY <1>1, <2>1, <2>2, <2>3, <2>4 DEF Arrival
<1>4. QED
  BY <1>2, <1>3, RoundStartFact

LEMMA SourceReadyMonotone ==
  ASSUME NEW m \in Models, NEW sl \in [Hop -> Int], NEW sm \in [Hop -> Int],
         NEW h \in Hop, \A g \in Hop : sl[g] <= sm[g]
  PROVE  SourceReady(m, sl, h) <= SourceReady(m, sm, h)
<1> DEFINE x == SourceReady(m, sl, h)
           y == SourceReady(m, sm, h)
           R(s) == RoundStart(m, s, m.hops[h].round)
<1>1. /\ x \in Nat
      /\ \/ x = R(sl) \/ x = m.hops[h].release
         \/ \E d \in m.dependencies :
              d.child = h /\ x = Arrival(m, sl, d.parent) + d.delay
  BY SourceReadyFact
<1>2. /\ y \in Nat /\ R(sm) <= y /\ m.hops[h].release <= y
      /\ \A d \in m.dependencies : d.child = h
           => Arrival(m, sm, d.parent) + d.delay <= y
  BY SourceReadyFact
<1>3. R(sl) <= R(sm) /\ R(sl) \in Nat /\ R(sm) \in Nat
  BY ModelFacts, RoundStartMonotone, RoundStartFact
<1>4. ASSUME NEW d \in m.dependencies, d.child = h, x = Arrival(m, sl, d.parent) + d.delay
      PROVE  x <= y
  <2>1. d.parent \in Hop /\ d.delay \in Nat /\ m.hops[d.parent].latency \in Nat
    BY ModelFacts
  <2>2. sl[d.parent] \in Int /\ sm[d.parent] \in Int /\ sl[d.parent] <= sm[d.parent]
    BY <2>1
  <2>3. Arrival(m, sm, d.parent) + d.delay <= y
    BY <1>2, <1>4
  <2> HIDE DEF x, y
  <2>4. QED
    BY <1>1, <1>2, <1>4, <2>1, <2>2, <2>3 DEF Arrival
<1> HIDE DEF x, y, R
<1>5. x <= y
  BY <1>1, <1>2, <1>3, <1>4
<1>6. QED
  BY <1>5 DEF x, y

-----------------------------------------------------------------------------
(* The first schedule is feasible.                                         *)

\* While the input's order is built: no hop is later than it was given, and
\* the hops of a round are placed in the order of their priorities.
OnTime ==
  /\ Building
  /\ trial = [h \in Hop |-> model.hops[h].priority]
  /\ \A h \in Hop : slots[h] <= model.given[h]
  /\ \A g, h \in Hop :
       model.hops[g].round = model.hops[h].round /\ Placed(g) /\ ~Placed(h)
         => trial[g] < trial[h]

GivenInv ==
  /\ incumbent = None => OnTime
  /\ best_priority # None => best # None

\* The hop of the round with the lowest priority number is ready: its parents
\* have lower numbers and are placed.
LEMMA LowestIsReady ==
  ASSUME model \in Models, BuildInv, OnTime,
         NEW k \in Hop, model.hops[k].round = round, ~Placed(k)
  PROVE  \E j \in ReadyQueue : trial[j] <= trial[k]
<1> DEFINE K == {j \in Hop : model.hops[j].round = round /\ ~Placed(j)}
           T == {trial[j] : j \in K}
<1>1. \A j \in Hop : trial[j] = model.hops[j].priority /\ trial[j] \in Nat
  BY ModelFacts DEF OnTime
<1>2. T \in SUBSET Nat /\ T # {}
  BY <1>1
<1>3. PICK t \in T : \A u \in T : t <= u
  <2> HIDE DEF T
  <2>1. QED
    BY <1>2, LeastNat
<1>4. PICK j \in K : t = trial[j]
  BY <1>3
<1>5. \A i \in K : trial[j] <= trial[i]
  BY <1>3, <1>4
<1>6. ASSUME NEW d \in Parents(j) PROVE Placed(d.parent)
  <2>1. d \in model.dependencies /\ d.child = j
    BY DEF Parents
  <2>2. d.parent \in Hop /\ model.hops[d.parent].round = round
    BY <1>4, <2>1, ModelFacts
  <2>3. trial[d.parent] < trial[j]
    BY <1>1, <1>4, <2>1, <2>2, ParentFirst
  <2>4. ~(trial[j] <= trial[d.parent])
    BY <1>1, <1>4, <2>2, <2>3
  <2>5. d.parent \notin K
    BY <1>5, <2>4
  <2>6. QED
    BY <2>2, <2>5
<1>7. j \in ReadyQueue
  BY <1>4, <1>6 DEF ReadyQueue
<1>8. trial[j] <= trial[k]
  BY <1>5
<1>9. QED
  BY <1>7, <1>8

\* The hops already on the lane of the next one were given earlier slots.
LEMMA LaneBefore ==
  ASSUME model \in Models, BuildInv, OnTime, NEW h \in Hop, ~Placed(h),
         model.hops[h].round = round,
         NEW g \in Hop, model.hops[g].lane = model.hops[h].lane, Placed(g)
  PROVE  model.given[g] < model.given[h]
<1>1. g # h /\ model.given[g] \in Nat /\ model.given[h] \in Nat
  BY GivenFacts
<1>2. model.given[g] # model.given[h]
  BY <1>1, GivenFacts
<1>3. CASE model.hops[g].round < model.hops[h].round
  <2>1. model.given[g] <= model.given[h]
    BY <1>3, EarlierRoundFirst
  <2>2. QED
    BY <1>1, <1>2, <2>1
<1>4. CASE model.hops[g].round = model.hops[h].round
  <2>1. /\ model.hops[g].priority < model.hops[h].priority
        /\ model.hops[g].priority \in Nat /\ model.hops[h].priority \in Nat
    BY <1>4, ModelFacts DEF OnTime
  <2>2. ~(model.given[h] < model.given[g])
    <3>1. model.given[h] < model.given[g]
            => model.hops[h].priority < model.hops[g].priority
      BY <1>4, GivenFacts
    <3>2. QED
      BY <2>1, <3>1
  <2>3. QED
    BY <1>1, <1>2, <2>2
<1>5. QED
  BY <1>3, <1>4 DEF BuildInv, RoundInv

\* A window of ratio slots is too long for the other hops of a lane.
LEMMA WindowHasRoom ==
  ASSUME model \in Models, BuildInv, NEW h \in Hop, ~Placed(h), NEW a \in Nat
  PROVE  \E s \in a..(a + model.hops[h].ratio - 1) : ~Occupied(h, s)
<1> DEFINE n == model.hops[h].ratio
           W == a..(a + n - 1)
           L == {g \in Hop : model.hops[g].lane = model.hops[h].lane}
           M == L \ {h}
<1>1. n \in Nat \ {0}
  BY ModelFacts
<1>2. IsFiniteSet(L) /\ Cardinality(L) <= n /\ Cardinality(L) \in Nat
  <2>1. IsFiniteSet(L)
    BY HopFacts, FS_Subset
  <2>2. QED
    BY <2>1, GivenFacts, FS_CardinalityType
<1>3. IsFiniteSet(M) /\ Cardinality(M) = Cardinality(L) - 1
  BY <1>2, FS_RemoveElement
<1>4. IsFiniteSet(W) /\ Cardinality(W) = n
  <2>1. a \in Int /\ a + n - 1 \in Int /\ ~(a > a + n - 1) /\ (a + n - 1) - a + 1 = n
    BY <1>1
  <2> HIDE DEF n
  <2>2. QED
    BY <2>1, FS_Interval
<1> SUFFICES ASSUME \A s \in W : Occupied(h, s) PROVE FALSE
  OBVIOUS
<1> DEFINE f == [s \in W |-> CHOOSE g \in Hop :
                   model.hops[g].lane = model.hops[h].lane /\ slots[g] = s]
<1>5. ASSUME NEW s \in W PROVE f[s] \in M /\ slots[f[s]] = s
  <2>1. \E g \in Hop : model.hops[g].lane = model.hops[h].lane /\ slots[g] = s
    BY DEF Occupied
  <2>2. f[s] \in L /\ slots[f[s]] = s
    BY <2>1
  <2>3. slots[h] # s
    BY <1>1 DEF Placed
  <2>4. QED
    BY <2>2, <2>3
<1>6. f \in [W -> M]
  BY <1>5
<1>7. Cardinality(M) < Cardinality(W)
  BY <1>1, <1>2, <1>3, <1>4
<1> HIDE DEF W, M, L, n
<1>8. \E s, t \in W : s # t /\ f[s] = f[t]
  <2> HIDE DEF f
  <2>1. QED
    BY <1>3, <1>4, <1>6, <1>7, FS_PigeonHole
<1>9. QED
  BY <1>5, <1>8

\* The next hop has a free slot no later than the one it was given.
LEMMA RoomInTime ==
  ASSUME model \in Models, BuildInv, OnTime, pc = "place", NEW h \in ReadyQueue
  PROVE  Free(h) # {} /\ Min(Free(h)) <= model.given[h]
<1> DEFINE a == ReadySlot(h)
           n == model.hops[h].ratio
           v == model.given[h]
           c == model.frame_slots - model.runtime_barrier_slots - model.hops[h].latency
<1>1. h \in Hop /\ ~Placed(h) /\ model.hops[h].round = round /\ a \in Nat
  BY ReadySlotFact
<1>2. n \in Nat \ {0} /\ v \in Nat /\ c \in Int /\ a + n \in Int
  BY <1>1, ModelFacts, GivenFacts
<1>3. v + 1 <= c
  BY <1>1, <1>2, ModelFacts, GivenFacts
<1>4. a <= v
  <2>1. a = SourceReady(model, slots, h)
    BY ReadySlotFact
  <2>2. SourceReady(model, slots, h) <= SourceReady(model, model.given, h)
    BY <1>1, GivenFacts, SourceReadyMonotone DEF BuildInv, BuildType, OnTime
  <2>3. SourceReady(model, model.given, h) <= v
    BY <1>1, GivenFacts
  <2>4. SourceReady(model, model.given, h) \in Nat
    BY <1>1, GivenFacts, SourceReadyFact
  <2> HIDE DEF v, a
  <2>5. QED
    BY <1>1, <1>2, <2>1, <2>2, <2>3, <2>4
<1>5. Latest(h) = a + n \/ Latest(h) = c
  <2>1. Latest(h) = Min({a + n, c})
    BY DEF Latest
  <2> HIDE DEF a, n, c
  <2>2. QED
    BY <1>2, <2>1, MinOfTwo
<1>6. PICK s \in Int : a <= s /\ s <= v /\ s < a + n /\ ~Occupied(h, s)
  <2>1. CASE v < a + n
    <3>1. ASSUME NEW g \in Hop, model.hops[g].lane = model.hops[h].lane, slots[g] = v
          PROVE  FALSE
      <4>1. Placed(g)
        BY <1>2, <3>1 DEF Placed
      <4>2. model.given[g] < v
        BY <1>1, <3>1, <4>1, LaneBefore
      <4>3. slots[g] <= model.given[g]
        BY DEF OnTime
      <4>4. model.given[g] \in Nat
        BY GivenFacts
      <4> HIDE DEF v
      <4>5. QED
        BY <1>2, <3>1, <4>2, <4>3, <4>4
    <3>2. ~Occupied(h, v)
      BY <3>1 DEF Occupied
    <3>3. QED
      BY <1>2, <1>4, <2>1, <3>2
  <2>2. CASE a + n <= v
    <3>1. PICK s \in a..(a + n - 1) : ~Occupied(h, s)
      BY <1>1, WindowHasRoom
    <3>2. s \in Int /\ a <= s /\ s < a + n
      <4> HIDE DEF a, n
      <4>1. QED
        BY <1>1, <1>2, <3>1
    <3>3. s <= v
      <4> HIDE DEF a, n, v
      <4>1. QED
        BY <1>1, <1>2, <2>2, <3>2
    <3>4. QED
      BY <3>1, <3>2, <3>3
  <2>3. QED
    BY <1>1, <1>2, <2>1, <2>2
<1>7. s \in a..(Latest(h) - 1)
  <2> HIDE DEF a, n, c, v
  <2>1. QED
    BY <1>1, <1>2, <1>3, <1>5, <1>6
<1>8. s \in Free(h)
  BY <1>6, <1>7 DEF Free
<1>9. Min(Free(h)) <= s /\ Min(Free(h)) \in Nat
  BY <1>8, FirstFree
<1>10. QED
  <2> HIDE DEF v
  <2>1. Min(Free(h)) <= v
    BY <1>2, <1>6, <1>9
  <2>2. QED
    BY <1>8, <2>1 DEF v

LEMMA PlaceOnTime ==
  ASSUME model \in Models, BuildInv, OnTime, NEW h, Places(h)
  PROVE  OnTime'
<1>1. /\ h \in Hop /\ ~Placed(h) /\ Placed(h)'
      /\ slots'[h] = Min(Free(h))
      /\ \A g \in Hop : g # h => slots'[g] = slots[g] /\ (Placed(g)' <=> Placed(g))
  BY PlacedAfter
<1>2. /\ model' = model /\ trial' = trial /\ pc' = "place" /\ pc = "place"
      /\ h \in ReadyQueue /\ IsTop(h)
  BY DEF Places
<1>3. Min(Free(h)) <= model.given[h]
  BY <1>2, RoomInTime
<1>4. \A g \in Hop : slots'[g] <= model.given[g]
  BY <1>1, <1>3 DEF OnTime
<1>5. \A j \in Hop : trial[j] = model.hops[j].priority /\ trial[j] \in Nat
  BY ModelFacts DEF OnTime
<1>6. ASSUME NEW g \in Hop, NEW k \in Hop, Placed(g)', ~Placed(k)',
             model.hops[g].round = model.hops[k].round
      PROVE  trial[g] < trial[k]
  <2>1. k # h /\ ~Placed(k)
    BY <1>1, <1>6
  <2>2. CASE g # h
    BY <1>1, <1>6, <2>1, <2>2 DEF OnTime
  <2>3. CASE g = h
    <3>1. model.hops[k].round = round
      BY <1>2, <1>6, <2>3, ReadySlotFact
    <3>2. PICK j \in ReadyQueue : trial[j] <= trial[k]
      BY <2>1, <3>1, LowestIsReady
    <3>3. j \in Hop /\ trial[h] <= trial[j]
      <4>1. j \in Hop
        BY DEF ReadyQueue
      <4>2. trial[h] < trial[j] \/ trial[h] = trial[j]
        BY <1>2, <3>2 DEF IsTop
      <4>3. QED
        BY <1>1, <1>5, <4>1, <4>2
    <3>4. trial[h] # trial[k]
      BY <1>1, <1>5, <2>1, GivenFacts
    <3>5. QED
      BY <1>1, <1>5, <2>3, <3>2, <3>3, <3>4
  <2>4. QED
    BY <2>2, <2>3
<1>7. QED
  BY <1>2, <1>4, <1>6 DEF OnTime, Building

LEMMA CandidateIsOne ==
  ASSUME BuildInv
  PROVE  Candidate # None
<1>1. Candidate \in [slots : [Hop -> Int], ready : [Hop -> Int]]
  BY DEF BuildInv, BuildType, Candidate
<1>2. QED
  BY <1>1, NoneAssumption

FeasibleInv == LegalInv /\ GivenInv /\ pc # "failed"

LEMMA InitFeasible == Init => FeasibleInv
<1> SUFFICES ASSUME Init PROVE FeasibleInv
  OBVIOUS
<1>1. LegalInv
  BY InitLegal
<1>2. model.given \in [Hop -> Nat]
  BY <1>1, GivenFacts DEF LegalInv
<1>3. \A h \in Hop : ~Placed(h) /\ slots[h] <= model.given[h]
  BY <1>2 DEF Init, NoSlots, Placed
<1>4. OnTime
  BY <1>3 DEF Init, OnTime, Building
<1>5. QED
  BY <1>1, <1>4 DEF Init, FeasibleInv, GivenInv

LEMMA StepFeasible == FeasibleInv /\ [Next]_vars => FeasibleInv'
<1> SUFFICES ASSUME FeasibleInv, [Next]_vars PROVE FeasibleInv'
  OBVIOUS
<1>0. LegalInv' /\ model \in Models /\ (Building => BuildInv)
  BY StepLegal DEF FeasibleInv, LegalInv
<1> SUFFICES (GivenInv /\ pc # "failed")'
  BY <1>0 DEF FeasibleInv
<1> USE DEF FeasibleInv, GivenInv
<1>1. CASE StartRound
  <2>1. /\ UNCHANGED <<model, incumbent, best, best_priority, slots, trial>>
        /\ pc = "round" /\ BuildInv /\ pc' \in {"place", "next", "failed"}
    BY <1>0, <1>1 DEF StartRound, Infeasible, Building
  <2>2. CASE incumbent # None
    BY <1>1, <2>1, <2>2 DEF StartRound, Infeasible
  <2>3. CASE incumbent = None
    <3>1. OnTime
      BY <2>3
    <3>2. round \in Nat /\ slots \in [Hop -> Int]
      BY <2>1 DEF BuildInv, BuildType
    <3>3. ~(round > 0 /\ PriorCompletion < 0)
      BY <1>0, <2>1, PriorFact
    <3>4. ASSUME round = 1, model.planned_round_one_ready >= 0
          PROVE  ~(RoundSource > model.planned_round_one_ready)
      <4>1. RoundSource = RoundStart(model, slots, 1)
        BY <1>0, <2>1, <3>4, PriorFact DEF RoundSource
      <4>2. model.planned_round_one_ready = RoundStart(model, model.given, 1)
        BY <1>0, <3>4, PlannedType
      <4>3. RoundStart(model, slots, 1) <= RoundStart(model, model.given, 1)
        BY <1>0, <3>1, <3>2, GivenFacts, RoundStartMonotone DEF OnTime
      <4>4. RoundStart(model, slots, 1) \in Nat /\ RoundStart(model, model.given, 1) \in Nat
        BY <1>0, <3>2, GivenFacts, RoundStartFact
      <4>5. QED
        BY <4>1, <4>2, <4>3, <4>4
    <3>5. ~RoundBlocked
      BY <3>3, <3>4 DEF RoundBlocked
    <3>6. pc' = "place"
      BY <1>1, <3>5 DEF StartRound
    <3>7. QED
      BY <2>1, <3>1, <3>6 DEF OnTime, Building, Placed
  <2>4. QED
    BY <2>2, <2>3
<1>2. CASE PlaceHop
  <2>1. /\ UNCHANGED <<model, incumbent, best, best_priority, trial>>
        /\ pc = "place" /\ BuildInv /\ pc' \in {"place", "next", "failed"}
    BY <1>0, <1>2 DEF PlaceHop, Infeasible, Building
  <2>2. CASE incumbent # None
    BY <1>2, <2>1, <2>2 DEF PlaceHop, Infeasible
  <2>3. CASE incumbent = None
    <3>1. PICK h \in ReadyQueue :
            /\ IsTop(h)
            /\ IF Free(h) = {}
               THEN Infeasible /\ UNCHANGED <<slots, ready>>
               ELSE /\ slots' = [slots EXCEPT ![h] = Min(Free(h))]
                    /\ ready' = [ready EXCEPT ![h] = ReadySlot(h)]
                    /\ UNCHANGED pc
      BY <1>2 DEF PlaceHop
    <3>2. Free(h) # {}
      BY <1>0, <2>1, <2>3, RoomInTime
    <3>3. Places(h)
      BY <1>2, <2>1, <3>1, <3>2 DEF PlaceHop, Places
    <3>4. OnTime'
      BY <1>0, <2>1, <2>3, <3>3, PlaceOnTime
    <3>5. QED
      BY <2>1, <3>3, <3>4 DEF Places
  <2>4. QED
    BY <2>2, <2>3
<1>3. CASE EndRound
  <2>1. /\ UNCHANGED <<model, incumbent, best, best_priority, slots, trial>>
        /\ pc = "place" /\ BuildInv /\ pc' \in {"round", "next", "failed"}
    BY <1>0, <1>3 DEF EndRound, Infeasible, Building
  <2>2. CASE incumbent # None
    BY <1>3, <2>1, <2>2 DEF EndRound, Infeasible
  <2>3. CASE incumbent = None
    <3>1. OnTime /\ ReadyQueue = {}
      BY <1>3, <2>3 DEF EndRound
    <3>2. ~ \E h \in Hop : model.hops[h].round = round /\ ~Placed(h)
      BY <1>0, <2>1, <3>1, LowestIsReady
    <3>3. pc' = "round"
      BY <1>3, <3>2 DEF EndRound
    <3>4. QED
      BY <2>1, <3>1, <3>3 DEF OnTime, Building, Placed
  <2>4. QED
    BY <2>2, <2>3
<1>4. CASE FirstSchedule
  <2>1. Candidate # None
    BY <1>0, <1>4, CandidateIsOne DEF FirstSchedule, Building
  <2>2. QED
    BY <1>4, <2>1 DEF FirstSchedule
<1>5. CASE JudgeCandidate
  <2>1. Candidate # None
    BY <1>0, <1>5, CandidateIsOne DEF JudgeCandidate, Building
  <2>2. QED
    BY <1>5, <2>1 DEF JudgeCandidate
<1>6. CASE Search
  BY <1>6 DEF Search, OnTime, Building
<1>7. CASE TryNext
  BY <1>7 DEF TryNext, Build, OnTime, Building
<1>8. CASE Accept
  BY <1>8 DEF Accept
<1>9. CASE Finish
  BY <1>9 DEF Finish, OnTime, Building
<1>10. CASE UNCHANGED vars
  BY <1>10 DEF vars, building, OnTime, Building, Placed
<1>11. QED
  BY <1>1, <1>2, <1>3, <1>4, <1>5, <1>6, <1>7, <1>8, <1>9, <1>10 DEF Next

\* For every input made from a legal schedule whose routes end in sinks, the
\* list scheduler finds the first schedule ("initial list schedule is
\* infeasible" is never reported), and no hop of it is later than given.
THEOREM FirstIsFeasible == Spec => []NeverLaterThanGiven
<1>1. FeasibleInv => NeverLaterThanGiven
  BY DEF FeasibleInv, GivenInv, OnTime, NeverLaterThanGiven
<1>2. QED
  BY <1>1, InitFeasible, StepFeasible, PTL DEF Spec

-----------------------------------------------------------------------------
(* Folds over finite sets.                                                 *)

\* A fold that keeps to D on the smaller set keeps to D.
LEMMA FoldKeeps ==
  ASSUME NEW S, IsFiniteSet(S), NEW D, NEW it, NEW c,
         it[{}] \in D,
         \A s \in (SUBSET S) \ {{}} :
           c[s] \in s /\ (it[s \ {c[s]}] \in D => it[s] \in D)
  PROVE  \A s \in SUBSET S : it[s] \in D
<1> DEFINE Bad == {n \in Nat : \E s \in SUBSET S :
                                 Cardinality(s) = n /\ it[s] \notin D}
<1>1. ASSUME NEW s \in SUBSET S
      PROVE  IsFiniteSet(s) /\ Cardinality(s) \in Nat
  BY FS_Subset, FS_CardinalityType
<1>2. Bad = {}
  <2> SUFFICES ASSUME Bad # {} PROVE FALSE
    OBVIOUS
  <2>1. PICK n \in Bad : \A m \in Bad : n <= m
    BY LeastNat
  <2>2. PICK s \in SUBSET S : Cardinality(s) = n /\ it[s] \notin D
    BY <2>1
  <2>3. s # {}
    BY <2>2
  <2>4. /\ IsFiniteSet(s \ {c[s]}) /\ s \ {c[s]} \in SUBSET S
        /\ Cardinality(s \ {c[s]}) = n - 1 /\ n \in Nat /\ n - 1 \in Nat
    <3>1. c[s] \in s /\ IsFiniteSet(s)
      BY <1>1, <2>3
    <3>2. IsFiniteSet(s \ {c[s]}) /\ Cardinality(s \ {c[s]}) = n - 1
      BY <2>2, <3>1, FS_RemoveElement
    <3>3. QED
      BY <2>1, <3>2, FS_CardinalityType
  <2>5. it[s \ {c[s]}] \notin D
    BY <2>2, <2>3
  <2>6. n - 1 \in Bad
    BY <2>4, <2>5
  <2>7. QED
    BY <2>1, <2>4, <2>6
<1>3. QED
  BY <1>1, <1>2

\* The fold of G over the subsets of S, which takes element c[s] of s first.
IsFoldOf(it, S, b, c, G) ==
  it = [s \in SUBSET S |-> IF s = {} THEN b ELSE G[c[s]][it[s \ {c[s]}]]]

\* A fold over a finite set exists.
LEMMA FoldExists ==
  ASSUME NEW S, IsFiniteSet(S), NEW D, NEW b \in D, NEW c,
         \A s \in (SUBSET S) \ {{}} : c[s] \in s,
         NEW G \in [S -> [D -> D]]
  PROVE  \E it \in [SUBSET S -> D] : IsFoldOf(it, S, b, c, G)
<1> DEFINE Small(n) == {s \in SUBSET S : Cardinality(s) <= n}
           Fold(it, n) == it = [s \in Small(n) |->
                            IF s = {} THEN b ELSE G[c[s]][it[s \ {c[s]}]]]
           Bad == {n \in Nat : ~\E it \in [Small(n) -> D] : Fold(it, n)}
<1>1. ASSUME NEW s \in SUBSET S
      PROVE  /\ IsFiniteSet(s) /\ Cardinality(s) \in Nat
             /\ Cardinality(s) <= Cardinality(S) /\ Cardinality(S) \in Nat
             /\ Cardinality(s) = 0 <=> s = {}
             /\ s # {} => Cardinality(s \ {c[s]}) = Cardinality(s) - 1
  <2>1. IsFiniteSet(s) /\ Cardinality(s) <= Cardinality(S)
    BY FS_Subset
  <2>2. Cardinality(s) \in Nat /\ Cardinality(S) \in Nat
    BY <2>1, FS_CardinalityType
  <2>3. Cardinality(s) = 0 <=> s = {}
    BY <2>1, FS_EmptySet
  <2>4. s # {} => Cardinality(s \ {c[s]}) = Cardinality(s) - 1
    BY <2>1, FS_RemoveElement
  <2>5. QED
    BY <2>1, <2>2, <2>3, <2>4
<1>2. 0 \notin Bad
  <2> DEFINE it == [s \in Small(0) |-> b]
  <2>1. ASSUME NEW s \in Small(0) PROVE s = {}
    <3>1. s \in SUBSET S /\ Cardinality(s) <= 0 /\ Cardinality(s) \in Nat
      BY <1>1
    <3>2. Cardinality(s) = 0
      BY <3>1
    <3>3. QED
      BY <1>1, <3>1, <3>2, Zenon
  <2>2. \A s \in Small(0) :
          b = IF s = {} THEN b ELSE G[c[s]][it[s \ {c[s]}]]
    BY <2>1, Zenon
  <2>init. it \in [Small(0) -> D] /\ Fold(it, 0)
    BY <2>2, Zenon
  <2>3. QED
    BY <2>init
<1>3. ASSUME NEW n \in Nat, n \notin Bad PROVE n + 1 \notin Bad
  <2>1. PICK f \in [Small(n) -> D] : Fold(f, n)
    BY <1>3
  <2> DEFINE it == [s \in Small(n + 1) |->
                      IF s \in Small(n) THEN f[s] ELSE G[c[s]][f[s \ {c[s]}]]]
  <2>2. ASSUME NEW s \in Small(n + 1), s # {}
        PROVE  c[s] \in S /\ s \ {c[s]} \in Small(n)
    <3>1. s \in SUBSET S /\ Cardinality(s) <= n + 1 /\ Cardinality(s) \in Nat
      BY <1>1
    <3>2. Cardinality(s \ {c[s]}) = Cardinality(s) - 1
      BY <1>1, <2>2
    <3>3. QED
      BY <2>2, <3>1, <3>2
  <2>3. ASSUME NEW s \in Small(n + 1), s \notin Small(n) PROVE s # {}
    <3>1. Cardinality({}) = 0 /\ {} \in SUBSET S
      BY FS_EmptySet
    <3>2. {} \in Small(n)
      BY <3>1
    <3>3. QED
      BY <2>3, <3>2
  <2>4. it \in [Small(n + 1) -> D]
    <3> SUFFICES ASSUME NEW s \in Small(n + 1) PROVE it[s] \in D
      OBVIOUS
    <3>1. CASE s \in Small(n)
      BY <3>1
    <3>2. CASE s \notin Small(n)
      BY <2>2, <2>3, <3>2
    <3>3. QED
      BY <3>1, <3>2
  <2>5. \A s \in Small(n) : s \in Small(n + 1) /\ it[s] = f[s]
    <3> SUFFICES ASSUME NEW s \in Small(n)
                 PROVE  s \in Small(n + 1) /\ it[s] = f[s]
      OBVIOUS
    <3>1. s \in SUBSET S /\ Cardinality(s) <= n /\ Cardinality(s) \in Nat
      BY <1>1
    <3>2. s \in Small(n + 1)
      BY <3>1
    <3>3. QED
      BY <3>2
  <2>6. ASSUME NEW s \in Small(n + 1)
        PROVE  it[s] = IF s = {} THEN b ELSE G[c[s]][it[s \ {c[s]}]]
    <3>1. CASE s \in Small(n)
      <4>1. it[s] = f[s] /\ f[s] = IF s = {} THEN b ELSE G[c[s]][f[s \ {c[s]}]]
        BY <2>1, <2>5, <3>1
      <4>2. s # {} => it[s \ {c[s]}] = f[s \ {c[s]}]
        BY <2>2, <2>5
      <4>3. QED
        BY <4>1, <4>2
    <3>2. CASE s \notin Small(n)
      BY <2>2, <2>3, <2>5, <3>2
    <3>3. QED
      BY <3>1, <3>2
  <2>7. Fold(it, n + 1)
    BY <2>6
  <2>8. QED
    BY <2>4, <2>7
<1> HIDE DEF Bad
<1>4. Bad = {}
  <2> SUFFICES ASSUME Bad # {} PROVE FALSE
    OBVIOUS
  <2>1. PICK n \in Bad : \A m \in Bad : n <= m
    BY LeastNat DEF Bad
  <2>2. n \in Nat /\ n # 0
    BY <1>2, <2>1 DEF Bad
  <2>3. n - 1 \in Nat /\ n - 1 \notin Bad /\ (n - 1) + 1 = n
    BY <2>1, <2>2
  <2>4. QED
    BY <1>3, <2>1, <2>3
<1>5. Cardinality(S) \in Nat /\ Small(Cardinality(S)) = SUBSET S
  BY <1>1
<1>6. \E it \in [Small(Cardinality(S)) -> D] : Fold(it, Cardinality(S))
  BY <1>4, <1>5 DEF Bad
<1>7. PICK it \in [Small(Cardinality(S)) -> D] : Fold(it, Cardinality(S))
  BY <1>6
<1>8. it \in [SUBSET S -> D]
  BY <1>5, <1>7, Zenon
<1>9. IsFoldOf(it, S, b, c, G)
  BY <1>5, <1>7, Zenon DEF IsFoldOf
<1>10. QED
  BY <1>8, <1>9, Zenon
-----------------------------------------------------------------------------
(* What the optimizer compares are integers.                               *)

\* The sum of integers over a finite set is an integer.
LEMMA SumType ==
  ASSUME NEW S, IsFiniteSet(S), NEW f, \A x \in S : f[x] \in Int
  PROVE  SumFunctionOnSet(f, S) \in Int
<1> DEFINE c == [s \in (SUBSET S) \ {{}} |-> CHOOSE x \in s : TRUE]
           G == [x \in S |-> [d \in Int |-> f[x] + d]]
           IsFold(it) == it = [s \in SUBSET S |-> IF s = {} THEN 0
             ELSE f[CHOOSE x \in s : TRUE] + it[s \ {CHOOSE x \in s : TRUE}]]
           sum == CHOOSE it : IsFold(it)
<1>1. SumFunctionOnSet(f, S) = sum[S]
  BY Zenon DEF SumFunctionOnSet, FoldFunctionOnSet, MapThenFoldSet
<1>2. \A s \in (SUBSET S) \ {{}} : c[s] \in s /\ c[s] = CHOOSE x \in s : TRUE
  OBVIOUS
<1>3. G \in [S -> [Int -> Int]] /\ \A x \in S : \A d \in Int : G[x][d] = f[x] + d
  OBVIOUS
<1> HIDE DEF c, G
<1>4. PICK it \in [SUBSET S -> Int] : IsFoldOf(it, S, 0, c, G)
  <2>0. G \in [S -> [Int -> Int]]
    BY <1>3
  <2>1. \A s \in (SUBSET S) \ {{}} : c[s] \in s
    BY <1>2
  <2>2. 0 \in Int
    OBVIOUS
  <2>3. QED
    BY <2>0, <2>1, <2>2, FoldExists
<1>5. IsFold(it)
  <2>0. it = [s \in SUBSET S |-> IF s = {} THEN 0 ELSE G[c[s]][it[s \ {c[s]}]]]
    BY <1>4 DEF IsFoldOf
  <2> SUFFICES ASSUME NEW s \in SUBSET S, s # {}
               PROVE  it[s] = f[CHOOSE x \in s : TRUE]
                                + it[s \ {CHOOSE x \in s : TRUE}]
    BY <2>0, Zenon
  <2>1. it[s] = G[c[s]][it[s \ {c[s]}]]
    BY <2>0, Zenon
  <2>2. c[s] \in S /\ s \ {c[s]} \in SUBSET S /\ it[s \ {c[s]}] \in Int
    BY <1>2, <1>4
  <2>3. G[c[s]][it[s \ {c[s]}]] = f[c[s]] + it[s \ {c[s]}]
    BY <1>3, <2>2, Zenon
  <2>4. c[s] = CHOOSE x \in s : TRUE
    BY <1>2, Zenon
  <2>5. QED
    BY <2>1, <2>3, <2>4, Zenon
<1>6. IsFold(sum)
  BY <1>5, Zenon
<1> HIDE DEF sum
<1>7. /\ sum[{}] \in Int
      /\ \A s \in (SUBSET S) \ {{}} :
           c[s] \in s /\ (sum[s \ {c[s]}] \in Int => sum[s] \in Int)
  <2>1. sum[{}] = 0
    BY <1>6
  <2>2. ASSUME NEW s \in (SUBSET S) \ {{}}, sum[s \ {c[s]}] \in Int
        PROVE  sum[s] \in Int
    <3>1. sum[s] = f[c[s]] + sum[s \ {c[s]}]
      BY <1>2, <1>6
    <3>2. f[c[s]] \in Int
      BY <1>2
    <3>3. QED
      BY <2>2, <3>1, <3>2
  <2>3. QED
    BY <1>2, <2>1, <2>2
<1>8. \A s \in SUBSET S : sum[s] \in Int
  BY <1>7, FoldKeeps
<1>9. QED
  BY <1>1, <1>8

\* The product of the values of an integer function on a finite set.
LEMMA ProductType ==
  ASSUME NEW f, IsFiniteSet(DOMAIN f), \A x \in DOMAIN f : f[x] \in Int
  PROVE  FoldFunction(LAMBDA x, y : x * y, 1, f) \in Int
<1> DEFINE S == DOMAIN f
           c == [s \in (SUBSET S) \ {{}} |-> CHOOSE x \in s : TRUE]
           G == [x \in S |-> [d \in Int |-> f[x] * d]]
           IsFold(it) == it = [s \in SUBSET S |-> IF s = {} THEN 1
             ELSE f[CHOOSE x \in s : TRUE] * it[s \ {CHOOSE x \in s : TRUE}]]
           product == CHOOSE it : IsFold(it)
<1>1. FoldFunction(LAMBDA x, y : x * y, 1, f) = product[S]
  BY Zenon DEF FoldFunction, FoldFunctionOnSet, MapThenFoldSet
<1>2. \A s \in (SUBSET S) \ {{}} : c[s] \in s /\ c[s] = CHOOSE x \in s : TRUE
  OBVIOUS
<1>3. G \in [S -> [Int -> Int]] /\ \A x \in S : \A d \in Int : G[x][d] = f[x] * d
  OBVIOUS
<1> HIDE DEF c, G
<1>4. PICK it \in [SUBSET S -> Int] : IsFoldOf(it, S, 1, c, G)
  <2>0. G \in [S -> [Int -> Int]]
    BY <1>3
  <2>1. \A s \in (SUBSET S) \ {{}} : c[s] \in s
    BY <1>2
  <2>2. 1 \in Int
    OBVIOUS
  <2>3. QED
    BY <2>0, <2>1, <2>2, FoldExists
<1>5. IsFold(it)
  <2>0. it = [s \in SUBSET S |-> IF s = {} THEN 1 ELSE G[c[s]][it[s \ {c[s]}]]]
    BY <1>4 DEF IsFoldOf
  <2> SUFFICES ASSUME NEW s \in SUBSET S, s # {}
               PROVE  it[s] = f[CHOOSE x \in s : TRUE]
                                * it[s \ {CHOOSE x \in s : TRUE}]
    BY <2>0, Zenon
  <2>1. it[s] = G[c[s]][it[s \ {c[s]}]]
    BY <2>0, Zenon
  <2>2. c[s] \in S /\ s \ {c[s]} \in SUBSET S /\ it[s \ {c[s]}] \in Int
    BY <1>2, <1>4
  <2>3. G[c[s]][it[s \ {c[s]}]] = f[c[s]] * it[s \ {c[s]}]
    BY <1>3, <2>2, Zenon
  <2>4. c[s] = CHOOSE x \in s : TRUE
    BY <1>2, Zenon
  <2>5. QED
    BY <2>1, <2>3, <2>4, Zenon
<1>6. IsFold(product)
  BY <1>5, Zenon
<1> HIDE DEF product
<1>7. /\ product[{}] \in Int
      /\ \A s \in (SUBSET S) \ {{}} :
           c[s] \in s /\ (product[s \ {c[s]}] \in Int => product[s] \in Int)
  <2>1. product[{}] = 1
    BY <1>6
  <2>2. ASSUME NEW s \in (SUBSET S) \ {{}}, product[s \ {c[s]}] \in Int
        PROVE  product[s] \in Int
    <3>1. product[s] = f[c[s]] * product[s \ {c[s]}]
      BY <1>2, <1>6
    <3>2. f[c[s]] \in Int
      BY <1>2
    <3>3. QED
      BY <2>2, <3>1, <3>2
  <2>3. QED
    BY <1>2, <2>1, <2>2
<1>8. \A s \in SUBSET S : product[s] \in Int
  BY <1>7, FoldKeeps
<1>9. QED
  BY <1>1, <1>8

\* The types of the paths and of what delays them.
LEMMA PathFacts ==
  ASSUME model \in Models
  PROVE  /\ model.positive_scale \in Nat \ {0} /\ model.negative_scale \in Nat \ {0}
         /\ model.maximum_period \in Nat \ {0}
         /\ Len(model.paths) \in Nat \ {0}
         /\ DOMAIN model.paths = 1..Len(model.paths)
         /\ IsFiniteSet(DOMAIN model.paths)
         /\ \A i \in DOMAIN model.paths :
              /\ model.paths[i].period \in Nat \ {0}
              /\ model.paths[i].required \in Nat /\ model.paths[i].fixed \in Nat
              /\ model.paths[i].hops \in Seq(Hop)
         /\ \A h \in Hop :
              /\ model.hops[h].slot_period \in Nat /\ model.hops[h].base \in Nat
              /\ model.hops[h].beta \in Nat /\ model.hops[h].ratio \in Nat
<1> DEFINE P == [period : Nat \ {0}, required : Nat \ {0}, fixed : Nat,
                 hops : Seq(Hop)]
<1>1. /\ model.positive_scale \in Nat \ {0} /\ model.negative_scale \in Nat \ {0}
      /\ model.maximum_period \in Nat \ {0}
      /\ model.paths # <<>> /\ model.paths \in Seq(P)
      /\ \A h \in Hop :
              /\ model.hops[h].slot_period \in Nat /\ model.hops[h].base \in Nat
              /\ model.hops[h].beta \in Nat /\ model.hops[h].ratio \in Nat
  BY ModelAssumption DEF ReadOK
<1>2. /\ Len(model.paths) \in Nat \ {0}
      /\ DOMAIN model.paths = 1..Len(model.paths)
      /\ \A i \in DOMAIN model.paths : model.paths[i] \in P
  <2> HIDE DEF P
  <2>1. QED
    BY <1>1
<1>3. IsFiniteSet(DOMAIN model.paths)
  BY <1>2, FS_Interval
<1>4. QED
  BY <1>1, <1>2, <1>3

\* The largest element of a set of positions.
LEMMA LastPosition ==
  ASSUME NEW n \in Nat, NEW s \in (SUBSET (1..n)) \ {{}}
  PROVE  Max(s) \in s
<1>1. s \in SUBSET Int /\ s # {}
  OBVIOUS
<1>2. IsFiniteSet(1..n)
  BY FS_Interval
<1>3. IsFiniteSet(s)
  BY <1>2, FS_Subset
<1>4. QED
  BY <1>1, <1>3, MaxFact

\* When a signal that arrives at hop h is past it.
CrossedAt(sl, arrival, h) ==
  IF model.hops[h].ratio_delay_model
  THEN arrival + model.hops[h].base
         + model.hops[h].beta * (model.hops[h].ratio - 1)
  ELSE Max({arrival, model.hops[h].slot_period * sl[h]}) + model.hops[h].base

\* Crossing a hop adds integers.
LEMMA CrossedType ==
  ASSUME model \in Models, NEW sl \in [Hop -> Int], NEW h \in Hop,
         NEW arrival \in Int
  PROVE  CrossedAt(sl, arrival, h) \in Int
<1> DEFINE k == model.hops[h].slot_period * sl[h]
<1>1. /\ model.hops[h].slot_period \in Nat /\ model.hops[h].base \in Nat
      /\ model.hops[h].beta \in Nat /\ model.hops[h].ratio \in Nat
  BY PathFacts
<1>2. sl[h] \in Int
  OBVIOUS
<1>3. k \in Int
  BY <1>1, <1>2
<1> HIDE DEF k
<1>4. Max({arrival, k}) \in Int
  <2>1. {arrival, k} \in SUBSET Int /\ {arrival, k} # {}
    BY <1>3
  <2>2. IsFiniteSet({arrival, k})
    <3>1. IsFiniteSet({arrival})
      BY FS_Singleton
    <3>2. IsFiniteSet({arrival} \cup {k})
      BY <3>1, FS_AddElement
    <3>3. {arrival} \cup {k} = {arrival, k}
      OBVIOUS
    <3>4. QED
      BY <3>2, <3>3
  <2>3. QED
    BY <2>1, <2>2, MaxFact
<1>5. model.hops[h].beta * (model.hops[h].ratio - 1) \in Int
  BY <1>1
<1>6. QED
  BY <1>1, <1>4, <1>5 DEF CrossedAt, k

\* The delay of a path, a fold over its hops, is an integer.
LEMMA DelayType ==
  ASSUME model \in Models, NEW sl \in [Hop -> Int], NEW i \in DOMAIN model.paths
  PROVE  PathDelay(model, sl, model.paths[i]) \in Int
<1> DEFINE p == model.paths[i]
           S == DOMAIN p.hops
           c == [s \in (SUBSET S) \ {{}} |-> Max(s)]
           G == [x \in S |-> [d \in Int |-> CrossedAt(sl, d, p.hops[x])]]
           IsFold(it) == it = [s \in SUBSET S |-> IF s = {} THEN 0
             ELSE CrossedAt(sl, it[s \ {Max(s)}], p.hops[Max(s)])]
           delay == CHOOSE it : IsFold(it)
<1>1. PathDelay(model, sl, p) = p.fixed + delay[S]
  BY Zenon DEF PathDelay, FoldLeft, MapThenFoldSet, CrossedAt
<1>2. p.fixed \in Nat /\ p.hops \in Seq(Hop)
  BY PathFacts
<1>3. /\ Len(p.hops) \in Nat /\ S = 1..Len(p.hops)
      /\ \A x \in S : p.hops[x] \in Hop
  <2> HIDE DEF p
  <2>1. QED
    BY <1>2
<1>4. IsFiniteSet(S)
  BY <1>3, FS_Interval
<1> HIDE DEF p
<1>5. \A s \in (SUBSET S) \ {{}} : c[s] \in s /\ c[s] = Max(s)
  BY <1>3, LastPosition
<1>6. /\ G \in [S -> [Int -> Int]]
      /\ \A x \in S : \A d \in Int : G[x][d] = CrossedAt(sl, d, p.hops[x])
  BY <1>3, CrossedType
<1> HIDE DEF c, G, S
<1>7. PICK it \in [SUBSET S -> Int] : IsFoldOf(it, S, 0, c, G)
  <2>1. G \in [S -> [Int -> Int]]
    BY <1>6
  <2>2. \A s \in (SUBSET S) \ {{}} : c[s] \in s
    BY <1>5
  <2>3. QED
    BY <1>4, <2>1, <2>2, 0 \in Int, FoldExists
<1>8. IsFold(it)
  <2>1. it = [s \in SUBSET S |-> IF s = {} THEN 0 ELSE G[c[s]][it[s \ {c[s]}]]]
    BY <1>7 DEF IsFoldOf
  <2> SUFFICES ASSUME NEW s \in SUBSET S, s # {}
               PROVE  it[s] = CrossedAt(sl, it[s \ {Max(s)}], p.hops[Max(s)])
    BY <2>1, Zenon
  <2>2. it[s] = G[c[s]][it[s \ {c[s]}]]
    BY <2>1, Zenon
  <2>3. c[s] \in S /\ s \ {c[s]} \in SUBSET S /\ it[s \ {c[s]}] \in Int
    BY <1>5, <1>7
  <2>4. c[s] = Max(s)
    BY <1>5
  <2>5. QED
    BY <1>6, <2>2, <2>3, <2>4
<1>9. IsFold(delay)
  BY <1>8, Zenon
<1> HIDE DEF delay
<1>10. /\ delay[{}] \in Int
       /\ \A s \in (SUBSET S) \ {{}} :
            c[s] \in s /\ (delay[s \ {c[s]}] \in Int => delay[s] \in Int)
  <2>1. delay[{}] = 0
    BY <1>9
  <2>2. ASSUME NEW s \in (SUBSET S) \ {{}}, delay[s \ {c[s]}] \in Int
        PROVE  delay[s] \in Int
    <3>1. delay[s] = CrossedAt(sl, delay[s \ {Max(s)}], p.hops[Max(s)])
      BY <1>9, Zenon
    <3>2. c[s] = Max(s) /\ c[s] \in S
      BY <1>5
    <3>3. p.hops[c[s]] \in Hop
      BY <1>3, <3>2
    <3>4. QED
      BY <2>2, <3>1, <3>2, <3>3, CrossedType
  <2>3. QED
    BY <1>5, <2>1, <2>2
<1>11. \A s \in SUBSET S : delay[s] \in Int
  BY <1>4, <1>10, FoldKeeps
<1>12. delay[S] \in Int
  BY <1>11
<1>13. QED
  BY <1>1, <1>2, <1>12 DEF p

\* The common denominator is an integer.
LEMMA PeriodProductType ==
  ASSUME model \in Models
  PROVE  PeriodProduct(model) \in Int
<1> DEFINE f == [i \in DOMAIN model.paths |-> model.paths[i].period]
<1>1. DOMAIN f = DOMAIN model.paths /\ \A i \in DOMAIN f : f[i] \in Int
  BY PathFacts
<1>2. IsFiniteSet(DOMAIN f)
  BY <1>1, PathFacts
<1>3. PeriodProduct(model) = FoldFunction(LAMBDA x, y : x * y, 1, f)
  BY Zenon DEF PeriodProduct
<1> HIDE DEF f
<1>4. QED
  BY <1>1, <1>2, <1>3, ProductType

\* normalized_slack gives integers, whatever the slots.
LEMMA SlackType ==
  ASSUME model \in Models, NEW sl \in [Hop -> Int]
  PROVE  Slacks(sl) \in [DOMAIN model.paths -> Int]
<1> SUFFICES ASSUME NEW i \in DOMAIN model.paths
             PROVE  NormalizedSlack(model, sl, model.paths[i]) \in Int
  BY DEF Slacks
<1> DEFINE p == model.paths[i]
           slack == p.required - PathDelay(model, sl, p)
<1>1. p.required \in Nat /\ p.period \in Nat \ {0}
  BY PathFacts
<1>2. slack \in Int
  BY <1>1, DelayType
<1>3. /\ model.negative_scale \in Int /\ model.positive_scale \in Int
      /\ model.maximum_period \in Int /\ PeriodProduct(model) \in Int
  BY PathFacts, PeriodProductType
<1>4. PeriodProduct(model) \div p.period \in Int
  BY <1>1, <1>3
<1>5. NormalizedSlack(model, sl, p) =
        IF slack >= 0
        THEN slack * p.period * model.negative_scale * PeriodProduct(model)
        ELSE slack * model.positive_scale * model.maximum_period
               * (PeriodProduct(model) \div p.period)
  BY DEF NormalizedSlack
<1>6. ASSUME NEW a \in Int, NEW b \in Int, NEW c \in Int, NEW d \in Int
      PROVE  a * b * c * d \in Int
  OBVIOUS
<1> HIDE DEF slack, p
<1>7. slack * p.period * model.negative_scale * PeriodProduct(model) \in Int
  BY <1>1, <1>2, <1>3, <1>6
<1>8. slack * model.positive_scale * model.maximum_period
        * (PeriodProduct(model) \div p.period) \in Int
  BY <1>2, <1>3, <1>4, <1>6
<1>9. NormalizedSlack(model, sl, p) \in Int
  BY <1>5, <1>7, <1>8
<1>10. QED
  BY <1>9 DEF p

\* worst_slack and total_negative_slack are integers.
LEMMA WorstSlackType ==
  ASSUME model \in Models, NEW sl \in [Hop -> Int]
  PROVE  WorstSlack(sl) \in Int /\ TotalNegativeSlack(sl) \in Int
<1> DEFINE f == Slacks(sl)
           D == DOMAIN model.paths
<1>1. f \in [D -> Int] /\ IsFiniteSet(D) /\ 1 \in D
  BY SlackType, PathFacts
<1> HIDE DEF f, D
<1>2. WorstSlack(sl) \in Int
  <2> DEFINE T == {f[i] : i \in D}
             N == {-x : x \in T}
  <2>1. IsFiniteSet(T) /\ T \in SUBSET Int /\ T # {}
    BY <1>1, FiniteRange
  <2>2. Range(f) = T
    BY <1>1 DEF Range
  <2>3. N \in SUBSET Int /\ N # {}
    BY <2>1
  <2>4. IsFiniteSet(N)
    <3> DEFINE g == [x \in T |-> -x]
    <3>1. N = {g[x] : x \in T}
      OBVIOUS
    <3>2. IsFiniteSet({g[x] : x \in T})
      <4> HIDE DEF g, T
      <4>1. QED
        BY <2>1, FiniteRange
    <3>3. QED
      BY <3>1, <3>2
  <2>5. PICK a \in Int : \A y \in T : a <= y
    <3>1. Max(N) \in Int /\ \A z \in N : z <= Max(N)
      <4> HIDE DEF N
      <4>1. QED
        BY <2>3, <2>4, MaxFact
    <3>2. \A y \in T : -Max(N) <= y
      <4> SUFFICES ASSUME NEW y \in T PROVE -Max(N) <= y
        OBVIOUS
      <4>1. -y \in N /\ y \in Int
        BY <2>1
      <4>2. -y <= Max(N)
        BY <3>1, <4>1
      <4> HIDE DEF N
      <4>3. QED
        BY <3>1, <4>1, <4>2
    <3>3. -Max(N) \in Int
      BY <3>1
    <3>4. QED
      BY <3>2, <3>3
  <2>6. Min(T) \in Int
    <3> HIDE DEF T
    <3>1. QED
      BY <2>1, <2>5, MinFact
  <2>7. QED
    BY <2>2, <2>6 DEF WorstSlack, f
<1>3. TotalNegativeSlack(sl) \in Int
  <2>1. NegativePaths(sl) \in SUBSET D
    BY DEF NegativePaths, D
  <2>2. IsFiniteSet(NegativePaths(sl))
    BY <1>1, <2>1, FS_Subset
  <2>3. \A i \in NegativePaths(sl) : f[i] \in Int
    BY <1>1, <2>1
  <2>4. SumFunctionOnSet(f, NegativePaths(sl)) \in Int
    BY <2>2, <2>3, SumType
  <2>5. QED
    BY <2>4 DEF TotalNegativeSlack, f
<1>4. QED
  BY <1>2, <1>3

\* Some movable path is the worst.
LEMMA WorstPathFact ==
  ASSUME model \in Models, NEW sl \in [Hop -> Int], MovablePaths(sl) # {}
  PROVE  WorstMovablePath(sl) \in DOMAIN model.paths
<1> DEFINE f == Slacks(sl)
           D == DOMAIN model.paths
           M == MovablePaths(sl)
           T == {f[i] : i \in M}
<1>1. f \in [D -> Int] /\ IsFiniteSet(D) /\ D \in SUBSET Nat
  <2>1. f \in [D -> Int]
    BY SlackType
  <2>2. IsFiniteSet(D) /\ D \in SUBSET Nat
    BY PathFacts
  <2>3. QED
    BY <2>1, <2>2
<1>2. M \in SUBSET D
  BY DEF MovablePaths
<1>3. IsFiniteSet(M)
  BY <1>1, <1>2, FS_Subset
<1> HIDE DEF f, D, M
<1>4. PICK i0 \in M : \A j \in M : f[i0] <= f[j]
  <2> DEFINE N == {-f[i] : i \in M}
             g == [i \in M |-> -f[i]]
  <2>1. N \in SUBSET Int /\ N # {}
    BY <1>1, <1>2 DEF M
  <2>2. IsFiniteSet(N)
    <3>1. N = {g[x] : x \in M}
      OBVIOUS
    <3>2. IsFiniteSet({g[x] : x \in M})
      <4> HIDE DEF g
      <4>1. QED
        BY <1>3, FiniteRange
    <3>3. QED
      BY <3>1, <3>2
  <2>3. PICK x \in N : \A y \in N : y <= x
    <3> HIDE DEF N
    <3>1. QED
      BY <2>1, <2>2, FiniteMax
  <2>4. PICK i \in M : x = -f[i]
    BY <2>3
  <2>5. ASSUME NEW j \in M PROVE f[i] <= f[j]
    <3>1. f[i] \in Int /\ f[j] \in Int
      BY <1>1, <1>2
    <3>2. -f[j] <= -f[i]
      BY <2>3, <2>4
    <3>3. QED
      BY <3>1, <3>2
  <2>6. QED
    BY <2>5
<1> DEFINE W == {i \in M : f[i] = f[i0]}
<1>5. W \in SUBSET Nat /\ W # {}
  BY <1>1, <1>2, <1>4
<1>6. PICK i1 \in W : \A j \in W : i1 <= j
  <2> HIDE DEF W
  <2>1. QED
    BY <1>5, LeastNat
<1>7. ASSUME NEW j \in M
      PROVE  f[i1] < f[j] \/ (f[i1] = f[j] /\ i1 <= j)
  <2>1. f[i1] = f[i0] /\ f[i0] <= f[j] /\ f[i0] \in Int /\ f[j] \in Int
    BY <1>1, <1>2, <1>4, <1>6
  <2>2. CASE f[j] = f[i0]
    BY <1>6, <2>1, <2>2
  <2>3. CASE f[j] # f[i0]
    BY <2>1, <2>3
  <2>4. QED
    BY <2>2, <2>3
<1>8. i1 \in M
  BY <1>6
<1>9. \E i \in M : \A j \in M : f[i] < f[j] \/ (f[i] = f[j] /\ i <= j)
  BY <1>7, <1>8
<1>10. WorstMovablePath(sl) \in M
  BY <1>9, Zenon DEF WorstMovablePath, M, f
<1>11. QED
  BY <1>2, <1>10 DEF D

-----------------------------------------------------------------------------
(* Sorting a finite set by a strict total order.                           *)

\* The sequence q lists S in the order R.
IsSortedBy(q, S, R) ==
  q = [i \in 1..Cardinality(S) |->
         CHOOSE x \in S : Cardinality(Below(S, R, x)) = i - 1]

\* What Sorted makes of such an order.
LEMMA SortedFact ==
  ASSUME NEW S, IsFiniteSet(S), NEW R, StrictOrder(S, R), NEW q,
         IsSortedBy(q, S, R)
  PROVE  /\ Cardinality(S) \in Nat
         /\ q \in [1..Cardinality(S) -> S]
         /\ \A i \in 1..Cardinality(S) : Cardinality(Below(S, R, q[i])) = i - 1
         /\ \A x \in S : /\ Cardinality(Below(S, R, x)) + 1 \in 1..Cardinality(S)
                         /\ q[Cardinality(Below(S, R, x)) + 1] = x
<1> DEFINE n == Cardinality(S)
           rank(x) == Cardinality(Below(S, R, x))
<1>1. /\ n \in Nat
      /\ \A x \in S : rank(x) \in 0..(n - 1)
      /\ \A x, y \in S : rank(x) = rank(y) => x = y
      /\ \A i \in 1..n : \E x \in S : rank(x) = i - 1
  BY RankFact
<1>2. \A i \in 1..n : q[i] \in S /\ rank(q[i]) = i - 1
  <2> SUFFICES ASSUME NEW i \in 1..n PROVE q[i] \in S /\ rank(q[i]) = i - 1
    OBVIOUS
  <2>1. q[i] = CHOOSE x \in S : rank(x) = i - 1
    BY Zenon DEF IsSortedBy
  <2>2. \E x \in S : rank(x) = i - 1
    BY <1>1
  <2> HIDE DEF rank
  <2>3. QED
    BY <2>1, <2>2, Zenon
<1>3. ASSUME NEW x \in S PROVE rank(x) + 1 \in 1..n /\ q[rank(x) + 1] = x
  <2>1. rank(x) \in 0..(n - 1)
    BY <1>1
  <2> HIDE DEF rank
  <2>2. rank(x) + 1 \in 1..n /\ (rank(x) + 1) - 1 = rank(x)
    BY <1>1, <2>1
  <2>3. q[rank(x) + 1] \in S /\ rank(q[rank(x) + 1]) = rank(x)
    BY <1>2, <2>2
  <2>4. QED
    BY <1>1, <2>2, <2>3
<1>4. q \in [1..n -> S]
  <2>1. DOMAIN q = 1..n /\ q = [i \in DOMAIN q |-> q[i]]
    BY DEF IsSortedBy
  <2>2. QED
    BY <1>2, <2>1
<1>5. QED
  BY <1>1, <1>2, <1>3, <1>4

\* Sequences of integers of one length are ordered by LexLess.
LEMMA LexOrder ==
  ASSUME NEW n \in Nat, NEW a \in [1..n -> Int], NEW b \in [1..n -> Int],
         NEW c \in [1..n -> Int]
  PROVE  /\ ~LexLess(a, a)
         /\ LexLess(a, b) /\ LexLess(b, c) => LexLess(a, c)
         /\ a = b \/ LexLess(a, b) \/ LexLess(b, a)
<1>1. ~LexLess(a, a)
  BY DEF LexLess
<1>2. ASSUME LexLess(a, b), LexLess(b, c) PROVE LexLess(a, c)
  <2>1. PICK i \in 1..n : a[i] < b[i] /\ \A j \in 1..(i - 1) : a[j] = b[j]
    BY <1>2 DEF LexLess
  <2>2. PICK k \in 1..n : b[k] < c[k] /\ \A j \in 1..(k - 1) : b[j] = c[j]
    BY <1>2 DEF LexLess
  <2>3. CASE i <= k
    <3>1. a[i] < c[i]
      BY <2>1, <2>2, <2>3
    <3>2. \A j \in 1..(i - 1) : a[j] = c[j]
      BY <2>1, <2>2, <2>3
    <3>3. QED
      BY <3>1, <3>2 DEF LexLess
  <2>4. CASE k < i
    <3>1. a[k] < c[k]
      BY <2>1, <2>2, <2>4
    <3>2. \A j \in 1..(k - 1) : a[j] = c[j]
      BY <2>1, <2>2, <2>4
    <3>3. QED
      BY <3>1, <3>2 DEF LexLess
  <2>5. QED
    BY <2>3, <2>4
<1>3. ASSUME a # b PROVE LexLess(a, b) \/ LexLess(b, a)
  <2> DEFINE D == {i \in 1..n : a[i] # b[i]}
  <2>1. D \in SUBSET Nat /\ D # {}
    <3>1. D \in SUBSET Nat
      OBVIOUS
    <3>2. ASSUME D = {} PROVE FALSE
      <4>1. \A i \in 1..n : a[i] = b[i]
        BY <3>2
      <4>2. a = b
        BY <4>1
      <4>3. QED
        BY <1>3, <4>2
    <3>3. QED
      BY <3>1, <3>2
  <2>2. PICK i \in D : \A j \in D : i <= j
    BY <2>1, LeastNat
  <2>3. i \in 1..n /\ a[i] # b[i] /\ \A j \in 1..(i - 1) : a[j] = b[j]
    BY <2>2
  <2>4. a[i] \in Int /\ b[i] \in Int
    BY <2>3
  <2>5. CASE a[i] < b[i]
    BY <2>3, <2>5 DEF LexLess
  <2>6. CASE b[i] < a[i]
    BY <2>3, <2>6 DEF LexLess
  <2>7. QED
    BY <2>3, <2>4, <2>5, <2>6
<1>4. QED
  BY <1>1, <1>2, <1>3

\* Flattening keeps the elements.
LEMMA FlattenType ==
  ASSUME NEW D, NEW g \in Seq(Seq(D))
  PROVE  FlattenSeq(g) \in Seq(D)
<1> DEFINE n == Len(g)
           IsFlat(it, k) ==
             it = [i \in 1..k |-> IF i = 1 THEN g[i] ELSE it[i - 1] \o g[i]]
           flat == CHOOSE it : IsFlat(it, n)
<1>1. FlattenSeq(g) = IF n = 0 THEN g ELSE flat[n]
  BY Zenon DEF FlattenSeq
<1>2. n \in Nat /\ \A i \in 1..n : g[i] \in Seq(D)
  OBVIOUS
<1>3. CASE n = 0
  <2>1. g = <<>>
    BY <1>3
  <2>2. QED
    BY <1>1, <1>3, <2>1
<1>4. CASE n # 0
  <2> DEFINE Bad == {k \in Nat : k <= n /\ ~\E it : IsFlat(it, k)}
  <2>1. 0 \notin Bad
    <3> DEFINE it == [i \in 1..0 |-> 0]
    <3>1. IsFlat(it, 0)
      OBVIOUS
    <3>2. QED
      BY <3>1
  <2>2. ASSUME NEW k \in Nat, k + 1 <= n, k \notin Bad PROVE k + 1 \notin Bad
    <3>0. k <= n
      BY <1>2, <2>2
    <3>1. PICK f : IsFlat(f, k)
      <4> HIDE DEF IsFlat
      <4>1. QED
        BY <2>2, <3>0, Zenon
    <3> DEFINE it == [i \in 1..(k + 1) |->
                        IF i = 1 THEN g[i] ELSE f[i - 1] \o g[i]]
    <3>2. ASSUME NEW i \in 1..(k + 1), i # 1 PROVE it[i - 1] = f[i - 1]
      <4>1. i - 1 \in 1..k /\ i - 1 \in 1..(k + 1)
        BY <3>2
      <4>2. it[i - 1] = IF i - 1 = 1 THEN g[i - 1] ELSE f[(i - 1) - 1] \o g[i - 1]
        BY <4>1
      <4>3. f[i - 1] = IF i - 1 = 1 THEN g[i - 1] ELSE f[(i - 1) - 1] \o g[i - 1]
        <5> DEFINE j == i - 1
        <5>1. j \in 1..k
          BY <4>1
        <5>2. f[j] = IF j = 1 THEN g[j] ELSE f[j - 1] \o g[j]
          <6> HIDE DEF j
          <6>1. QED
            BY <3>1, <5>1, Zenon
        <5>3. QED
          BY <5>2
      <4>4. QED
        BY <4>2, <4>3
    <3>3. \A i \in 1..(k + 1) :
            it[i] = IF i = 1 THEN g[i] ELSE it[i - 1] \o g[i]
      <4> SUFFICES ASSUME NEW i \in 1..(k + 1)
                   PROVE  it[i] = IF i = 1 THEN g[i] ELSE it[i - 1] \o g[i]
        OBVIOUS
      <4>1. it[i] = IF i = 1 THEN g[i] ELSE f[i - 1] \o g[i]
        OBVIOUS
      <4> HIDE DEF it
      <4>2. QED
        BY <3>2, <4>1
    <3>4. DOMAIN it = 1..(k + 1) /\ it = [i \in DOMAIN it |-> it[i]]
      OBVIOUS
    <3> HIDE DEF it
    <3>5. IsFlat(it, k + 1)
      BY <3>3, <3>4
    <3>6. QED
      BY <3>5
  <2> HIDE DEF Bad
  <2>3. Bad = {}
    <3> SUFFICES ASSUME Bad # {} PROVE FALSE
      OBVIOUS
    <3>1. Bad \in SUBSET Nat
      BY DEF Bad
    <3>2. PICK k \in Bad : \A m \in Bad : k <= m
      BY <3>1, LeastNat
    <3>3. k \in Nat /\ k # 0 /\ k <= n
      BY <2>1, <3>1, <3>2 DEF Bad
    <3>4. k - 1 \in Nat /\ k - 1 \notin Bad /\ (k - 1) + 1 = k
      BY <3>2, <3>3
    <3>5. QED
      BY <2>2, <3>2, <3>3, <3>4
  <2>4. \E it : IsFlat(it, n)
    <3>1. n <= n /\ n \in Nat
      BY <1>2
    <3> HIDE DEF IsFlat
    <3>2. QED
      BY <2>3, <3>1, Zenon DEF Bad
  <2>5. IsFlat(flat, n)
    BY <2>4, Zenon
  <2> HIDE DEF flat
  <2> DEFINE Wrong == {i \in 1..n : flat[i] \notin Seq(D)}
  <2>6. Wrong = {}
    <3> SUFFICES ASSUME Wrong # {} PROVE FALSE
      OBVIOUS
    <3>1. Wrong \in SUBSET Nat
      OBVIOUS
    <3>2. PICK i \in Wrong : \A m \in Wrong : i <= m
      BY <3>1, LeastNat
    <3>3. i \in 1..n /\ flat[i] \notin Seq(D)
      BY <3>2
    <3>4. flat[i] = IF i = 1 THEN g[i] ELSE flat[i - 1] \o g[i]
      BY <2>5, <3>3, Zenon
    <3>5. i # 1
      BY <1>2, <3>3, <3>4
    <3>6. flat[i - 1] \in Seq(D)
      BY <3>2, <3>3, <3>5
    <3>7. g[i] \in Seq(D)
      BY <1>2, <3>3
    <3>8. flat[i - 1] \o g[i] \in Seq(D)
      BY <3>6, <3>7
    <3>9. QED
      BY <3>3, <3>4, <3>5, <3>8
  <2>7. QED
    BY <1>1, <1>2, <1>4, <2>6
<1>5. QED
  BY <1>3, <1>4

-----------------------------------------------------------------------------
(* The orders the search tries.                                            *)

\* The input's priorities, and the ways to give one to every hop.
Priorities == {model.hops[h].priority : h \in Hop}

Orders == {o \in [Hop -> Priorities] :
  /\ \A g, h \in Hop : o[g] = o[h] => g = h
  /\ \A p \in Priorities : \E h \in Hop : o[h] = p}

\* There are as many priorities as hops.
LEMMA PrioritiesFact ==
  ASSUME model \in Models
  PROVE  Priorities \in SUBSET Nat /\ IsFiniteSet(Priorities)
<1> DEFINE f == [h \in Hop |-> model.hops[h].priority]
<1>1. Priorities \in SUBSET Nat
  BY ModelFacts DEF Priorities
<1>2. Priorities = {f[h] : h \in Hop}
  BY DEF Priorities
<1>3. IsFiniteSet({f[h] : h \in Hop})
  <2> HIDE DEF f
  <2>1. QED
    BY HopFacts, FiniteRange
<1>4. QED
  BY <1>1, <1>2, <1>3

\* An injective choice of priorities uses all of them.
LEMMA OrderFact ==
  ASSUME model \in Models, NEW o \in Orders
  PROVE  IsOrder(o) /\ \A h \in Hop : o[h] \in Nat
<1>1. o \in [Hop -> Priorities]
  BY DEF Orders
<1>2. IsInjective(o)
  BY <1>1 DEF Orders, IsInjective
<1>3. Range(o) = Priorities
  BY <1>1 DEF Orders, Range
<1>4. QED
  BY <1>1, <1>2, <1>3, PrioritiesFact DEF IsOrder, Priorities

\* There are finitely many orders.
LEMMA OrdersFinite ==
  ASSUME model \in Models, NEW T \in SUBSET Orders
  PROVE  IsFiniteSet(T)
<1> DEFINE Graph(o) == {<<h, o[h]>> : h \in Hop}
           f == [o \in T |-> Graph(o)]
           U == SUBSET (Hop \X Priorities)
<1>1. IsFiniteSet(U)
  <2>1. IsFiniteSet(Hop \X Priorities)
    BY HopFacts, PrioritiesFact, FS_Product
  <2>2. QED
    BY <2>1, FS_SUBSET
<1>2. f \in [T -> U]
  BY DEF Orders
<1>3. ASSUME NEW o \in T, NEW q \in T, Graph(o) = Graph(q) PROVE o = q
  <2>1. o \in [Hop -> Priorities] /\ q \in [Hop -> Priorities]
    BY DEF Orders
  <2>2. ASSUME NEW h \in Hop PROVE o[h] = q[h]
    <3>1. <<h, o[h]>> \in Graph(q)
      BY <1>3
    <3>2. PICK k \in Hop : <<h, o[h]>> = <<k, q[k]>>
      BY <3>1
    <3>3. QED
      BY <3>2
  <2>3. QED
    BY <2>1, <2>2
<1>4. IsInjective(f)
  BY <1>3 DEF IsInjective
<1>5. f \in Injection(T, U)
  BY <1>2, <1>4 DEF Injection
<1> HIDE DEF f, U
<1>6. QED
  BY <1>1, <1>5, FS_Injection

\* HopsBy lists every hop once, in the order it is given.
LEMMA HopsByFact ==
  ASSUME model \in Models, NEW o \in Orders
  PROVE  /\ HopsBy(o) \in [1..HopCount -> Hop]
         /\ \A i \in 1..HopCount :
              Cardinality({g \in Hop : o[g] < o[HopsBy(o)[i]]}) = i - 1
         /\ \A h \in Hop :
              LET i == Cardinality({g \in Hop : o[g] < o[h]}) + 1
              IN  i \in 1..HopCount /\ HopsBy(o)[i] = h
<1> DEFINE R == {z \in Hop \X Hop : o[z[1]] < o[z[2]]}
<1>1. \A h \in Hop : o[h] \in Nat
  BY OrderFact
<1>2. \A g, h \in Hop : <<g, h>> \in R <=> o[g] < o[h]
  OBVIOUS
<1>3. \A h \in Hop : Below(Hop, R, h) = {g \in Hop : o[g] < o[h]}
  BY <1>2 DEF Below
<1> HIDE DEF R
<1>4. StrictOrder(Hop, R)
  <2>1. \A g, h \in Hop : o[g] = o[h] => g = h
    BY DEF Orders
  <2>2. \A x \in Hop : <<x, x>> \notin R
    BY <1>1, <1>2
  <2>3. \A x, y, z \in Hop : <<x, y>> \in R /\ <<y, z>> \in R => <<x, z>> \in R
    BY <1>1, <1>2
  <2>4. ASSUME NEW x \in Hop, NEW y \in Hop
        PROVE  x = y \/ <<x, y>> \in R \/ <<y, x>> \in R
    <3>1. o[x] \in Nat /\ o[y] \in Nat
      BY <1>1
    <3>2. o[x] = o[y] \/ o[x] < o[y] \/ o[y] < o[x]
      BY <3>1
    <3>3. QED
      BY <1>2, <2>1, <3>2, Zenon
  <2>5. QED
    BY <2>2, <2>3, <2>4 DEF StrictOrder
<1>5. IsFiniteSet(Hop) /\ Cardinality(Hop) = HopCount
  <2>1. 0 \in Int /\ HopCount - 1 \in Int /\ HopCount \in Nat /\ HopCount > 0
    BY HopAssumption
  <2>2. IsFiniteSet(0..(HopCount - 1))
        /\ Cardinality(0..(HopCount - 1)) = HopCount
    BY <2>1, FS_Interval
  <2>3. QED
    BY <2>2 DEF Hop
<1>6. IsSortedBy(HopsBy(o), Hop, R)
  <2>1. HopsBy(o) = [i \in 1..Cardinality(Hop) |->
          CHOOSE x \in Hop : Cardinality({y \in Hop : o[y] < o[x]}) = i - 1]
    BY Zenon DEF HopsBy, Sorted
  <2>2. ASSUME NEW i
        PROVE  (CHOOSE x \in Hop : Cardinality({y \in Hop : o[y] < o[x]}) = i - 1)
                 = CHOOSE x \in Hop : Cardinality(Below(Hop, R, x)) = i - 1
    BY <1>3
  <2>3. QED
    BY <2>1, <2>2, Zenon DEF IsSortedBy
<1>7. /\ HopsBy(o) \in [1..Cardinality(Hop) -> Hop]
      /\ \A i \in 1..Cardinality(Hop) :
           Cardinality(Below(Hop, R, HopsBy(o)[i])) = i - 1
      /\ \A x \in Hop :
           /\ Cardinality(Below(Hop, R, x)) + 1 \in 1..Cardinality(Hop)
           /\ HopsBy(o)[Cardinality(Below(Hop, R, x)) + 1] = x
  BY <1>4, <1>5, <1>6, SortedFact
<1>8. QED
  BY <1>3, <1>5, <1>7

\* The rank of a hop in an order is the rank of its number.
LEMMA NumberRank ==
  ASSUME model \in Models, NEW o \in Orders, NEW h \in Hop
  PROVE  Cardinality({g \in Hop : o[g] < o[h]})
           = Cardinality({p \in Priorities : p < o[h]})
<1> DEFINE A == {g \in Hop : o[g] < o[h]}
           B == {p \in Priorities : p < o[h]}
           f == [g \in A |-> o[g]]
<1>1. /\ o \in [Hop -> Priorities]
      /\ \A g, k \in Hop : o[g] = o[k] => g = k
      /\ \A p \in Priorities : \E g \in Hop : o[g] = p
  BY DEF Orders
<1>2. IsFiniteSet(A)
  BY HopFacts, FS_Subset
<1>3. f \in [A -> B]
  BY <1>1
<1>4. IsInjective(f)
  BY <1>1 DEF IsInjective
<1>5. \A p \in B : \E g \in A : f[g] = p
  BY <1>1
<1>6. f \in Bijection(A, B)
  <2> HIDE DEF f, A, B
  <2>1. QED
    BY <1>3, <1>4, <1>5 DEF Bijection, Injection, Surjection
<1>7. ExistsBijection(A, B)
  BY <1>6 DEF ExistsBijection
<1> HIDE DEF A, B
<1>8. Cardinality(B) = Cardinality(A)
  BY <1>2, <1>7, FS_Bijection
<1>9. QED
  BY <1>8 DEF A, B

\* An order is known by its sequence of hops.
LEMMA OrderByHops ==
  ASSUME model \in Models, NEW o \in Orders, NEW q \in Orders,
         HopsBy(o) = HopsBy(q)
  PROVE  o = q
<1>1. o \in [Hop -> Priorities] /\ q \in [Hop -> Priorities]
  BY DEF Orders
<1>2. Priorities \in SUBSET Nat /\ IsFiniteSet(Priorities)
  BY PrioritiesFact
<1>3. ASSUME NEW a \in Priorities, NEW b \in Priorities,
             Cardinality({p \in Priorities : p < a})
               = Cardinality({p \in Priorities : p < b})
      PROVE  ~(a < b)
  <2> DEFINE A == {p \in Priorities : p < a}
             B == {p \in Priorities : p < b}
  <2> SUFFICES ASSUME a < b PROVE FALSE
    OBVIOUS
  <2>1. A \in SUBSET B /\ a \in B /\ a \notin A
    <3>1. a \in Nat /\ b \in Nat
      BY <1>2
    <3>2. ASSUME NEW p \in A PROVE p \in B
      <4>1. p \in Nat /\ p \in Priorities /\ p < a
        BY <1>2
      <4>2. QED
        BY <3>1, <4>1
    <3>3. a \in B /\ a \notin A
      BY <3>1
    <3> HIDE DEF A, B
    <3>4. QED
      BY <3>2, <3>3
  <2>2. IsFiniteSet(B)
    BY <1>2, FS_Subset
  <2> HIDE DEF A, B
  <2>3. Cardinality(B) = Cardinality(A) => B = A
    BY <2>1, <2>2, FS_Subset
  <2>4. QED
    BY <1>3, <2>1, <2>3 DEF A, B
<1>4. ASSUME NEW h \in Hop PROVE o[h] = q[h]
  <2> DEFINE ro == Cardinality({g \in Hop : o[g] < o[h]})
             rq == Cardinality({g \in Hop : q[g] < q[h]})
  <2>1. ro + 1 \in 1..HopCount /\ HopsBy(o)[ro + 1] = h
    BY HopsByFact
  <2>2. Cardinality({g \in Hop : q[g] < q[HopsBy(q)[ro + 1]]}) = (ro + 1) - 1
    <3> HIDE DEF ro
    <3>1. QED
      BY <2>1, HopsByFact
  <2>3. rq = (ro + 1) - 1
    BY <2>1, <2>2
  <2>4. ro \in Nat
    <3>1. IsFiniteSet({g \in Hop : o[g] < o[h]})
      BY HopFacts, FS_Subset
    <3>2. QED
      BY <3>1, FS_CardinalityType
  <2>5. rq = ro
    <3> HIDE DEF ro, rq
    <3>1. QED
      BY <2>3, <2>4
  <2>6. Cardinality({p \in Priorities : p < o[h]})
          = Cardinality({p \in Priorities : p < q[h]})
    BY <2>5, NumberRank
  <2>7. o[h] \in Priorities /\ q[h] \in Priorities
    BY <1>1
  <2>8. ~(o[h] < q[h]) /\ ~(q[h] < o[h])
    BY <1>3, <2>6, <2>7
  <2>9. o[h] \in Nat /\ q[h] \in Nat
    BY <1>2, <2>7
  <2>10. QED
    BY <2>8, <2>9
<1>5. QED
  BY <1>1, <1>4

\* Hops that exchange their numbers make an order of an order.
LEMMA ReorderedFact ==
  ASSUME model \in Models, priority \in Orders, NEW N \in SUBSET Hop,
         NEW f \in Bijection(N, N)
  PROVE  [h \in Hop |-> IF h \in N THEN priority[f[h]] ELSE priority[h]] \in Orders
<1> DEFINE o == [h \in Hop |-> IF h \in N THEN priority[f[h]] ELSE priority[h]]
<1>1. /\ priority \in [Hop -> Priorities]
      /\ \A g, h \in Hop : priority[g] = priority[h] => g = h
      /\ \A p \in Priorities : \E h \in Hop : priority[h] = p
  BY DEF Orders
<1>2. /\ f \in [N -> N] /\ \A g, h \in N : f[g] = f[h] => g = h
      /\ \A k \in N : \E h \in N : f[h] = k
  BY DEF Bijection, Injection, Surjection, IsInjective
<1>3. o \in [Hop -> Priorities]
  BY <1>1, <1>2
<1>4. ASSUME NEW g \in Hop, NEW h \in Hop, o[g] = o[h] PROVE g = h
  <2>1. CASE g \in N /\ h \in N
    <3>1. f[g] \in Hop /\ f[h] \in Hop /\ priority[f[g]] = priority[f[h]]
      BY <1>2, <1>4, <2>1
    <3>2. f[g] = f[h]
      BY <1>1, <3>1
    <3>3. QED
      BY <1>2, <2>1, <3>2
  <2>2. CASE g \in N /\ h \notin N
    <3>1. f[g] \in N /\ f[g] \in Hop /\ priority[f[g]] = priority[h]
      BY <1>2, <1>4, <2>2
    <3>2. QED
      BY <1>1, <2>2, <3>1
  <2>3. CASE g \notin N /\ h \in N
    <3>1. f[h] \in N /\ f[h] \in Hop /\ priority[g] = priority[f[h]]
      BY <1>2, <1>4, <2>3
    <3>2. QED
      BY <1>1, <2>3, <3>1
  <2>4. CASE g \notin N /\ h \notin N
    BY <1>1, <1>4, <2>4
  <2>5. QED
    BY <2>1, <2>2, <2>3, <2>4
<1>5. ASSUME NEW p \in Priorities PROVE \E h \in Hop : o[h] = p
  <2>1. PICK k \in Hop : priority[k] = p
    BY <1>1
  <2>2. CASE k \in N
    <3>1. PICK h \in N : f[h] = k
      BY <1>2, <2>2
    <3>2. h \in Hop /\ o[h] = p
      BY <2>1, <3>1
    <3>3. QED
      BY <3>2
  <2>3. CASE k \notin N
    BY <2>1, <2>3
  <2>4. QED
    BY <2>2, <2>3
<1> HIDE DEF o
<1>6. o \in Orders
  BY <1>3, <1>4, <1>5 DEF Orders
<1>7. QED
  BY <1>6 DEF o

\* What next_permutation goes through are orders.
LEMMA ReorderingsType ==
  ASSUME model \in Models, priority \in Orders, NEW N \in SUBSET Hop
  PROVE  Reorderings(N) \in Seq(Orders)
<1> DEFINE S == {[h \in Hop |-> IF h \in N THEN priority[f[h]] ELSE priority[h]] :
                   f \in Bijection(N, N)} \ {priority}
           R == {z \in S \X S : LexLess(HopsBy(z[1]), HopsBy(z[2]))}
<1>1. S \in SUBSET Orders
  BY ReorderedFact
<1>2. IsFiniteSet(S)
  <2> HIDE DEF S
  <2>1. QED
    BY <1>1, OrdersFinite
<1>3. Reorderings(N) = [i \in 1..Cardinality(S) |->
        CHOOSE x \in S :
          Cardinality({y \in S : LexLess(HopsBy(y), HopsBy(x))}) = i - 1]
  BY Zenon DEF Reorderings, Sorted
<1> HIDE DEF S
<1>4. \A x, y \in S : <<x, y>> \in R <=> LexLess(HopsBy(x), HopsBy(y))
  OBVIOUS
<1>5. \A x \in S : Below(S, R, x) = {y \in S : LexLess(HopsBy(y), HopsBy(x))}
  BY <1>4 DEF Below
<1> HIDE DEF R
<1>6. StrictOrder(S, R)
  <2>1. \A x \in S : x \in Orders /\ HopsBy(x) \in [1..HopCount -> Int]
    <3> SUFFICES ASSUME NEW x \in S
                 PROVE  x \in Orders /\ HopsBy(x) \in [1..HopCount -> Int]
      OBVIOUS
    <3>1. x \in Orders
      BY <1>1
    <3>2. HopsBy(x) \in [1..HopCount -> Hop]
      BY <3>1, HopsByFact
    <3>3. QED
      <4>1. Hop \in SUBSET Int
        BY HopFacts
      <4>2. QED
        BY <3>1, <3>2, <4>1
  <2>2. HopCount \in Nat
    BY HopAssumption
  <2>3. ASSUME NEW x \in S PROVE <<x, x>> \notin R
    BY <1>4, <2>1, <2>2, LexOrder
  <2>4. ASSUME NEW x \in S, NEW y \in S, NEW z \in S,
               <<x, y>> \in R, <<y, z>> \in R
        PROVE  <<x, z>> \in R
    <3>1. LexLess(HopsBy(x), HopsBy(y)) /\ LexLess(HopsBy(y), HopsBy(z))
      BY <1>4, <2>4
    <3>2. LexLess(HopsBy(x), HopsBy(z))
      BY <2>1, <2>2, <3>1, LexOrder
    <3>3. QED
      BY <1>4, <3>2
  <2>5. ASSUME NEW x \in S, NEW y \in S
        PROVE  x = y \/ <<x, y>> \in R \/ <<y, x>> \in R
    <3>0. HopsBy(x) \in [1..HopCount -> Int] /\ HopsBy(y) \in [1..HopCount -> Int]
      BY <2>1
    <3>1. \/ HopsBy(x) = HopsBy(y) \/ LexLess(HopsBy(x), HopsBy(y))
          \/ LexLess(HopsBy(y), HopsBy(x))
      BY <2>2, <3>0, LexOrder, Zenon
    <3>2. HopsBy(x) = HopsBy(y) => x = y
      BY <2>1, OrderByHops
    <3>3. QED
      BY <1>4, <3>1, <3>2
  <2>6. QED
    BY <2>3, <2>4, <2>5 DEF StrictOrder
<1>7. IsSortedBy(Reorderings(N), S, R)
  <2>1. ASSUME NEW i
        PROVE  (CHOOSE x \in S :
                  Cardinality({y \in S : LexLess(HopsBy(y), HopsBy(x))}) = i - 1)
                 = CHOOSE x \in S : Cardinality(Below(S, R, x)) = i - 1
    BY <1>5
  <2>2. QED
    BY <1>3, <2>1, Zenon DEF IsSortedBy
<1>8. Cardinality(S) \in Nat /\ Reorderings(N) \in [1..Cardinality(S) -> S]
  BY <1>2, <1>6, <1>7, SortedFact
<1>9. Reorderings(N) \in [1..Cardinality(S) -> Orders]
  BY <1>1, <1>8
<1>10. QED
  BY <1>8, <1>9

\* The exchanges of an iteration.
Pairs(sl, path) == Sorted(SwapPairs(sl, path), LexLess)

\* Each exchange is of two hops.
LEMMA PairsType ==
  ASSUME model \in Models, NEW sl, NEW path \in Seq(Hop)
  PROVE  Pairs(sl, path) \in Seq({p \in Hop \X Hop : p[1] # p[2]})
<1> DEFINE S == SwapPairs(sl, path)
           R == {z \in S \X S : LexLess(z[1], z[2])}
           P == {p \in Hop \X Hop : p[1] # p[2]}
<1>1. S \in SUBSET P
  <2> SUFFICES ASSUME NEW p \in S PROVE p \in P
    OBVIOUS
  <2>1. PICK h \in Range(path) :
          p \in {<<Min({h, g}), Max({h, g})>> : g \in NearestBlockers(sl, h, 1)}
    BY DEF SwapPairs
  <2>2. PICK g \in NearestBlockers(sl, h, 1) : p = <<Min({h, g}), Max({h, g})>>
    BY <2>1
  <2>3. h \in Hop /\ g \in Hop /\ g # h
    BY <2>1, <2>2 DEF Range, NearestBlockers, Blockers
  <2>4. h \in Int /\ g \in Int
    BY <2>3, HopFacts
  <2>5. /\ h < g => Min({h, g}) = h /\ Max({h, g}) = g
        /\ g < h => Min({h, g}) = g /\ Max({h, g}) = h
    <3>1. {h, g} \in SUBSET Int /\ h \in {h, g} /\ g \in {h, g}
      BY <2>4
    <3>2. ASSUME h < g PROVE Min({h, g}) = h /\ Max({h, g}) = g
      <4>1. \A y \in {h, g} : h <= y /\ y <= g
        BY <2>4, <3>2
      <4>2. QED
        BY <3>1, <4>1, MinIs, MaxIs
    <3>3. ASSUME g < h PROVE Min({h, g}) = g /\ Max({h, g}) = h
      <4>1. \A y \in {h, g} : g <= y /\ y <= h
        BY <2>4, <3>3
      <4>2. QED
        BY <3>1, <4>1, MinIs, MaxIs
    <3>4. QED
      BY <3>2, <3>3
  <2>6. p = <<h, g>> \/ p = <<g, h>>
    BY <2>2, <2>3, <2>4, <2>5
  <2>7. QED
    BY <2>3, <2>6
<1> HIDE DEF S
<1>2. IsFiniteSet(S)
  <2>1. IsFiniteSet(Hop \X Hop)
    BY HopFacts, FS_Product
  <2>2. S \in SUBSET (Hop \X Hop)
    BY <1>1
  <2>3. QED
    BY <2>1, <2>2, FS_Subset
<1>3. Pairs(sl, path) = [i \in 1..Cardinality(S) |->
             CHOOSE x \in S : Cardinality({y \in S : LexLess(y, x)}) = i - 1]
  BY Zenon DEF Pairs, Sorted, S
<1>4. \A x, y \in S : <<x, y>> \in R <=> LexLess(x, y)
  OBVIOUS
<1>5. \A x \in S : Below(S, R, x) = {y \in S : LexLess(y, x)}
  BY <1>4 DEF Below
<1> HIDE DEF R
<1>6. StrictOrder(S, R)
  <2>1. \A x \in S : x \in [1..2 -> Int]
    <3> SUFFICES ASSUME NEW x \in S PROVE x \in [1..2 -> Int]
      OBVIOUS
    <3>1. x \in Hop \X Hop
      BY <1>1
    <3>2. PICK a \in Hop, b \in Hop : x = <<a, b>>
      BY <3>1
    <3>3. a \in Int /\ b \in Int
      BY HopFacts
    <3>4. QED
      BY <3>2, <3>3
  <2>2. 2 \in Nat
    OBVIOUS
  <2>3. ASSUME NEW x \in S PROVE <<x, x>> \notin R
    BY <1>4, <2>1, <2>2, LexOrder
  <2>4. ASSUME NEW x \in S, NEW y \in S, NEW z \in S,
               <<x, y>> \in R, <<y, z>> \in R
        PROVE  <<x, z>> \in R
    <3>1. LexLess(x, y) /\ LexLess(y, z)
      BY <1>4, <2>4
    <3>2. LexLess(x, z)
      BY <2>1, <2>2, <3>1, LexOrder
    <3>3. QED
      BY <1>4, <3>2
  <2>5. ASSUME NEW x \in S, NEW y \in S
        PROVE  x = y \/ <<x, y>> \in R \/ <<y, x>> \in R
    <3>1. x \in [1..2 -> Int] /\ y \in [1..2 -> Int]
      BY <2>1
    <3>2. x = y \/ LexLess(x, y) \/ LexLess(y, x)
      BY <2>2, <3>1, LexOrder
    <3>3. QED
      BY <1>4, <3>2
  <2>6. QED
    BY <2>3, <2>4, <2>5 DEF StrictOrder
<1>7. IsSortedBy(Pairs(sl, path), S, R)
  <2>1. ASSUME NEW i
        PROVE  (CHOOSE x \in S : Cardinality({y \in S : LexLess(y, x)}) = i - 1)
                 = CHOOSE x \in S : Cardinality(Below(S, R, x)) = i - 1
    BY <1>5
  <2>2. QED
    BY <1>3, <2>1, Zenon DEF IsSortedBy
<1>8. Cardinality(S) \in Nat /\ Pairs(sl, path) \in [1..Cardinality(S) -> S]
  BY <1>2, <1>6, <1>7, SortedFact
<1> HIDE DEF P
<1>9. Pairs(sl, path) \in [1..Cardinality(S) -> P]
  BY <1>1, <1>8
<1>10. Pairs(sl, path) \in Seq(P)
  BY <1>8, <1>9
<1>11. QED
  BY <1>10 DEF P

\* Exchanging two priorities gives an order.
LEMMA SwappedFact ==
  ASSUME model \in Models, priority \in Orders, NEW a \in Hop, NEW b \in Hop, a # b
  PROVE  [priority EXCEPT ![a] = priority[b], ![b] = priority[a]] \in Orders
<1> DEFINE o == [priority EXCEPT ![a] = priority[b], ![b] = priority[a]]
<1>1. /\ priority \in [Hop -> Priorities]
      /\ \A g, h \in Hop : priority[g] = priority[h] => g = h
      /\ \A p \in Priorities : \E h \in Hop : priority[h] = p
  BY DEF Orders
<1>2. /\ o \in [Hop -> Priorities] /\ o[a] = priority[b] /\ o[b] = priority[a]
      /\ \A h \in Hop : h # a /\ h # b => o[h] = priority[h]
  BY <1>1
<1> HIDE DEF o
<1>3. \A g, h \in Hop : o[g] = o[h] => g = h
  BY <1>1, <1>2
<1>4. \A p \in Priorities : \E h \in Hop : o[h] = p
  BY <1>1, <1>2
<1>5. o \in Orders
  BY <1>2, <1>3, <1>4 DEF Orders
<1>6. QED
  BY <1>5 DEF o

\* All the search tries are orders.
LEMMA NeighboursType ==
  ASSUME model \in Models, priority \in Orders, NEW sl \in [Hop -> Int],
         MovablePaths(sl) # {}
  PROVE  Neighbours(sl) \in Seq(Orders)
<1> DEFINE path == model.paths[WorstMovablePath(sl)].hops
           pairs == Pairs(sl, path)
           Swap(i) == [priority EXCEPT ![pairs[i][1]] = priority[pairs[i][2]],
                                       ![pairs[i][2]] = priority[pairs[i][1]]]
           swaps == [i \in DOMAIN pairs |-> Swap(i)]
           N(i) == {path[i]} \union NearestBlockers(sl, path[i], 3)
           others == [i \in DOMAIN path |-> Reorderings(N(i))]
<1>1. Neighbours(sl) = swaps \o FlattenSeq(others)
  BY Zenon DEF Neighbours, Pairs
<1>2. path \in Seq(Hop)
  BY WorstPathFact, PathFacts
<1> HIDE DEF path
<1>3. pairs \in Seq({p \in Hop \X Hop : p[1] # p[2]})
  BY <1>2, PairsType
<1>4. swaps \in Seq(Orders)
  <2> HIDE DEF pairs
  <2>1. Len(pairs) \in Nat /\ DOMAIN pairs = 1..Len(pairs)
    BY <1>3
  <2>2. ASSUME NEW i \in DOMAIN pairs PROVE Swap(i) \in Orders
    <3>1. pairs[i] \in {p \in Hop \X Hop : p[1] # p[2]}
      BY <1>3, <2>1
    <3>2. pairs[i][1] \in Hop /\ pairs[i][2] \in Hop /\ pairs[i][1] # pairs[i][2]
      BY <3>1
    <3>3. QED
      BY <3>2, SwappedFact
  <2>3. swaps \in [1..Len(pairs) -> Orders]
    <3> HIDE DEF Swap
    <3>1. QED
      BY <2>1, <2>2
  <2> HIDE DEF swaps
  <2>4. QED
    BY <2>1, <2>3
<1>5. others \in Seq(Seq(Orders))
  <2>1. Len(path) \in Nat /\ DOMAIN path = 1..Len(path)
    BY <1>2
  <2>2. ASSUME NEW i \in DOMAIN path PROVE Reorderings(N(i)) \in Seq(Orders)
    <3>1. path[i] \in Hop
      BY <1>2, <2>1
    <3>2. N(i) \in SUBSET Hop
      BY <3>1 DEF NearestBlockers, Blockers
    <3> HIDE DEF N
    <3>3. QED
      BY <3>2, ReorderingsType
  <2>3. others \in [1..Len(path) -> Seq(Orders)]
    <3> HIDE DEF N
    <3>1. QED
      BY <2>1, <2>2
  <2> HIDE DEF others
  <2>4. QED
    BY <2>1, <2>3
<1>6. FlattenSeq(others) \in Seq(Orders)
  <2> HIDE DEF others
  <2>1. QED
    BY <1>5, FlattenType
<1> HIDE DEF swaps, others
<1>7. swaps \o FlattenSeq(others) \in Seq(Orders)
  BY <1>4, <1>6
<1>8. QED
  BY <1>1, <1>7

-----------------------------------------------------------------------------
(* Types.                                                                  *)

\* The part of TypeOK that is about slots and counters.
BoundInv ==
  /\ pc \in {"round", "place", "search", "next", "done", "failed"}
  /\ round \in 0..(MaximumRound + 1)
  /\ pc = "place" => round <= MaximumRound
  /\ source_ready \in 0..(model.frame_slots + model.settle_slots)
  /\ slots \in SlotMaps /\ ready \in SlotMaps
  /\ route_completion \in [Routes -> -1..(model.frame_slots - 1)]
  /\ incumbent \in Schedules \union {None}
  /\ best \in Schedules \union {None}
  /\ iteration \in 0..model.max_iterations

\* The part of TypeOK that is about orders.
OrderInv ==
  /\ priority \in Orders /\ trial \in Orders /\ untried \in Seq(Orders)
  /\ best_priority # None => best_priority \in Orders

\* What read_model checks of the frame and the iterations.
LEMMA MoreModelFacts ==
  ASSUME model \in Models
  PROVE  model.frame_slots \in Nat \ {0} /\ model.max_iterations \in Nat
  BY ModelAssumption DEF ReadOK

\* A slot that is placed is in the frame, and so is its arrival.
LEMMA PlacedBound ==
  ASSUME model \in Models, BuildInv, NEW h \in Hop, Placed(h)
  PROVE  /\ slots[h] \in 0..(model.frame_slots - 1)
         /\ ready[h] \in 0..(model.frame_slots - 1)
         /\ Arrival(model, slots, h) \in 0..(model.frame_slots - 1)
<1>1. slots \in [Hop -> Int] /\ slots[h] \in Int /\ slots[h] >= 0
  BY DEF BuildInv, BuildType, Placed
<1>2. Arrival(model, slots, h) \in Int /\ slots[h] <= Arrival(model, slots, h)
  BY <1>1, ArrivalType
<1>3. /\ ready[h] = SourceReady(model, slots, h) /\ ready[h] <= slots[h]
      /\ Arrival(model, slots, h) < model.frame_slots - model.runtime_barrier_slots
  BY DEF BuildInv, SlotInv
<1>4. ready[h] \in Nat
  BY <1>1, <1>3, SourceReadyFact
<1>5. model.frame_slots \in Nat /\ model.runtime_barrier_slots \in Nat
  BY ModelFacts
<1>6. Arrival(model, slots, h) < model.frame_slots
  BY <1>2, <1>3, <1>5
<1>7. QED
  BY <1>1, <1>2, <1>3, <1>4, <1>5, <1>6

\* What the sinks of the completed rounds have is in the frame.
LEMMA CompletionBound ==
  ASSUME model \in Models, BuildInv
  PROVE  /\ slots \in SlotMaps
         /\ route_completion \in [Routes -> -1..(model.frame_slots - 1)]
         /\ pc = "place" => source_ready \in 0..(model.frame_slots + model.settle_slots)
<1>1. /\ slots \in [Hop -> Int] /\ \A h \in Hop : slots[h] >= -1
      /\ round \in Nat /\ route_completion \in [Routes -> Int]
  BY DEF BuildInv, BuildType
<1>2. model.frame_slots \in Nat /\ model.frame_slots # 0 /\ model.settle_slots \in Nat
  BY ModelFacts, MoreModelFacts
<1>3. slots \in SlotMaps
  <2>1. ASSUME NEW h \in Hop PROVE slots[h] \in -1..(model.frame_slots - 1)
    <3>1. CASE Placed(h)
      BY <1>2, <3>1, PlacedBound
    <3>2. CASE ~Placed(h)
      BY <1>1, <1>2, <3>2 DEF Placed
    <3>3. QED
      BY <3>1, <3>2
  <2>2. QED
    BY <1>1, <2>1 DEF SlotMaps
<1>4. ASSUME NEW s \in model.sinks, s.round < round
      PROVE  Arrival(model, slots, s.hop) \in 0..(model.frame_slots - 1)
  <2>1. s.hop \in Hop /\ model.hops[s.hop].round < round
    BY <1>4, ModelFacts
  <2>2. Placed(s.hop)
    BY <2>1 DEF BuildInv, RoundInv
  <2>3. QED
    BY <2>1, <2>2, PlacedBound
<1>5. route_completion \in [Routes -> -1..(model.frame_slots - 1)]
  <2>1. ASSUME NEW r \in Routes
        PROVE  route_completion[r] \in -1..(model.frame_slots - 1)
    <3>1. \/ route_completion[r] = -1
          \/ \E s \in model.sinks : /\ s.round < round
               /\ route_completion[r] = Arrival(model, slots, s.hop)
      BY DEF BuildInv, CompletionInv
    <3>2. QED
      BY <1>2, <1>4, <3>1
  <2>2. QED
    BY <1>1, <2>1
<1>6. ASSUME pc = "place"
      PROVE  source_ready \in 0..(model.frame_slots + model.settle_slots)
  <2>1. source_ready = RoundStart(model, slots, round)
    BY <1>6 DEF BuildInv, SourceInv
  <2>2. \/ RoundStart(model, slots, round) = 0
        \/ \E s \in model.sinks : /\ s.round < round
             /\ RoundStart(model, slots, round)
                  = Arrival(model, slots, s.hop) + model.settle_slots
    BY <1>1, RoundStartFact
  <2>3. QED
    BY <1>2, <1>4, <2>1, <2>2
<1>7. QED
  BY <1>3, <1>5, <1>6

\* The bounds that build_schedule keeps.
BuildBounds ==
  /\ slots \in SlotMaps
  /\ route_completion \in [Routes -> -1..(model.frame_slots - 1)]
  /\ pc = "place" => source_ready \in 0..(model.frame_slots + model.settle_slots)
  /\ \A h \in Hop : Placed(h) => ready[h] \in 0..(model.frame_slots - 1)

\* They follow from what build_schedule keeps true of its placement.
LEMMA BuildIsBounded == model \in Models /\ BuildInv => BuildBounds
  BY CompletionBound, PlacedBound DEF BuildBounds

\* What is computed from the input does not change with the state.
LEMMA SameModel ==
  ASSUME model' = model
  PROVE  /\ MaximumRound' = MaximumRound /\ Routes' = Routes
         /\ SlotMaps' = SlotMaps /\ Schedules' = Schedules /\ Orders' = Orders
  BY DEF MaximumRound, Routes, SlotMaps, Schedules, Orders, Priorities

\* No step changes the input.
LEMMA NextKeepsModel == [Next]_vars => model' = model
  BY DEF Next, vars, StartRound, PlaceHop, EndRound, FirstSchedule, JudgeCandidate,
     Search, TryNext, Accept, Finish

\* The bounds hold when the program starts.
LEMMA InitBounds == Init => BoundInv /\ OrderInv
<1> SUFFICES ASSUME Init PROVE BoundInv /\ OrderInv
  OBVIOUS
<1>1. model \in Models
  BY DEF Init
<1>2. MaximumRound \in Nat
  BY <1>1, MaximumRoundFact
<1>3. /\ model.frame_slots \in Nat /\ model.frame_slots # 0
      /\ model.settle_slots \in Nat /\ model.max_iterations \in Nat
  BY <1>1, ModelFacts, MoreModelFacts
<1>4. BoundInv
  BY <1>2, <1>3 DEF Init, BoundInv, SlotMaps, NoSlots
<1>5. priority \in Orders
  <2>1. \A g, h \in Hop : priority[g] = priority[h] => g = h
    BY <1>1, GivenFacts DEF Init
  <2>2. QED
    BY <2>1 DEF Init, Orders, Priorities
<1>6. OrderInv
  BY <1>5 DEF Init, OrderInv
<1>7. QED
  BY <1>4, <1>6

\* A candidate is a schedule when build_schedule kept the bounds.
LEMMA CandidateType ==
  ASSUME slots \in SlotMaps, ready \in SlotMaps
  PROVE  Candidate \in Schedules
  BY DEF Candidate, Schedules

\* Every step keeps the bounds.
LEMMA StepBounds == FeasibleInv /\ BoundInv /\ [Next]_vars => BoundInv'
<1> SUFFICES ASSUME FeasibleInv, BoundInv, [Next]_vars PROVE BoundInv'
  OBVIOUS
<1>0. /\ model \in Models /\ model' = model /\ model' \in Models
      /\ Building => BuildInv
      /\ Building' => BuildInv'
      /\ LegalInv /\ GivenInv
  BY NextKeepsModel, StepLegal DEF FeasibleInv, LegalInv
<1>same. /\ MaximumRound' = MaximumRound /\ Routes' = Routes
      /\ SlotMaps' = SlotMaps /\ Schedules' = Schedules /\ MaximumRound \in Nat
  BY <1>0, SameModel, MaximumRoundFact
<1>buildBounds. Building' => BuildBounds'
  <2>1. (model \in Models)'
    BY <1>0
  <2>2. QED
    BY <1>0, <2>1, BuildIsBounded, PTL
<1>inBounds. Building' =>
        /\ slots' \in SlotMaps
        /\ route_completion' \in [Routes -> -1..(model.frame_slots - 1)]
        /\ pc' = "place" =>
             source_ready' \in 0..(model.frame_slots + model.settle_slots)
  BY <1>0, <1>same, <1>buildBounds DEF BuildBounds
<1>1. CASE StartRound
  <2>1. /\ pc = "round" /\ round <= MaximumRound
        /\ UNCHANGED <<round, slots, ready, route_completion, incumbent, best,
                       iteration>>
        /\ pc' = "place" \/ UNCHANGED source_ready
        /\ pc' \in {"place", "next", "failed"}
    BY <1>1 DEF StartRound, Infeasible
  <2>2. source_ready' \in 0..(model.frame_slots + model.settle_slots)
    BY <1>0, <1>inBounds, <2>1 DEF BoundInv, Building
  <2>3. QED
    BY <1>0, <1>same, <2>1, <2>2 DEF BoundInv
<1>2. CASE PlaceHop
  <2>1. /\ pc = "place"
        /\ UNCHANGED <<round, source_ready, route_completion, incumbent, best,
                       iteration>>
        /\ pc' \in {"place", "next", "failed"}
    BY <1>2 DEF PlaceHop, Infeasible
  <2>2. PICK h \in ReadyQueue :
          \/ UNCHANGED <<slots, ready>>
          \/ Places(h)
    BY <1>2 DEF PlaceHop, Places
  <2>3. CASE UNCHANGED <<slots, ready>>
    BY <1>0, <1>same, <2>1, <2>3 DEF BoundInv
  <2>4. CASE Places(h)
    <3>1. /\ h \in Hop /\ Placed(h)' /\ ready' \in [Hop -> Int]
          /\ \A g \in Hop : g # h => ready'[g] = ready[g]
      BY <1>0, <2>1, <2>4, PlacedAfter DEF Building
    <3>2. Building' /\ pc' = "place"
      BY <2>4 DEF Places, Building
    <3>3. ready'[h] \in 0..(model'.frame_slots - 1)
      BY <1>buildBounds, <3>1, <3>2 DEF BuildBounds
    <3>4. ready' \in SlotMaps
      <4>1. ready \in [Hop -> -1..(model.frame_slots - 1)]
        BY DEF BoundInv, SlotMaps
      <4>2. ASSUME NEW g \in Hop PROVE ready'[g] \in -1..(model.frame_slots - 1)
        BY <1>0, <3>1, <3>3, <4>1
      <4>3. QED
        BY <3>1, <4>2 DEF SlotMaps
    <3>5. slots' \in SlotMaps
      BY <1>same, <1>inBounds, <3>2
    <3>6. QED
      BY <1>0, <1>same, <2>1, <3>4, <3>5 DEF BoundInv
  <2>5. QED
    BY <2>2, <2>3, <2>4
<1>3. CASE EndRound
  <2>1. /\ pc = "place" /\ round <= MaximumRound /\ round \in 0..(MaximumRound + 1)
        /\ UNCHANGED <<source_ready, slots, ready, incumbent, best, iteration>>
        /\ \/ pc' \in {"next", "failed"} /\ UNCHANGED <<route_completion, round>>
           \/ pc' = "round" /\ round' = round + 1
    BY <1>3 DEF EndRound, Infeasible, BoundInv
  <2>2. route_completion' \in [Routes -> -1..(model.frame_slots - 1)]
    BY <1>0, <1>same, <1>inBounds, <2>1 DEF Building, BoundInv
  <2>3. round' \in 0..(MaximumRound + 1)
    BY <1>same, <2>1
  <2>4. QED
    BY <1>0, <1>same, <2>1, <2>2, <2>3 DEF BoundInv
<1>4. CASE FirstSchedule
  BY <1>0, <1>same, <1>4, CandidateType DEF FirstSchedule, BoundInv, building
<1>5. CASE JudgeCandidate
  <2>1. best' \in {Candidate, best} /\ pc' = "next"
        /\ UNCHANGED <<round, source_ready, slots, ready, route_completion,
                       incumbent, iteration>>
    BY <1>5 DEF JudgeCandidate, building
  <2>2. QED
    BY <1>0, <1>same, <2>1, CandidateType DEF BoundInv
<1>6. CASE Search
  <2>1. iteration' \in 0..model.max_iterations
    <3>1. /\ iteration < model.max_iterations /\ iteration' = iteration + 1
          /\ iteration \in 0..model.max_iterations /\ model.max_iterations \in Nat
      BY <1>0, <1>6, MoreModelFacts DEF Search, BoundInv
    <3>2. QED
      BY <3>1
  <2>2. QED
    BY <1>0, <1>same, <1>6, <2>1 DEF Search, BoundInv, building
<1>7. CASE TryNext
  <2>1. /\ pc' = "round" /\ round' = 0 /\ source_ready' = 0
        /\ slots' = NoSlots /\ ready' = NoSlots
        /\ UNCHANGED <<incumbent, best, iteration>>
    BY <1>7 DEF TryNext, Build
  <2>2. /\ slots' \in SlotMaps
        /\ route_completion' \in [Routes -> -1..(model.frame_slots - 1)]
    BY <1>0, <1>same, <1>inBounds, <2>1 DEF Building
  <2>3. 0 \in 0..(model.frame_slots + model.settle_slots) /\ 0 \in 0..(MaximumRound + 1)
    BY <1>0, <1>same, ModelFacts
  <2>4. QED
    BY <1>0, <1>same, <2>1, <2>2, <2>3 DEF BoundInv
<1>8. CASE Accept
  BY <1>0, <1>same, <1>8 DEF Accept, BoundInv, building
<1>9. CASE Finish
  BY <1>0, <1>same, <1>9 DEF Finish, BoundInv, building
<1>10. CASE UNCHANGED vars
  BY <1>0, <1>same, <1>10 DEF vars, BoundInv, building
<1>11. QED
  BY <1>1, <1>2, <1>3, <1>4, <1>5, <1>6, <1>7, <1>8, <1>9, <1>10 DEF Next

\* Every step keeps orders orders.
LEMMA StepOrders == FeasibleInv /\ BoundInv /\ OrderInv /\ [Next]_vars => OrderInv'
<1> SUFFICES ASSUME FeasibleInv, BoundInv, OrderInv, [Next]_vars PROVE OrderInv'
  OBVIOUS
<1>0. model \in Models /\ model' = model /\ Orders' = Orders
  BY NextKeepsModel, SameModel DEF FeasibleInv, LegalInv
<1>1. CASE StartRound \/ PlaceHop \/ EndRound \/ FirstSchedule \/ Finish
           \/ UNCHANGED vars
  <2>1. UNCHANGED <<priority, trial, untried, best_priority>>
    BY <1>1 DEF StartRound, PlaceHop, EndRound, FirstSchedule, Finish, vars, building
  <2>2. QED
    BY <1>0, <2>1 DEF OrderInv
<1>2. CASE JudgeCandidate
  BY <1>0, <1>2 DEF JudgeCandidate, building, OrderInv
<1>3. CASE Search
  <2>1. incumbent # None
    BY <1>3 DEF Search, FeasibleInv, GivenInv, OnTime, Building
  <2>2. incumbent.slots \in [Hop -> Int]
    BY <2>1 DEF BoundInv, Schedules, SlotMaps
  <2>3. /\ untried' = Neighbours(incumbent.slots) /\ MovablePaths(incumbent.slots) # {}
        /\ best_priority' = None /\ UNCHANGED <<priority, trial>>
    BY <1>3 DEF Search, building
  <2>4. untried' \in Seq(Orders)
    BY <1>0, <2>2, <2>3, NeighboursType DEF OrderInv
  <2>5. QED
    BY <1>0, <2>3, <2>4 DEF OrderInv
<1>4. CASE TryNext
  <2>1. /\ untried # <<>> /\ untried \in Seq(Orders)
        /\ untried' = Tail(untried) /\ trial' = Head(untried)
        /\ UNCHANGED <<priority, best_priority>>
    BY <1>4 DEF TryNext, Build, OrderInv
  <2>2. Tail(untried) \in Seq(Orders) /\ Head(untried) \in Orders
    BY <2>1
  <2>3. QED
    BY <1>0, <2>1, <2>2 DEF OrderInv
<1>5. CASE Accept
  BY <1>0, <1>5 DEF Accept, building, OrderInv
<1>6. QED
  BY <1>1, <1>2, <1>3, <1>4, <1>5 DEF Next

\* The inductive invariant behind TypeOK.
TypeInv == FeasibleInv /\ BoundInv /\ OrderInv

\* For every input the search keeps orders that are permutations of the
\* input's priorities, whatever swaps and reorderings it makes, and every slot
\* of every schedule, complete or not, is in the frame.
THEOREM TypeCorrect == Spec => []TypeOK
<1>1. Init => TypeInv
  BY InitFeasible, InitBounds DEF TypeInv
<1>2. TypeInv /\ [Next]_vars => TypeInv'
  BY StepFeasible, StepBounds, StepOrders DEF TypeInv
<1>3. TypeInv => TypeOK
  <2> SUFFICES ASSUME TypeInv PROVE TypeOK
    OBVIOUS
  <2>1. model \in Models
    BY DEF TypeInv, FeasibleInv, LegalInv
  <2>2. \A o \in {priority, trial} \union Range(untried) : o \in Orders
    BY DEF TypeInv, OrderInv, Range
  <2>3. \A o \in Orders : IsOrder(o)
    BY <2>1, OrderFact
  <2>4. best_priority = None \/ IsOrder(best_priority)
    BY <2>3 DEF TypeInv, OrderInv
  <2>5. QED
    BY <2>2, <2>3, <2>4 DEF TypeInv, BoundInv, TypeOK
<1>4. QED
  BY <1>1, <1>2, <1>3, PTL DEF Spec

-----------------------------------------------------------------------------
(* The order and the schedule of the incumbent belong together.            *)

\* Hop h waits, in the schedule s, only for whom the order o lets it wait.
WaitsFor(o, sl, rd, h) ==
  \A t \in rd[h]..(sl[h] - 1) : \E g \in Hop :
    /\ model.hops[g].lane = model.hops[h].lane /\ sl[g] = t
    /\ \/ model.hops[g].round < model.hops[h].round
       \/ model.hops[g].round = model.hops[h].round
          /\ (Parents(h) = {} => o[g] < o[h])

\* While a schedule is built: what is placed waits for a reason, and what is
\* placed precedes what could have been placed.
BuildWaits ==
  /\ \A h \in Hop : Placed(h) => WaitsFor(trial, slots, ready, h)
  /\ \A g, h \in Hop :
       /\ model.hops[g].round = model.hops[h].round
       /\ Placed(g) /\ ~Placed(h) /\ Parents(h) = {}
       => trial[g] < trial[h]

\* The inductive invariant behind WaitJustified.
WaitInv ==
  /\ Building => BuildWaits
  /\ incumbent = None => trial = priority
  /\ incumbent # None =>
       \A h \in Hop : WaitsFor(priority, incumbent.slots, incumbent.ready, h)
  /\ best_priority # None =>
       \A h \in Hop : WaitsFor(best_priority, best.slots, best.ready, h)

\* A hop is placed at the first free slot, when it heads the queue.
LEMMA PlaceWaits ==
  ASSUME model \in Models, BuildInv, BuildWaits, trial \in Orders, NEW h, Places(h)
  PROVE  BuildWaits'
<1>1. /\ h \in Hop /\ ~Placed(h) /\ Placed(h)'
      /\ slots'[h] = Min(Free(h)) /\ ready'[h] = ReadySlot(h)
      /\ \A g \in Hop : g # h => /\ slots'[g] = slots[g] /\ ready'[g] = ready[g]
                                 /\ Placed(g)' <=> Placed(g)
  BY PlacedAfter
<1>2. /\ model' = model /\ trial' = trial /\ pc = "place"
      /\ h \in ReadyQueue /\ IsTop(h) /\ Free(h) # {}
  BY DEF Places
<1>3. /\ model.hops[h].round = round /\ ReadySlot(h) \in Nat
      /\ \A s \in ReadySlot(h)..(Min(Free(h)) - 1) : Occupied(h, s)
  BY <1>2, ReadySlotFact, FirstFree
<1>4. \A k \in Hop : Parents(k)' = Parents(k)
  BY <1>2 DEF Parents
<1>5. ASSUME NEW k \in Hop, Placed(k)' PROVE WaitsFor(trial, slots, ready, k)'
  <2> SUFFICES ASSUME NEW t \in ready'[k]..(slots'[k] - 1)
               PROVE  \E g \in Hop :
                        /\ model.hops[g].lane = model.hops[k].lane /\ slots'[g] = t
                        /\ \/ model.hops[g].round < model.hops[k].round
                           \/ model.hops[g].round = model.hops[k].round
                              /\ (Parents(k) = {} => trial[g] < trial[k])
    BY <1>2, <1>4 DEF WaitsFor
  <2>1. CASE k # h
    <3>1. Placed(k) /\ slots'[k] = slots[k] /\ ready'[k] = ready[k]
      BY <1>1, <1>5, <2>1
    <3>2. PICK g \in Hop :
            /\ model.hops[g].lane = model.hops[k].lane /\ slots[g] = t
            /\ \/ model.hops[g].round < model.hops[k].round
               \/ model.hops[g].round = model.hops[k].round
                  /\ (Parents(k) = {} => trial[g] < trial[k])
      BY <3>1 DEF BuildWaits, WaitsFor
    <3>3. t >= 0
      <4>1. ready[k] \in Nat /\ slots[k] \in Int
        BY <3>1, PlacedBound
      <4>2. QED
        BY <3>1, <4>1
    <3>4. g # h
      BY <1>1, <3>2, <3>3 DEF Placed
    <3>5. QED
      BY <1>1, <3>2, <3>4
  <2>2. CASE k = h
    <3>1. t \in ReadySlot(h)..(Min(Free(h)) - 1) /\ t >= 0
      BY <1>1, <1>3, <2>2
    <3>2. PICK g \in Hop : model.hops[g].lane = model.hops[h].lane /\ slots[g] = t
      BY <1>3, <3>1 DEF Occupied
    <3>3. Placed(g) /\ g # h
      BY <1>1, <3>1, <3>2 DEF Placed
    <3>4. model.hops[g].round < round \/ model.hops[g].round = round
      BY <3>3 DEF BuildInv, RoundInv
    <3>5. model.hops[g].round = round /\ Parents(h) = {} => trial[g] < trial[h]
      BY <1>1, <1>3, <3>3 DEF BuildWaits
    <3>6. QED
      BY <1>1, <1>3, <2>2, <3>2, <3>3, <3>4, <3>5
  <2>3. QED
    BY <2>1, <2>2
<1>6. ASSUME NEW g \in Hop, NEW k \in Hop,
             model.hops[g].round = model.hops[k].round,
             Placed(g)', ~Placed(k)', Parents(k) = {}
      PROVE  trial[g] < trial[k]
  <2>1. k # h /\ ~Placed(k)
    BY <1>1, <1>6
  <2>2. CASE g # h
    BY <1>1, <1>6, <2>1, <2>2 DEF BuildWaits
  <2>3. CASE g = h
    <3>1. k \in ReadyQueue
      BY <1>3, <1>6, <2>1, <2>3 DEF ReadyQueue
    <3>2. trial[h] < trial[k] \/ trial[h] = trial[k]
      BY <1>2, <3>1 DEF IsTop
    <3>3. trial[h] # trial[k]
      BY <1>1, <2>1 DEF Orders
    <3>4. QED
      BY <2>3, <3>2, <3>3
  <2>4. QED
    BY <2>2, <2>3
<1>7. QED
  BY <1>2, <1>4, <1>5, <1>6 DEF BuildWaits

\* A step that places nothing changes no wait.
LEMMA KeptWaits ==
  ASSUME UNCHANGED <<model, slots, ready, trial>>, BuildWaits
  PROVE  BuildWaits'
  BY DEF BuildWaits, WaitsFor, Parents, Placed

\* A complete schedule waits as its order lets it.
LEMMA CompleteWaits ==
  ASSUME model \in Models, BuildInv, BuildWaits, round > MaximumRound
  PROVE  \A h \in Hop : WaitsFor(trial, Candidate.slots, Candidate.ready, h)
<1>1. \A h \in Hop : Placed(h)
  <2>1. \A h \in Hop : model.hops[h].round < round
    BY MaximumRoundFact, ModelFacts DEF BuildInv, BuildType
  <2>2. QED
    BY <2>1 DEF BuildInv, RoundInv
<1>2. Candidate.slots = slots /\ Candidate.ready = ready
  BY DEF Candidate
<1>3. QED
  BY <1>1, <1>2 DEF BuildWaits

\* Nothing waits before a hop is placed.
LEMMA InitWaits == Init => WaitInv
<1> SUFFICES ASSUME Init PROVE WaitInv
  OBVIOUS
<1>1. \A h \in Hop : ~Placed(h)
  BY DEF Init, Placed, NoSlots
<1>2. BuildWaits
  BY <1>1 DEF BuildWaits
<1>3. QED
  BY <1>2 DEF Init, WaitInv

\* Every step keeps the waits justified.
LEMMA StepWaits == TypeInv /\ WaitInv /\ [Next]_vars => WaitInv'
<1> SUFFICES ASSUME TypeInv, WaitInv, [Next]_vars PROVE WaitInv'
  OBVIOUS
<1>0. /\ model \in Models /\ model' = model
      /\ Building => BuildInv
      /\ best_priority # None => best # None
      /\ incumbent = None => Building
      /\ trial \in Orders
  BY NextKeepsModel DEF TypeInv, FeasibleInv, LegalInv, GivenInv, OnTime, OrderInv
<1>same. ASSUME UNCHANGED <<incumbent, priority, best, best_priority>>
      PROVE  /\ incumbent' # None => \A h \in Hop :
                  WaitsFor(priority, incumbent.slots, incumbent.ready, h)'
             /\ best_priority' # None => \A h \in Hop :
                  WaitsFor(best_priority, best.slots, best.ready, h)'
  BY <1>0, <1>same DEF WaitInv, WaitsFor, Parents
<1>1. CASE StartRound \/ EndRound \/ Finish \/ UNCHANGED vars
  <2>1. UNCHANGED <<incumbent, priority, best, best_priority, slots, ready, trial>>
    BY <1>1 DEF StartRound, EndRound, Finish, vars, building
  <2>2. Building' => Building
    BY <1>1 DEF StartRound, EndRound, Finish, vars, Building
  <2>3. Building' => BuildWaits'
    BY <1>0, <2>1, <2>2, KeptWaits DEF WaitInv
  <2>4. QED
    BY <1>same, <2>1, <2>3 DEF WaitInv
<1>2. CASE PlaceHop
  <2>1. UNCHANGED <<incumbent, priority, best, best_priority, trial>>
        /\ pc = "place" /\ Building
    BY <1>2 DEF PlaceHop, Building
  <2>2. ASSUME Building' PROVE BuildWaits'
    <3>1. PICK h \in ReadyQueue : Places(h)
      BY <1>2, <2>1, <2>2 DEF PlaceHop, Infeasible, Places, Building
    <3>2. QED
      BY <1>0, <2>1, <3>1, PlaceWaits DEF WaitInv
  <2>3. QED
    BY <1>same, <2>1, <2>2 DEF WaitInv
<1>3. CASE FirstSchedule
  <2>1. /\ incumbent = None /\ incumbent' = Candidate /\ pc' = "search"
        /\ Building /\ round > MaximumRound
        /\ UNCHANGED <<priority, trial, best, best_priority, slots, ready>>
    BY <1>3 DEF FirstSchedule, building, Building
  <2>2. \A h \in Hop : WaitsFor(priority, Candidate.slots, Candidate.ready, h)
    BY <1>0, <2>1, CompleteWaits DEF WaitInv
  <2>3. \A h \in Hop : WaitsFor(priority, incumbent.slots, incumbent.ready, h)'
    BY <1>0, <2>1, <2>2 DEF WaitsFor, Parents
  <2>4. best_priority' # None => \A h \in Hop :
          WaitsFor(best_priority, best.slots, best.ready, h)'
    BY <1>0, <2>1 DEF WaitInv, WaitsFor, Parents
  <2>5. incumbent' = None => trial' = priority'
    BY <2>1 DEF WaitInv
  <2>6. ~Building'
    BY <2>1 DEF Building
  <2>7. QED
    BY <2>3, <2>4, <2>5, <2>6 DEF WaitInv
<1>4. CASE JudgeCandidate
  <2>1. /\ incumbent # None /\ pc' = "next" /\ Building /\ round > MaximumRound
        /\ UNCHANGED <<priority, trial, incumbent, slots, ready>>
        /\ \/ best' = Candidate /\ best_priority' = trial
           \/ UNCHANGED <<best, best_priority>>
    BY <1>4 DEF JudgeCandidate, building, Building
  <2>2. \A h \in Hop : WaitsFor(trial, Candidate.slots, Candidate.ready, h)
    BY <1>0, <2>1, CompleteWaits DEF WaitInv
  <2>3. best_priority' # None => \A h \in Hop :
          WaitsFor(best_priority, best.slots, best.ready, h)'
    BY <1>0, <2>1, <2>2 DEF WaitInv, WaitsFor, Parents
  <2>4. \A h \in Hop : WaitsFor(priority, incumbent.slots, incumbent.ready, h)'
    BY <1>0, <2>1 DEF WaitInv, WaitsFor, Parents
  <2>5. ~Building'
    BY <2>1 DEF Building
  <2>6. QED
    BY <2>1, <2>3, <2>4, <2>5 DEF WaitInv
<1>5. CASE Search
  <2>1. /\ UNCHANGED <<priority, incumbent>> /\ best_priority' = None
        /\ ~Building' /\ incumbent # None
    BY <1>0, <1>5 DEF Search, Building
  <2>2. \A h \in Hop : WaitsFor(priority, incumbent.slots, incumbent.ready, h)'
    BY <1>0, <2>1 DEF WaitInv, WaitsFor, Parents
  <2>3. QED
    BY <2>1, <2>2 DEF WaitInv
<1>6. CASE TryNext
  <2>1. /\ UNCHANGED <<incumbent, priority, best, best_priority>>
        /\ slots' = NoSlots /\ incumbent # None
    BY <1>0, <1>6 DEF TryNext, Build, Building
  <2>2. \A h \in Hop : ~Placed(h)'
    BY <2>1 DEF Placed, NoSlots
  <2>3. BuildWaits'
    BY <2>2 DEF BuildWaits
  <2>4. QED
    BY <1>same, <2>1, <2>3 DEF WaitInv
<1>7. CASE Accept
  <2>1. /\ best_priority # None /\ priority' = best_priority /\ incumbent' = best
        /\ UNCHANGED <<best, best_priority>> /\ ~Building'
    BY <1>7 DEF Accept, Building
  <2>2. incumbent' # None
    BY <1>0, <2>1
  <2>3. \A h \in Hop : WaitsFor(best_priority, best.slots, best.ready, h)'
    BY <1>0, <2>1 DEF WaitInv, WaitsFor, Parents
  <2>4. \A h \in Hop : WaitsFor(priority, incumbent.slots, incumbent.ready, h)'
    BY <1>0, <2>1, <2>3 DEF WaitsFor, Parents
  <2>5. QED
    BY <2>1, <2>2, <2>3, <2>4 DEF WaitInv
<1>8. QED
  BY <1>1, <1>2, <1>3, <1>4, <1>5, <1>6, <1>7 DEF Next

\* For every input the incumbent's schedule is the one its order builds, as far
\* as waiting shows it: every slot a hop waits is taken by a hop of its lane,
\* and a hop without parents waits only for hops before it.
THEOREM OrderAndSlotsAgree == Spec => []WaitJustified
<1>1. Init => TypeInv /\ WaitInv
  BY InitFeasible, InitBounds, InitWaits DEF TypeInv
<1>2. TypeInv /\ WaitInv /\ [Next]_vars => (TypeInv /\ WaitInv)'
  <2>1. TypeInv /\ [Next]_vars => TypeInv'
    BY StepFeasible, StepBounds, StepOrders DEF TypeInv
  <2>2. QED
    BY <2>1, StepWaits
<1>3. WaitInv => WaitJustified
  BY DEF WaitInv, WaitsFor, WaitJustified
<1>4. QED
  BY <1>1, <1>2, <1>3, PTL DEF Spec

-----------------------------------------------------------------------------
(* The search never gives up a schedule for a worse one.                   *)

\* The first two keys of better.
NotWorse(s, t) ==
  \/ WorstSlack(s.slots) > WorstSlack(t.slots)
  \/ /\ WorstSlack(s.slots) = WorstSlack(t.slots)
     /\ TotalNegativeSlack(s.slots) >= TotalNegativeSlack(t.slots)

\* The first two of a list of keys.
LEMMA FirstKeys ==
  ASSUME NEW a, NEW b, NEW c, NEW d, NEW e, NEW n \in Nat, NEW U,
         NEW f \in [1..n -> U]
  PROVE  LET k == <<a, b, c, d, e>> \o f
         IN  k[1] = a /\ k[2] = b /\ DOMAIN k = 1..(5 + n)
<1> DEFINE V == U \union {a, b, c, d, e}
           s == <<a, b, c, d, e>>
<1>1. s \in Seq(V) /\ Len(s) = 5 /\ s[1] = a /\ s[2] = b
  OBVIOUS
<1>2. f \in Seq(V) /\ Len(f) = n
  OBVIOUS
<1> HIDE DEF V, s
<1>3. ASSUME NEW t \in Seq(V), NEW u \in Seq(V)
      PROVE  /\ DOMAIN (t \o u) = 1..(Len(t) + Len(u))
             /\ \A i \in 1..Len(t) : (t \o u)[i] = t[i]
  <2>1. t \o u \in Seq(V) /\ Len(t \o u) = Len(t) + Len(u)
    OBVIOUS
  <2>2. DOMAIN (t \o u) = 1..Len(t \o u)
    BY <2>1
  <2>3. ASSUME NEW i \in 1..Len(t)
        PROVE  (t \o u)[i] = t[i]
    OBVIOUS
  <2>4. QED
    BY <2>1, <2>2, <2>3
<1>4. DOMAIN (s \o f) = 1..(Len(s) + Len(f))
  BY <1>1, <1>2, <1>3
<1>5. \A i \in 1..Len(s) : (s \o f)[i] = s[i]
  BY <1>1, <1>2, <1>3
<1>6. (s \o f)[1] = s[1] /\ (s \o f)[2] = s[2]
  <2>1. 1 \in 1..Len(s) /\ 2 \in 1..Len(s)
    BY <1>1
  <2>2. QED
    BY <1>5, <2>1, Zenon
<1>7. (s \o f)[1] = a /\ (s \o f)[2] = b /\ DOMAIN (s \o f) = 1..(5 + n)
  BY <1>1, <1>2, <1>4, <1>6, Zenon
<1>8. QED
  BY <1>7, Zenon DEF s

\* Which those keys are, and how many follow.
LEMMA KeysFact ==
  ASSUME model \in Models, NEW s \in Schedules
  PROVE  /\ Keys(s)[1] = -WorstSlack(s.slots)
         /\ Keys(s)[2] = -TotalNegativeSlack(s.slots)
         /\ DOMAIN Keys(s) = 1..(5 + HopCount)
<1> DEFINE f == [i \in 1..HopCount |-> s.slots[i - 1]]
           U == {s.slots[i - 1] : i \in 1..HopCount}
<1>1. HopCount \in Nat /\ f \in [1..HopCount -> U]
  BY HopAssumption
<1>2. Keys(s) = <<-WorstSlack(s.slots), -TotalNegativeSlack(s.slots),
                  Cardinality(NegativePaths(s.slots)), CompletionSlot(s.slots),
                  TotalWait(s)>> \o f
  BY Zenon DEF Keys
<1> HIDE DEF f, U
<1>3. QED
  BY <1>1, <1>2, FirstKeys

\* The keys can be compared.
LEMMA ScheduleSlack ==
  ASSUME model \in Models, NEW s \in Schedules
  PROVE  WorstSlack(s.slots) \in Int /\ TotalNegativeSlack(s.slots) \in Int
<1>1. s.slots \in [Hop -> Int]
  BY DEF Schedules, SlotMaps
<1>2. QED
  BY <1>1, WorstSlackType

\* better looks at these two first.
LEMMA BetterIsNotWorse ==
  ASSUME model \in Models, NEW s \in Schedules, NEW t \in Schedules, Better(s, t)
  PROVE  NotWorse(s, t)
<1>1. PICK i \in 1..(5 + HopCount) :
        Keys(s)[i] < Keys(t)[i] /\ \A j \in 1..(i - 1) : Keys(s)[j] = Keys(t)[j]
  BY KeysFact DEF Better, LexLess
<1>2. /\ Keys(s)[1] = -WorstSlack(s.slots) /\ Keys(t)[1] = -WorstSlack(t.slots)
      /\ Keys(s)[2] = -TotalNegativeSlack(s.slots)
      /\ Keys(t)[2] = -TotalNegativeSlack(t.slots)
  BY KeysFact
<1>3. /\ WorstSlack(s.slots) \in Int /\ TotalNegativeSlack(s.slots) \in Int
      /\ WorstSlack(t.slots) \in Int /\ TotalNegativeSlack(t.slots) \in Int
  BY ScheduleSlack
<1>4. i \in Nat /\ i >= 1
  BY HopAssumption
<1>5. CASE i = 1
  BY <1>1, <1>2, <1>3, <1>5 DEF NotWorse
<1>6. CASE i = 2
  <2>1. Keys(s)[1] = Keys(t)[1] /\ Keys(s)[2] < Keys(t)[2]
    BY <1>1, <1>6
  <2>2. QED
    BY <1>2, <1>3, <2>1 DEF NotWorse
<1>7. CASE i > 2
  <2>1. Keys(s)[1] = Keys(t)[1] /\ Keys(s)[2] = Keys(t)[2]
    BY <1>1, <1>4, <1>7
  <2>2. QED
    BY <1>2, <1>3, <2>1 DEF NotWorse
<1>8. QED
  BY <1>4, <1>5, <1>6, <1>7

\* NotWorse is reflexive and transitive.
LEMMA NotWorseOrder ==
  ASSUME model \in Models, NEW s \in Schedules, NEW t \in Schedules,
         NEW u \in Schedules
  PROVE  /\ NotWorse(s, s)
         /\ NotWorse(s, t) /\ NotWorse(t, u) => NotWorse(s, u)
<1>1. \A x \in {s, t, u} :
        WorstSlack(x.slots) \in Int /\ TotalNegativeSlack(x.slots) \in Int
  BY ScheduleSlack
<1>2. QED
  BY <1>1 DEF NotWorse

\* During an iteration the best schedule so far is not worse than the incumbent.
BestInv ==
  incumbent # None /\ pc \in {"round", "place", "next"} =>
    best \in Schedules /\ NotWorse(best, incumbent)

\* It depends on the input and on the two schedules only.
LEMMA SameNotWorse ==
  ASSUME UNCHANGED <<model, best, incumbent>>, NotWorse(best, incumbent)
  PROVE  NotWorse(best, incumbent)'
  BY DEF NotWorse, WorstSlack, TotalNegativeSlack,
         NegativePaths, Slacks

\* Every step keeps it so.
LEMMA StepBest == TypeInv /\ BestInv /\ [Next]_vars => BestInv'
<1> SUFFICES ASSUME TypeInv, BestInv, [Next]_vars,
                    incumbent' # None, pc' \in {"round", "place", "next"}
             PROVE  best' \in Schedules' /\ NotWorse(best, incumbent)'
  BY DEF BestInv
<1>0. /\ model \in Models /\ model' = model /\ Schedules' = Schedules
      /\ incumbent \in Schedules \union {None}
      /\ slots \in SlotMaps /\ ready \in SlotMaps
      /\ incumbent = None => Building
  BY NextKeepsModel, SameModel
     DEF TypeInv, FeasibleInv, LegalInv, GivenInv, OnTime, BoundInv
<1>1. CASE StartRound \/ PlaceHop \/ EndRound \/ TryNext \/ UNCHANGED vars
  <2>1. /\ UNCHANGED <<incumbent, best>> /\ pc \in {"round", "place", "next"}
    BY <1>1 DEF StartRound, PlaceHop, EndRound, TryNext, Build, vars
  <2>2. best \in Schedules /\ NotWorse(best, incumbent)
    BY <2>1 DEF BestInv
  <2>3. QED
    BY <1>0, <2>1, <2>2, SameNotWorse
<1>2. CASE FirstSchedule \/ Accept \/ Finish
  BY <1>2 DEF FirstSchedule, Accept, Finish
<1>3. CASE JudgeCandidate
  <2>1. incumbent # None /\ incumbent \in Schedules /\ incumbent' = incumbent
        /\ pc = "round"
    BY <1>0, <1>3 DEF JudgeCandidate
  <2>2. best \in Schedules /\ NotWorse(best, incumbent)
    BY <2>1 DEF BestInv
  <2>3. CASE Better(Candidate, best)
    <3>1. Candidate \in Schedules
      BY <1>0, CandidateType
    <3>2. NotWorse(Candidate, best)
      BY <1>0, <2>2, <2>3, <3>1, BetterIsNotWorse
    <3>3. NotWorse(Candidate, incumbent)
      BY <1>0, <2>1, <2>2, <3>1, <3>2, NotWorseOrder
    <3>4. best' = Candidate
      BY <1>3, <2>3 DEF JudgeCandidate
    <3>5. NotWorse(best, incumbent)'
      BY <1>0, <2>1, <3>3, <3>4 DEF NotWorse, WorstSlack, TotalNegativeSlack,
         NegativePaths, Slacks
    <3>6. QED
      BY <1>0, <3>1, <3>4, <3>5
  <2>4. CASE ~Better(Candidate, best)
    <3>1. best' = best
      BY <1>3, <2>4 DEF JudgeCandidate
    <3>2. QED
      BY <1>0, <2>1, <2>2, <3>1, SameNotWorse
  <2>5. QED
    BY <2>3, <2>4
<1>4. CASE Search
  <2>1. incumbent \in Schedules /\ best' = incumbent /\ incumbent' = incumbent
    BY <1>0, <1>4 DEF Search, Building
  <2>2. NotWorse(incumbent, incumbent)
    BY <1>0, <2>1, NotWorseOrder
  <2>3. NotWorse(best, incumbent)'
    BY <1>0, <2>1, <2>2 DEF NotWorse, WorstSlack, TotalNegativeSlack,
         NegativePaths, Slacks
  <2>4. QED
    BY <1>0, <2>1, <2>3
<1>5. QED
  BY <1>1, <1>2, <1>3, <1>4 DEF Next

\* The incumbent is replaced by the best of an iteration only.
LEMMA StepNotWorse ==
  ASSUME TypeInv, BestInv, [Next]_vars, incumbent # None
  PROVE  NotWorse(incumbent', incumbent)
<1>1. model \in Models /\ incumbent \in Schedules
  BY DEF TypeInv, FeasibleInv, LegalInv, BoundInv
<1>2. CASE Accept
  <2>1. incumbent' = best /\ pc = "next"
    BY <1>2 DEF Accept
  <2>2. QED
    BY <2>1 DEF BestInv
<1>3. CASE ~Accept
  <2>1. incumbent' = incumbent
    BY <1>3 DEF Next, vars, StartRound, PlaceHop, EndRound, FirstSchedule,
       JudgeCandidate, Search, TryNext, Finish
  <2>2. QED
    BY <1>1, <2>1, NotWorseOrder
<1>4. QED
  BY <1>2, <1>3

\* For every input, step by step: the schedule optimize holds is replaced only
\* by one with a better worst path, or an equal one and no more total negative
\* slack, although a candidate was compared with the best of its iteration and
\* not with the schedule it replaces.
THEOREM SearchNeverWorsens == Spec => NeverWorse
<1>1. Init => TypeInv /\ BestInv
  BY InitFeasible, InitBounds DEF TypeInv, BestInv, Init
<1>2. TypeInv /\ BestInv /\ [Next]_vars => (TypeInv /\ BestInv)'
  <2>1. TypeInv /\ [Next]_vars => TypeInv'
    BY StepFeasible, StepBounds, StepOrders DEF TypeInv
  <2>2. QED
    BY <2>1, StepBest
<1>3. TypeInv /\ BestInv /\ [Next]_vars =>
        [incumbent # None =>
           \/ WorstSlack(incumbent'.slots) > WorstSlack(incumbent.slots)
           \/ /\ WorstSlack(incumbent'.slots) = WorstSlack(incumbent.slots)
              /\ TotalNegativeSlack(incumbent'.slots)
                   >= TotalNegativeSlack(incumbent.slots)]_vars
  BY StepNotWorse DEF NotWorse
<1>4. QED
  BY <1>1, <1>2, <1>3, PTL DEF Spec, NeverWorse
=============================================================================
