------------------------ MODULE SyncTopology_proofs -------------------------
(***************************************************************************)
(* For every board, whatever its FPGAs, links and latencies: the search of *)
(* build_runtime_sync_topology finds each FPGA at its hop distance, and    *)
(* the tree it returns is one that RuntimeSyncTree may run on.             *)
(***************************************************************************)
EXTENDS SyncTopology, NatLemmas, TLAPS

-----------------------------------------------------------------------------
(* The board and the order of a list.                                      *)

\* The links' control latencies and the neighbours of an FPGA.
LEMMA LinkFact ==
  ASSUME links \in [LinkId -> Link], NEW a \in Fpga, NEW b \in Neighbours(a)
  PROVE  /\ b \in Fpga /\ b # a
         /\ control_latency(FirstLink(a, b)) \in Nat \ {0}
<1>1. b \in Fpga /\ b # a /\ Between(a, b) # {}
  BY DEF Neighbours
<1>2. Between(a, b) \in SUBSET LinkId /\ Between(a, b) \in SUBSET Int
      /\ \A y \in Between(a, b) : 0 <= y
  <2>1. \A y \in Between(a, b) : y \in LinkId
    BY DEF Between
  <2>2. \A y \in LinkId : y \in Nat
    BY BoardAssumption
  <2>3. QED
    BY <2>1, <2>2
<1>3. FirstLink(a, b) \in LinkId
  <2> DEFINE S == Between(a, b)
  <2> HIDE DEF S
  <2>1. S \in SUBSET Int /\ S # {} /\ 0 \in Int /\ \A y \in S : 0 <= y
    BY <1>1, <1>2 DEF S
  <2>2. Min(S) \in S
    BY <2>1, MinFact
  <2>3. QED
    BY <1>2, <2>2 DEF FirstLink, S
<1>4. links[FirstLink(a, b)].latency_cycles \in Nat
  BY <1>3, BoardAssumption DEF Link
<1>5. QED
  BY <1>1, <1>4 DEF control_latency

\* Ascending lists a set, each member and no other.
LEMMA AscendingFact ==
  ASSUME NEW S \in SUBSET Nat, IsFiniteSet(S)
  PROVE  /\ Ascending(S) \in Seq(S)
         /\ \A x \in S : \E i \in 1..Len(Ascending(S)) : Ascending(S)[i] = x
<1> DEFINE n == Cardinality(S)
<1>1. PICK R : /\ StrictOrder(S, R)
               /\ \A x \in S : Below(S, R, x) = {y \in S : y < x}
  <2> DEFINE R == {p \in S \X S : p[1] < p[2]}
  <2>1. \A x, y \in S : <<x, y>> \in R <=> x < y
    OBVIOUS
  <2> HIDE DEF R
  <2>2. StrictOrder(S, R)
    BY <2>1 DEF StrictOrder
  <2>3. ASSUME NEW x \in S
        PROVE  Below(S, R, x) = {y \in S : y < x}
    BY <2>1 DEF Below
  <2>4. QED
    BY <2>2, <2>3, Zenon
<1>3. /\ n \in Nat
      /\ \A x \in S : Cardinality({y \in S : y < x}) \in 0..(n - 1)
      /\ \A x, y \in S : Cardinality({z \in S : z < x})
                           = Cardinality({z \in S : z < y}) => x = y
      /\ \A i \in 1..n : \E x \in S : Cardinality({y \in S : y < x}) = i - 1
  <2>1. \A T : IsFiniteSet(T) /\ StrictOrder(T, R) =>
          /\ Cardinality(T) \in Nat
          /\ \A x \in T : Cardinality(Below(T, R, x)) \in 0..(Cardinality(T) - 1)
          /\ \A x, y \in T :
               Cardinality(Below(T, R, x)) = Cardinality(Below(T, R, y)) => x = y
          /\ \A i \in 1..Cardinality(T) : \E x \in T :
               Cardinality(Below(T, R, x)) = i - 1
    BY RankFact
  <2>2. /\ Cardinality(S) \in Nat
        /\ \A x \in S : Cardinality(Below(S, R, x)) \in 0..(Cardinality(S) - 1)
        /\ \A x, y \in S :
             Cardinality(Below(S, R, x)) = Cardinality(Below(S, R, y)) => x = y
        /\ \A i \in 1..Cardinality(S) : \E x \in S :
             Cardinality(Below(S, R, x)) = i - 1
    BY <1>1, <2>1, Zenon
  <2>3. QED
    BY <1>1, <2>2
<1> DEFINE Rank(x) == Cardinality({y \in S : y < x})
           q == [i \in 1..n |-> CHOOSE x \in S : Rank(x) = i - 1]
<1>4. Ascending(S) = q
  BY Zenon DEF Ascending
<1>5. /\ \A x \in S : Rank(x) \in 0..(n - 1)
      /\ \A x, y \in S : Rank(x) = Rank(y) => x = y
      /\ \A i \in 1..n : \E x \in S : Rank(x) = i - 1
  BY <1>3, Zenon
<1> HIDE DEF n, Rank
<1>6. \A i \in 1..n : q[i] \in S /\ Rank(q[i]) = i - 1
  BY <1>5
<1>7. q \in Seq(S) /\ Len(q) = n
  BY <1>3, <1>6
<1>8. ASSUME NEW x \in S PROVE \E i \in 1..n : q[i] = x
  <2>1. Rank(x) + 1 \in 1..n /\ (Rank(x) + 1) - 1 = Rank(x)
    BY <1>3, <1>5
  <2>2. q[Rank(x) + 1] \in S /\ Rank(q[Rank(x) + 1]) = Rank(x)
    BY <1>6, <2>1
  <2>3. QED
    BY <1>5, <2>1, <2>2
<1> HIDE DEF q
<1>9. QED
  BY <1>4, <1>7, <1>8

-----------------------------------------------------------------------------
(* What the search keeps true.                                             *)

\* The board and the root asked for are what was given.
BoardInv == links \in [LinkId -> Link] /\ root \in Fpga

\* The maps describe a tree from the root, whose edges are links.
MapInv ==
  /\ Found \in SUBSET Fpga /\ root \in Found
  /\ parent \in [Found \ {root} -> Found]
  /\ edge_latency \in [Found -> Nat]
  /\ depth \in [Found -> Nat] /\ depth[root] = 0
  /\ latency_from_root \in [Found -> Nat] /\ latency_from_root[root] = 0
  /\ \A n \in Found \ {root} :
       /\ n \in Neighbours(parent[n])
       /\ depth[n] = depth[parent[n]] + 1
       /\ edge_latency[n] # 0
       /\ latency_from_root[n] =
            latency_from_root[parent[n]] + edge_latency[n] + 1

\* An FPGA is no deeper than there are others found.
DepthInv == \A n \in Found : depth[n] < Cardinality(Found)

\* The queue is in order of depth, and what is found is at most one level
\* deeper than what is queued.
QueueInv ==
  /\ queue \in Seq(Found)
  /\ \A i, j \in 1..Len(queue) : i < j => depth[queue[i]] <= depth[queue[j]]
  /\ \A n \in Found, i \in 1..Len(queue) : depth[n] <= depth[queue[i]] + 1

\* n waits to be expanded.
Queued(n) == \E i \in 1..Len(queue) : queue[i] = n

\* The neighbours of an FPGA that is not queued any more are found.
ExpandedInv ==
  \A n \in Found : Queued(n) \/ \A b \in Neighbours(n) :
    b \in Found /\ depth[b] <= depth[n] + 1

\* How the search ended.
StatusInv ==
  /\ status \in {"searching", "built", "rejected"}
  /\ status # "searching" => queue = <<>>
  /\ status = "built" =>
       /\ Found = Fpga
       /\ start_margin_cycles = MarginFor({latency_from_root[n] : n \in Fpga})
  /\ status = "rejected" => Found # Fpga

\* The inductive invariant.
TopologyInv ==
  BoardInv /\ MapInv /\ DepthInv /\ QueueInv /\ ExpandedInv /\ StatusInv

\* The search starts with the root alone.
LEMMA InitTopology == Init => TopologyInv
<1> SUFFICES ASSUME Init PROVE TopologyInv
  OBVIOUS
<1>1. Found = {root} /\ root \in Fpga
  BY DEF Init, Found
<1>2. Cardinality({root}) = 1
  BY FS_Singleton
<1>3. BoardInv /\ MapInv
  BY <1>1 DEF Init, BoardInv, MapInv
<1>4. DepthInv
  BY <1>1, <1>2 DEF Init, DepthInv
<1>5. QueueInv
  BY <1>1 DEF Init, QueueInv
<1>6. ExpandedInv
  <2>1. Queued(root)
    BY DEF Init, Queued
  <2>2. QED
    BY <1>1, <2>1 DEF ExpandedInv
<1>7. StatusInv
  BY DEF Init, StatusInv
<1>8. QED
  BY <1>3, <1>4, <1>5, <1>6, <1>7 DEF TopologyInv

\* The board stays, and with it the neighbours.
LEMMA SameBoard ==
  ASSUME UNCHANGED links
  PROVE  \A n : Neighbours(n)' = Neighbours(n)
  BY DEF Neighbours, Between

\* One turn of the loop: the FPGA at the head of the queue, the ones it adds
\* and the order in which they are queued.
Adds(current, new, added) ==
  /\ current \in Found /\ new \in SUBSET Fpga /\ added \in Seq(new)
  /\ queue # <<>> /\ current = queue[1]
  /\ new = Neighbours(current) \ Found
  /\ \A x \in new : \E i \in 1..Len(added) : added[i] = x
  /\ queue' = Tail(queue) \o added
  /\ Found' = Found \union new
  /\ \A n \in Found \ {root} : parent'[n] = parent[n]
  /\ \A n \in Found : /\ edge_latency'[n] = edge_latency[n]
                      /\ depth'[n] = depth[n]
                      /\ latency_from_root'[n] = latency_from_root[n]
  /\ \A n \in new :
       /\ parent'[n] = current
       /\ edge_latency'[n] = control_latency(FirstLink(current, n))
       /\ depth'[n] = depth[current] + 1
       /\ latency_from_root'[n] = BroadcastLatency(current, n)
  /\ DOMAIN parent' = (Found \union new) \ {root}
  /\ parent' = [n \in DOMAIN parent' |-> parent'[n]]
  /\ DOMAIN edge_latency' = Found \union new
  /\ edge_latency' = [n \in DOMAIN edge_latency' |-> edge_latency'[n]]
  /\ DOMAIN depth' = Found \union new
  /\ depth' = [n \in DOMAIN depth' |-> depth'[n]]
  /\ DOMAIN latency_from_root' = Found \union new
  /\ latency_from_root' =
       [n \in DOMAIN latency_from_root' |-> latency_from_root'[n]]

\* Expand is such a turn.
LEMMA ExpandFact ==
  ASSUME TopologyInv, Expand
  PROVE  \E current, new, added : Adds(current, new, added)
<1> DEFINE current == Head(queue)
           new == Neighbours(current) \ Found
           added == Ascending(new)
<1>1. /\ queue # <<>> /\ queue \in Seq(Found)
      /\ current \in Found /\ current = queue[1]
  BY DEF Expand, TopologyInv, QueueInv
<1>2. new \in SUBSET Fpga /\ new \in SUBSET Nat /\ IsFiniteSet(new)
  <2>1. new \in SUBSET Fpga
    BY DEF Neighbours
  <2>2. IsFiniteSet(new)
    BY <2>1, BoardAssumption, FS_Subset
  <2>3. QED
    BY <2>1, <2>2, BoardAssumption
<1>3. added \in Seq(new) /\ \A x \in new : \E i \in 1..Len(added) : added[i] = x
  <2> HIDE DEF new
  <2>1. QED
    BY <1>2, AscendingFact
<1>4. /\ Unseen(current) = new /\ root \notin new
      /\ DOMAIN parent = Found \ {root} /\ DOMAIN edge_latency = Found
      /\ DOMAIN depth = Found /\ DOMAIN latency_from_root = Found
      /\ \A n \in new : n \notin Found
  BY DEF Unseen, TopologyInv, MapInv
<1>5. queue' = Tail(queue) \o added
  BY DEF Expand, Unseen
<1>6. /\ parent' = [n \in DOMAIN parent \union new |->
                      IF n \in new THEN current ELSE parent[n]]
      /\ edge_latency' = [n \in DOMAIN edge_latency \union new |->
           IF n \in new THEN control_latency(FirstLink(current, n))
           ELSE edge_latency[n]]
      /\ depth' = [n \in DOMAIN depth \union new |->
                     IF n \in new THEN depth[current] + 1 ELSE depth[n]]
      /\ latency_from_root' = [n \in DOMAIN latency_from_root \union new |->
           IF n \in new THEN BroadcastLatency(current, n)
           ELSE latency_from_root[n]]
  BY DEF Expand, Unseen
<1> HIDE DEF current, new, added
<1>7. DOMAIN parent' = (Found \union new) \ {root}
  BY <1>4, <1>6
<1>8. Found' = Found \union new
  BY <1>4, <1>6 DEF Found
<1>9. /\ \A n \in Found \ {root} : parent'[n] = parent[n]
      /\ \A n \in new : parent'[n] = current
      /\ parent' = [n \in DOMAIN parent' |-> parent'[n]]
  BY <1>4, <1>6
<1>10. /\ \A n \in Found : edge_latency'[n] = edge_latency[n]
       /\ \A n \in new :
            edge_latency'[n] = control_latency(FirstLink(current, n))
       /\ edge_latency' = [n \in DOMAIN edge_latency' |-> edge_latency'[n]]
       /\ DOMAIN edge_latency' = Found \union new
  BY <1>4, <1>6
<1>11. /\ \A n \in Found : depth'[n] = depth[n]
       /\ \A n \in new : depth'[n] = depth[current] + 1
       /\ depth' = [n \in DOMAIN depth' |-> depth'[n]]
       /\ DOMAIN depth' = Found \union new
  BY <1>4, <1>6
<1>12. /\ \A n \in Found : latency_from_root'[n] = latency_from_root[n]
       /\ \A n \in new : latency_from_root'[n] = BroadcastLatency(current, n)
       /\ latency_from_root' =
            [n \in DOMAIN latency_from_root' |-> latency_from_root'[n]]
       /\ DOMAIN latency_from_root' = Found \union new
  BY <1>4, <1>6
<1>13. new = Neighbours(current) \ Found
  BY DEF new
<1>14. Adds(current, new, added)
  BY <1>1, <1>2, <1>3, <1>5, <1>7, <1>8, <1>9, <1>10, <1>11, <1>12, <1>13, Zenon
     DEF Adds
<1>15. QED
  BY <1>14

\* The tree grows by edges that are links.
LEMMA ExpandMaps ==
  ASSUME TopologyInv, UNCHANGED <<links, root>>,
         NEW current, NEW new, NEW added, Adds(current, new, added)
  PROVE  MapInv'
<1>1. /\ Found \in SUBSET Fpga /\ root \in Found /\ current \in Found
      /\ new \in SUBSET Fpga /\ Found' = Found \union new
      /\ \A n \in new : n \notin Found /\ n \in Neighbours(current) /\ n # root
      /\ links \in [LinkId -> Link]
  BY DEF TopologyInv, BoardInv, MapInv, Adds
<1>2. /\ parent \in [Found \ {root} -> Found] /\ edge_latency \in [Found -> Nat]
      /\ depth \in [Found -> Nat] /\ depth[root] = 0
      /\ latency_from_root \in [Found -> Nat] /\ latency_from_root[root] = 0
  BY DEF TopologyInv, MapInv
<1>3. \A n \in new : control_latency(FirstLink(current, n)) \in Nat \ {0}
  BY <1>1, LinkFact
<1>4. parent' \in [Found' \ {root'} -> Found']
  <2>1. \A n \in (Found \union new) \ {root} : parent'[n] \in Found \union new
    BY <1>1, <1>2 DEF Adds
  <2>2. QED
    BY <1>1, <2>1 DEF Adds
<1>5. edge_latency' \in [Found' -> Nat]
  <2>1. \A n \in Found \union new : edge_latency'[n] \in Nat
    BY <1>1, <1>2, <1>3 DEF Adds
  <2>2. QED
    BY <1>1, <2>1 DEF Adds
<1>6. depth' \in [Found' -> Nat] /\ depth'[root'] = 0
  <2>1. \A n \in Found \union new : depth'[n] \in Nat
    BY <1>1, <1>2 DEF Adds
  <2>2. depth'[root] = 0
    BY <1>1, <1>2 DEF Adds
  <2>3. QED
    BY <1>1, <2>1, <2>2 DEF Adds
<1>7. latency_from_root' \in [Found' -> Nat] /\ latency_from_root'[root'] = 0
  <2>1. \A n \in Found \union new : latency_from_root'[n] \in Nat
    <3>1. \A n \in new : latency_from_root'[n] =
            latency_from_root[current] + control_latency(FirstLink(current, n)) + 1
      BY DEF Adds, BroadcastLatency
    <3>2. latency_from_root[current] \in Nat
      BY <1>1, <1>2
    <3>3. \A n \in new : latency_from_root'[n] \in Nat
      BY <1>3, <3>1, <3>2
    <3>4. \A n \in Found : latency_from_root'[n] \in Nat
      BY <1>2 DEF Adds
    <3>5. QED
      BY <3>3, <3>4
  <2>2. latency_from_root'[root] = 0
    BY <1>1, <1>2 DEF Adds
  <2>3. QED
    BY <1>1, <2>1, <2>2 DEF Adds
<1>8. ASSUME NEW n \in Found' \ {root'}
      PROVE  /\ n \in Neighbours(parent[n])'
             /\ depth'[n] = depth'[parent'[n]] + 1
             /\ edge_latency'[n] # 0
             /\ latency_from_root'[n] =
                  latency_from_root'[parent'[n]] + edge_latency'[n] + 1
  <2>1. \A a : Neighbours(a)' = Neighbours(a)
    BY SameBoard
  <2>2. CASE n \in new
    <3>1. /\ parent'[n] = current /\ depth'[n] = depth[current] + 1
          /\ edge_latency'[n] = control_latency(FirstLink(current, n))
          /\ latency_from_root'[n] = BroadcastLatency(current, n)
          /\ depth'[current] = depth[current]
          /\ latency_from_root'[current] = latency_from_root[current]
      BY <1>1, <2>2 DEF Adds
    <3>2. latency_from_root[current] \in Nat
      BY <1>1, <1>2
    <3>3. n \in Neighbours(current) /\ edge_latency'[n] \in Nat \ {0}
      BY <1>1, <1>3, <2>2, <3>1
    <3>4. Neighbours(parent[n])' = Neighbours(current)
      BY <3>1 DEF Neighbours, Between
    <3>5. QED
      BY <3>1, <3>2, <3>3, <3>4 DEF BroadcastLatency
  <2>3. CASE n \in Found
    <3>1. n \in Found \ {root} /\ parent[n] \in Found
      BY <1>1, <1>2, <2>3
    <3>2. /\ parent'[n] = parent[n] /\ depth'[n] = depth[n]
          /\ edge_latency'[n] = edge_latency[n]
          /\ latency_from_root'[n] = latency_from_root[n]
          /\ depth'[parent[n]] = depth[parent[n]]
          /\ latency_from_root'[parent[n]] = latency_from_root[parent[n]]
      BY <3>1 DEF Adds
    <3>3. /\ n \in Neighbours(parent[n])
          /\ depth[n] = depth[parent[n]] + 1
          /\ edge_latency[n] # 0
          /\ latency_from_root[n] =
               latency_from_root[parent[n]] + edge_latency[n] + 1
      BY <3>1 DEF TopologyInv, MapInv
    <3>4. Neighbours(parent[n])' = Neighbours(parent[n])
      BY <3>2 DEF Neighbours, Between
    <3>5. QED
      BY <3>2, <3>3, <3>4
  <2>4. QED
    BY <1>1, <2>2, <2>3
<1>9. Found' \in SUBSET Fpga /\ root' \in Found'
  BY <1>1
<1>10. QED
  BY <1>4, <1>5, <1>6, <1>7, <1>8, <1>9 DEF MapInv

\* A deeper level needs an FPGA more.
LEMMA ExpandDepth ==
  ASSUME TopologyInv, NEW current, NEW new, NEW added, Adds(current, new, added)
  PROVE  DepthInv'
<1>1. /\ Found \in SUBSET Fpga /\ current \in Found /\ new \in SUBSET Fpga
      /\ Found' = Found \union new /\ \A n \in new : n \notin Found
  BY DEF TopologyInv, MapInv, Adds
<1>2. IsFiniteSet(Found \union new) /\ Found \in SUBSET (Found \union new)
  BY <1>1, BoardAssumption, FS_Subset
<1>3. /\ Cardinality(Found) \in Nat /\ Cardinality(Found \union new) \in Nat
      /\ Cardinality(Found) <= Cardinality(Found \union new)
      /\ Cardinality(Found) = Cardinality(Found \union new) =>
           Found = Found \union new
  <2>1. /\ IsFiniteSet(Found) /\ Cardinality(Found) <= Cardinality(Found \union new)
        /\ Cardinality(Found) = Cardinality(Found \union new) =>
             Found = Found \union new
    BY <1>2, FS_Subset
  <2>2. QED
    BY <1>2, <2>1, FS_CardinalityType
<1>4. ASSUME NEW n \in Found \union new
      PROVE  depth'[n] < Cardinality(Found \union new)
  <2>1. depth[current] \in Nat /\ depth[current] < Cardinality(Found)
    BY <1>1 DEF TopologyInv, MapInv, DepthInv
  <2>2. CASE n \in new
    <3>1. depth'[n] = depth[current] + 1
      BY <2>2 DEF Adds
    <3>2. Found # Found \union new
      BY <1>1, <2>2
    <3>3. QED
      BY <1>3, <2>1, <3>1, <3>2
  <2>3. CASE n \in Found
    <3>1. depth'[n] = depth[n] /\ depth[n] \in Nat /\ depth[n] < Cardinality(Found)
      BY <2>3 DEF Adds, TopologyInv, MapInv, DepthInv
    <3>2. QED
      BY <1>3, <3>1
  <2>4. QED
    BY <2>2, <2>3
<1>5. QED
  BY <1>1, <1>4 DEF DepthInv

\* The queue loses its head and gains the list at its end.
LEMMA QueueFact ==
  ASSUME NEW D, NEW E, NEW q \in Seq(D), q # <<>>, NEW added \in Seq(E),
         NEW r, r = Tail(q) \o added
  PROVE  /\ Len(q) \in Nat \ {0} /\ Len(added) \in Nat
         /\ r \in Seq(D \union E) /\ Len(r) = (Len(q) - 1) + Len(added)
         /\ \A i \in 1..(Len(q) - 1) : r[i] = q[i + 1]
         /\ \A i \in 1..Len(added) : r[(Len(q) - 1) + i] = added[i]
<1>1. /\ Len(q) \in Nat \ {0} /\ Len(added) \in Nat
      /\ Tail(q) \in Seq(D) /\ Len(Tail(q)) = Len(q) - 1
      /\ \A i \in 1..(Len(q) - 1) : Tail(q)[i] = q[i + 1]
  OBVIOUS
<1> DEFINE t == Tail(q)
<1> HIDE DEF t
<1>2. t \in Seq(D) /\ t \in Seq(D \union E) /\ added \in Seq(D \union E)
  BY <1>1 DEF t
<1>3. /\ t \o added \in Seq(D \union E) /\ Len(t \o added) = Len(t) + Len(added)
      /\ \A i \in 1..Len(t) : (t \o added)[i] = t[i]
      /\ \A i \in 1..Len(added) : (t \o added)[Len(t) + i] = added[i]
  BY <1>2
<1>4. QED
  BY <1>1, <1>3 DEF t

\* An entry of the new queue was in the queue behind the head, or is new.
LEMMA EntryFact ==
  ASSUME TopologyInv,
         NEW current, NEW new, NEW added, Adds(current, new, added)
  PROVE  /\ Len(queue) \in Nat \ {0} /\ Len(queue') \in Nat
         /\ queue' \in Seq(Found \union new)
         /\ \A i \in 1..Len(queue') :
              \/ /\ i + 1 \in 1..Len(queue) /\ i <= Len(queue) - 1
                 /\ queue'[i] = queue[i + 1]
              \/ i > Len(queue) - 1 /\ queue'[i] \in new
         /\ \A j \in 2..Len(queue) : \E i \in 1..Len(queue') : queue'[i] = queue[j]
         /\ \A x \in new : \E i \in 1..Len(queue') : queue'[i] = x
<1>1. /\ queue \in Seq(Found) /\ queue # <<>> /\ added \in Seq(new)
      /\ queue' = Tail(queue) \o added
      /\ \A x \in new : \E i \in 1..Len(added) : added[i] = x
  BY DEF TopologyInv, QueueInv, Adds
<1> DEFINE q == queue
           r == queue'
<1>2. /\ Len(q) \in Nat \ {0} /\ Len(added) \in Nat
      /\ r \in Seq(Found \union new) /\ Len(r) = (Len(q) - 1) + Len(added)
      /\ \A i \in 1..(Len(q) - 1) : r[i] = q[i + 1]
      /\ \A i \in 1..Len(added) : r[(Len(q) - 1) + i] = added[i]
  BY <1>1, QueueFact
<1>3. \A i \in 1..Len(added) : added[i] \in new
  BY <1>1
<1> HIDE DEF q, r
<1>4. ASSUME NEW i \in 1..Len(r)
      PROVE  \/ i + 1 \in 1..Len(q) /\ i <= Len(q) - 1 /\ r[i] = q[i + 1]
             \/ i > Len(q) - 1 /\ r[i] \in new
  <2>1. CASE i <= Len(q) - 1
    BY <1>2, <2>1
  <2>2. CASE i > Len(q) - 1
    <3> DEFINE k == i - (Len(q) - 1)
    <3>1. k \in 1..Len(added) /\ (Len(q) - 1) + k = i
      BY <1>2, <2>2
    <3>2. r[(Len(q) - 1) + k] = added[k] /\ added[k] \in new
      BY <1>2, <1>3, <3>1
    <3>3. QED
      BY <2>2, <3>1, <3>2
  <2>3. QED
    BY <1>2, <2>1, <2>2
<1>5. ASSUME NEW j \in 2..Len(q)
      PROVE  \E i \in 1..Len(r) : r[i] = q[j]
  <2>1. j - 1 \in 1..(Len(q) - 1) /\ j - 1 \in 1..Len(r) /\ (j - 1) + 1 = j
    BY <1>2
  <2>2. r[j - 1] = q[(j - 1) + 1]
    BY <1>2, <2>1
  <2>3. QED
    BY <2>1, <2>2
<1>6. ASSUME NEW x \in new
      PROVE  \E i \in 1..Len(r) : r[i] = x
  <2>1. PICK k \in 1..Len(added) : added[k] = x
    BY <1>1
  <2>2. (Len(q) - 1) + k \in 1..Len(r)
    BY <1>2, <2>1
  <2>3. QED
    BY <1>2, <2>1, <2>2
<1>7. Len(r) \in Nat
  BY <1>2
<1>8. QED
  BY <1>2, <1>4, <1>5, <1>6, <1>7 DEF q, r

\* The queue stays in order of depth.
LEMMA ExpandQueue ==
  ASSUME TopologyInv,
         NEW current, NEW new, NEW added, Adds(current, new, added)
  PROVE  QueueInv'
<1>1. /\ current \in Found /\ current = queue[1]
      /\ Found' = Found \union new
      /\ \A n \in Found : depth'[n] = depth[n] /\ depth[n] \in Nat
      /\ \A n \in new : depth'[n] = depth[current] + 1
      /\ \A i \in 1..Len(queue) : queue[i] \in Found
  BY DEF TopologyInv, MapInv, QueueInv, Adds
<1>2. /\ Len(queue) \in Nat \ {0} /\ Len(queue') \in Nat
      /\ queue' \in Seq(Found \union new)
      /\ \A i \in 1..Len(queue') :
           \/ /\ i + 1 \in 1..Len(queue) /\ i <= Len(queue) - 1
              /\ queue'[i] = queue[i + 1]
           \/ i > Len(queue) - 1 /\ queue'[i] \in new
  BY EntryFact
<1>3. /\ \A i, j \in 1..Len(queue) : i < j => depth[queue[i]] <= depth[queue[j]]
      /\ \A n \in Found, i \in 1..Len(queue) : depth[n] <= depth[queue[i]] + 1
  BY DEF TopologyInv, QueueInv
<1>4. /\ 1 \in 1..Len(queue)
      /\ \A i \in 1..Len(queue) : depth[current] <= depth[queue[i]]
      /\ \A n \in Found : depth[n] <= depth[current] + 1
  <2>1. 1 \in 1..Len(queue)
    BY <1>2
  <2>2. ASSUME NEW i \in 1..Len(queue) PROVE depth[current] <= depth[queue[i]]
    BY <1>1, <1>3, <2>1
  <2>3. QED
    BY <1>1, <1>3, <2>1, <2>2
\* Every entry of the new queue is at the depth of the head or one below.
<1>5. ASSUME NEW i \in 1..Len(queue')
      PROVE  /\ depth'[queue'[i]] \in Nat
             /\ depth[current] <= depth'[queue'[i]]
             /\ depth'[queue'[i]] <= depth[current] + 1
  <2>1. CASE i + 1 \in 1..Len(queue) /\ queue'[i] = queue[i + 1]
    BY <1>1, <1>4, <2>1
  <2>2. CASE queue'[i] \in new
    BY <1>1, <2>2
  <2>3. QED
    BY <1>2, <2>1, <2>2
<1>6. ASSUME NEW i \in 1..Len(queue'), NEW j \in 1..Len(queue'), i < j
      PROVE  depth'[queue'[i]] <= depth'[queue'[j]]
  <2>1. CASE queue'[j] \in new
    BY <1>1, <1>5, <2>1
  <2>2. CASE j <= Len(queue) - 1 /\ queue'[j] = queue[j + 1]
    <3>1. /\ i + 1 \in 1..Len(queue) /\ j + 1 \in 1..Len(queue) /\ i + 1 < j + 1
          /\ ~(i > Len(queue) - 1)
      BY <1>2, <1>6, <2>2
    <3>2. queue'[i] = queue[i + 1]
      BY <1>2, <3>1
    <3>3. depth[queue[i + 1]] <= depth[queue[j + 1]]
      BY <1>3, <3>1
    <3>4. QED
      BY <1>1, <2>2, <3>1, <3>2, <3>3
  <2>3. QED
    BY <1>2, <2>1, <2>2
<1>7. ASSUME NEW n \in Found \union new, NEW i \in 1..Len(queue')
      PROVE  depth'[n] <= depth'[queue'[i]] + 1
  <2>1. depth'[n] \in Nat /\ depth'[n] <= depth[current] + 1
    BY <1>1, <1>4
  <2>2. QED
    BY <1>1, <1>5, <2>1
<1>8. QED
  BY <1>1, <1>2, <1>6, <1>7 DEF QueueInv

\* What leaves the queue has its neighbours found.
LEMMA ExpandExpanded ==
  ASSUME TopologyInv, UNCHANGED <<links, root>>,
         NEW current, NEW new, NEW added, Adds(current, new, added)
  PROVE  ExpandedInv'
<1>1. /\ current \in Found /\ current = queue[1]
      /\ Found' = Found \union new /\ new = Neighbours(current) \ Found
      /\ \A n \in Found : depth'[n] = depth[n] /\ depth[n] \in Nat
      /\ \A n \in new : depth'[n] = depth[current] + 1
  BY DEF TopologyInv, MapInv, Adds
<1>2. /\ Len(queue) \in Nat \ {0}
      /\ \A j \in 2..Len(queue) : \E i \in 1..Len(queue') : queue'[i] = queue[j]
      /\ \A x \in new : \E i \in 1..Len(queue') : queue'[i] = x
  BY EntryFact
<1>3. \A n : Neighbours(n)' = Neighbours(n)
  BY SameBoard
<1>4. ASSUME NEW n \in Found \union new, ~Queued(n)'
      PROVE  \A b \in Neighbours(n) :
               b \in Found \union new /\ depth'[b] <= depth'[n] + 1
  <2>1. n \in Found
    BY <1>2, <1>4 DEF Queued
  <2>2. CASE n = current
    <3>1. \A m \in Found : depth[m] <= depth[current] + 1
      BY <1>1, <1>2 DEF TopologyInv, QueueInv
    <3>2. QED
      BY <1>1, <2>2, <3>1
  <2>3. CASE n # current
    <3>1. ~Queued(n)
      <4> SUFFICES ASSUME NEW j \in 1..Len(queue), queue[j] = n PROVE FALSE
        BY DEF Queued
      <4>1. j \in 2..Len(queue)
        BY <1>1, <1>2, <2>3
      <4>2. QED
        BY <1>2, <1>4, <4>1 DEF Queued
    <3>2. \A b \in Neighbours(n) : b \in Found /\ depth[b] <= depth[n] + 1
      BY <2>1, <3>1 DEF TopologyInv, ExpandedInv
    <3>3. QED
      BY <1>1, <2>1, <3>2
  <2>4. QED
    BY <2>2, <2>3
<1>5. QED
  BY <1>1, <1>3, <1>4 DEF ExpandedInv

\* Every step keeps what the search keeps true.
LEMMA StepTopology == TopologyInv /\ [Next]_vars => TopologyInv'
<1> SUFFICES ASSUME TopologyInv, [Next]_vars PROVE TopologyInv'
  OBVIOUS
<1>1. CASE Expand
  <2>1. UNCHANGED <<links, root, start_margin_cycles, status>> /\ status = "searching"
    BY <1>1 DEF Expand
  <2>2. PICK current, new, added : Adds(current, new, added)
    BY <1>1, ExpandFact
  <2>3. MapInv' /\ DepthInv' /\ QueueInv' /\ ExpandedInv'
    BY <2>1, <2>2, ExpandMaps, ExpandDepth, ExpandQueue, ExpandExpanded
  <2>4. BoardInv' /\ StatusInv'
    BY <2>1 DEF TopologyInv, BoardInv, StatusInv
  <2>5. QED
    BY <2>3, <2>4 DEF TopologyInv
<1>2. ASSUME UNCHANGED <<links, root, queue, parent, edge_latency, depth,
                         latency_from_root>>
      PROVE  BoardInv' /\ MapInv' /\ DepthInv' /\ QueueInv' /\ ExpandedInv'
  <2>1. Found' = Found /\ \A n : Neighbours(n)' = Neighbours(n)
    BY <1>2, SameBoard DEF Found
  <2>2. BoardInv' /\ DepthInv' /\ QueueInv'
    BY <1>2, <2>1 DEF TopologyInv, BoardInv, DepthInv, QueueInv
  <2>3. MapInv'
    BY <1>2, <2>1 DEF TopologyInv, MapInv
  <2>4. ExpandedInv'
    BY <1>2, <2>1 DEF TopologyInv, ExpandedInv, Queued
  <2>5. QED
    BY <2>2, <2>3, <2>4
<1>3. CASE Reject
  <2>1. StatusInv'
    BY <1>3 DEF Reject, StatusInv, Found
  <2>2. QED
    BY <1>2, <1>3, <2>1 DEF Reject, TopologyInv
<1>4. CASE Finish
  <2>1. StatusInv'
    BY <1>4 DEF Finish, StatusInv, Found
  <2>2. QED
    BY <1>2, <1>4, <2>1 DEF Finish, TopologyInv
<1>5. CASE UNCHANGED vars
  <2>1. StatusInv'
    BY <1>5 DEF vars, TopologyInv, StatusInv, Found
  <2>2. QED
    BY <1>2, <1>5, <2>1 DEF vars, TopologyInv
<1>6. QED
  BY <1>1, <1>3, <1>4, <1>5 DEF Next

\* On every board the maps and the queue describe the part of the tree found.
THEOREM TypeCorrect == Spec => []TypeOK
<1>1. TopologyInv => TypeOK
  BY DEF TopologyInv, MapInv, QueueInv, StatusInv, TypeOK
<1>2. QED
  BY <1>1, InitTopology, StepTopology, PTL DEF Spec

-----------------------------------------------------------------------------
(* Hop distance.                                                           *)

\* A board has finitely many FPGAs.
LEMMA BoardSize == IsFiniteSet(Fpga) /\ Cardinality(Fpga) \in Nat
  BY BoardAssumption, FS_CardinalityType

\* Reach, level by level.
LEMMA ReachFact ==
  ASSUME root \in Fpga
  PROVE  /\ Reach \in [0..Cardinality(Fpga) -> SUBSET Fpga]
         /\ Reach[0] = {root}
         /\ \A k \in 1..Cardinality(Fpga) : Reach[k] =
              Reach[k - 1] \union UNION {Neighbours(n) : n \in Reach[k - 1]}
<1> DEFINE N == Cardinality(Fpga)
           IsReach(f) == f = [k \in 0..N |-> IF k = 0 THEN {root}
             ELSE f[k - 1] \union UNION {Neighbours(n) : n \in f[k - 1]}]
           g == [s \in SUBSET Fpga |-> s \union UNION {Neighbours(n) : n \in s}]
<1>1. Reach = CHOOSE f : IsReach(f)
  BY Zenon DEF Reach
<1>2. N \in Nat
  BY BoardSize
<1>3. g \in [SUBSET Fpga -> SUBSET Fpga] /\ {root} \in SUBSET Fpga
  BY DEF Neighbours
<1>4. \A s \in SUBSET Fpga : g[s] = s \union UNION {Neighbours(n) : n \in s}
  OBVIOUS
<1> HIDE DEF N, g
<1>5. PICK f \in [0..N -> SUBSET Fpga] :
        f[0] = {root} /\ \A k \in 1..N : f[k] = g[f[k - 1]]
  <2> DEFINE D == SUBSET Fpga
             a == {root}
  <2>1. a \in D /\ g \in [D -> D]
    BY <1>3
  <2> HIDE DEF D, a
  <2>2. \E f : IsIterate(f, D, a, g, N)
    BY <1>2, <2>1, Iterates
  <2>3. QED
    BY <2>2, Zenon DEF D, a, IsIterate
<1>6. \A k \in 1..N : k - 1 \in 0..N /\ f[k - 1] \in SUBSET Fpga
  BY <1>2, <1>5
<1>7. \A k \in 1..N :
        f[k] = f[k - 1] \union UNION {Neighbours(n) : n \in f[k - 1]}
  BY <1>4, <1>5, <1>6, Zenon
<1>8. \A k \in 0..N : k # 0 => k \in 1..N
  BY <1>2
<1>9. IsReach(f)
  <2>1. f = [k \in 0..N |-> f[k]]
    BY <1>5
  <2>2. ASSUME NEW k \in 0..N
        PROVE  f[k] = IF k = 0 THEN {root}
                 ELSE f[k - 1] \union UNION {Neighbours(n) : n \in f[k - 1]}
    BY <1>5, <1>7, <1>8, Zenon
  <2>3. QED
    BY <2>1, <2>2, Zenon
<1>10. IsReach(Reach)
  BY <1>1, <1>9, Zenon
<1> DEFINE R == Reach
<1> HIDE DEF R
<1>11. DOMAIN R = 0..N /\ R[0] = {root} /\ \A k \in 1..N :
         R[k] = R[k - 1] \union UNION {Neighbours(n) : n \in R[k - 1]}
  <2>1. R = [k \in 0..N |-> IF k = 0 THEN {root}
             ELSE R[k - 1] \union UNION {Neighbours(n) : n \in R[k - 1]}]
    BY <1>10, Zenon DEF R
  <2>2. 0 \in 0..N /\ \A k \in 1..N : k \in 0..N /\ k # 0
    BY <1>2
  <2>3. R[0] = {root}
    BY <2>1, <2>2, Zenon
  <2>4. ASSUME NEW k \in 1..N
        PROVE  R[k] = R[k - 1] \union UNION {Neighbours(n) : n \in R[k - 1]}
    BY <2>1, <2>2, Zenon
  <2>5. DOMAIN R = 0..N
    BY <2>1, Zenon
  <2>6. QED
    BY <2>3, <2>4, <2>5
<1> DEFINE Bad == {k \in Nat : k \in 0..N /\ R[k] \notin SUBSET Fpga}
<1>12. Bad = {}
  <2> SUFFICES ASSUME Bad # {} PROVE FALSE
    OBVIOUS
  <2>1. PICK k \in Bad : \A j \in Bad : k <= j
    <3>1. Bad \in SUBSET Nat
      OBVIOUS
    <3> HIDE DEF Bad
    <3>2. QED
      BY <3>1, LeastNat
  <2>2. k \in 0..N /\ k # 0
    BY <1>3, <1>11, <2>1
  <2>3. k \in 1..N /\ k - 1 \in 0..N /\ k - 1 \in Nat
    BY <1>2, <2>2
  <2>4. R[k - 1] \in SUBSET Fpga
    BY <2>1, <2>3
  <2>5. R[k] \in SUBSET Fpga
    <3>1. R[k] = R[k - 1] \union UNION {Neighbours(n) : n \in R[k - 1]}
      BY <1>11, <2>3
    <3>2. QED
      BY <2>4, <3>1 DEF Neighbours
  <2>6. QED
    BY <2>1, <2>5
<1>13. \A k \in 0..N : R[k] \in SUBSET Fpga
  BY <1>2, <1>12
<1>14. R = [k \in 0..N |-> R[k]]
  <2>1. R = [k \in 0..N |-> IF k = 0 THEN {root}
             ELSE R[k - 1] \union UNION {Neighbours(n) : n \in R[k - 1]}]
    BY <1>10, Zenon DEF R
  <2>2. QED
    BY <2>1
<1>15. R \in [0..N -> SUBSET Fpga]
  BY <1>13, <1>14
<1>16. QED
  BY <1>11, <1>15, Zenon DEF R, N

\* An FPGA found is in reach of as many hops as it is deep.
LEMMA FoundIsReached ==
  ASSUME TopologyInv, NEW n \in Found
  PROVE  depth[n] \in 0..Cardinality(Fpga) /\ n \in Reach[depth[n]]
<1> DEFINE N == Cardinality(Fpga)
<1>1. /\ Found \in SUBSET Fpga /\ root \in Found /\ root \in Fpga
      /\ depth \in [Found -> Nat] /\ depth[root] = 0
      /\ \A m \in Found \ {root} :
           /\ parent[m] \in Found /\ m \in Neighbours(parent[m])
           /\ depth[m] = depth[parent[m]] + 1
  BY DEF TopologyInv, BoardInv, MapInv
<1>2. \A m \in Found : depth[m] \in Nat /\ depth[m] \in 0..N
  <2>1. IsFiniteSet(Fpga) /\ N \in Nat
    BY BoardSize
  <2>2. Cardinality(Found) <= N /\ IsFiniteSet(Found)
    BY <1>1, <2>1, FS_Subset
  <2>3. Cardinality(Found) \in Nat
    BY <2>2, FS_CardinalityType
  <2>4. QED
    BY <1>1, <2>1, <2>2, <2>3 DEF TopologyInv, DepthInv
<1>3. /\ Reach[0] = {root}
      /\ \A k \in 1..N : Reach[k] =
           Reach[k - 1] \union UNION {Neighbours(m) : m \in Reach[k - 1]}
  BY <1>1, ReachFact
<1> HIDE DEF N
<1> DEFINE Bad == {d \in Nat : \E m \in Found : depth[m] = d /\ m \notin Reach[d]}
<1>4. Bad = {}
  <2> SUFFICES ASSUME Bad # {} PROVE FALSE
    OBVIOUS
  <2>1. PICK d \in Bad : \A e \in Bad : d <= e
    <3>1. Bad \in SUBSET Nat
      OBVIOUS
    <3> HIDE DEF Bad
    <3>2. QED
      BY <3>1, LeastNat
  <2>2. PICK m \in Found : depth[m] = d /\ m \notin Reach[d]
    BY <2>1
  <2>3. m # root
    BY <1>1, <1>3, <2>2
  <2>4. /\ parent[m] \in Found /\ m \in Neighbours(parent[m])
        /\ depth[parent[m]] \in Nat /\ d = depth[parent[m]] + 1
    BY <1>1, <1>2, <2>2, <2>3
  <2>5. d \in 1..N /\ d - 1 = depth[parent[m]]
    BY <1>2, <2>2, <2>4
  <2>6. parent[m] \in Reach[d - 1]
    <3>1. depth[parent[m]] \notin Bad
      BY <2>1, <2>4
    <3>2. QED
      BY <2>4, <2>5, <3>1
  <2>7. m \in Reach[d]
    BY <1>3, <2>4, <2>5, <2>6
  <2>8. QED
    BY <2>2, <2>7
<1>5. QED
  BY <1>2, <1>4 DEF N

\* What is in reach of k hops is found no deeper, or something less than k
\* deep is still queued.
LEMMA ReachedIsFound ==
  ASSUME TopologyInv, NEW k \in 0..Cardinality(Fpga), NEW n \in Reach[k]
  PROVE  \/ n \in Found /\ depth[n] <= k
         \/ \E i \in 1..Len(queue) : depth[queue[i]] < k
<1> DEFINE N == Cardinality(Fpga)
           Done(m, j) == m \in Found /\ depth[m] <= j
           Pending(j) == \E i \in 1..Len(queue) : depth[queue[i]] < j
<1>1. /\ N \in Nat /\ root \in Found /\ root \in Fpga
      /\ depth \in [Found -> Nat] /\ depth[root] = 0
      /\ \A i \in 1..Len(queue) : queue[i] \in Found
  BY BoardSize DEF TopologyInv, BoardInv, MapInv, QueueInv
<1>2. /\ Reach[0] = {root}
      /\ \A j \in 1..N : Reach[j] =
           Reach[j - 1] \union UNION {Neighbours(m) : m \in Reach[j - 1]}
  BY <1>1, ReachFact
<1> HIDE DEF N
<1>3. ASSUME NEW j \in 1..N, NEW m, Done(m, j - 1) \/ Pending(j - 1)
      PROVE  Done(m, j) \/ Pending(j)
  <2>1. CASE Done(m, j - 1)
    BY <1>1, <2>1
  <2>2. CASE Pending(j - 1)
    BY <1>1, <2>2
  <2>3. QED
    BY <1>3, <2>1, <2>2
<1>4. ASSUME NEW j \in 1..N, NEW a, Done(a, j - 1) \/ Pending(j - 1),
             NEW m \in Neighbours(a)
      PROVE  Done(m, j) \/ Pending(j)
  <2>1. CASE Pending(j - 1)
    BY <1>1, <2>1
  <2>2. CASE Done(a, j - 1) /\ Queued(a)
    BY <1>1, <2>2 DEF Queued
  <2>3. CASE Done(a, j - 1) /\ ~Queued(a)
    <3>1. m \in Found /\ depth[m] <= depth[a] + 1
      BY <2>3 DEF TopologyInv, ExpandedInv
    <3>2. depth[m] \in Nat /\ depth[a] \in Nat /\ depth[a] <= j - 1
      BY <1>1, <2>3, <3>1
    <3>3. QED
      BY <3>1, <3>2
  <2>4. QED
    BY <1>4, <2>1, <2>2, <2>3
<1> DEFINE Bad == {j \in Nat : j \in 0..N /\
                     \E m \in Reach[j] : ~(Done(m, j) \/ Pending(j))}
<1>5. Bad = {}
  <2> SUFFICES ASSUME Bad # {} PROVE FALSE
    OBVIOUS
  <2>1. PICK j \in Bad : \A e \in Bad : j <= e
    <3>1. Bad \in SUBSET Nat
      OBVIOUS
    <3> HIDE DEF Bad
    <3>2. QED
      BY <3>1, LeastNat
  <2>2. PICK m \in Reach[j] : ~(Done(m, j) \/ Pending(j))
    BY <2>1
  <2>3. j # 0
    BY <1>1, <1>2, <2>2
  <2>4. j \in 1..N /\ j - 1 \in 0..N /\ j - 1 \in Nat
    BY <1>1, <2>1, <2>3
  <2>5. \A a \in Reach[j - 1] : Done(a, j - 1) \/ Pending(j - 1)
    <3>1. j - 1 \notin Bad
      BY <2>1, <2>4
    <3> HIDE DEF Done, Pending
    <3>2. QED
      BY <2>4, <3>1
  <2> HIDE DEF Done, Pending
  <2>6. m \notin Reach[j - 1]
    BY <1>3, <2>2, <2>4, <2>5
  <2>7. PICK a \in Reach[j - 1] : m \in Neighbours(a)
    BY <1>2, <2>2, <2>4, <2>6
  <2>8. QED
    BY <1>4, <2>2, <2>4, <2>5, <2>7
<1>6. k \in Nat
  BY <1>1 DEF N
<1>7. Done(n, k) \/ Pending(k)
  <2> HIDE DEF Done, Pending
  <2>1. QED
    BY <1>5, <1>6 DEF N
<1>8. QED
  BY <1>7

\* On every board and at every moment of the search, whatever the order in
\* which FPGAs are expanded, each FPGA found is at its hop distance.
THEOREM ShallowestTree == Spec => []DepthIsHopDistance
<1>1. ASSUME TopologyInv, NEW n \in Found PROVE depth[n] = Hops(n)
  <2> DEFINE S == {k \in DOMAIN Reach : n \in Reach[k]}
  <2>1. DOMAIN Reach = 0..Cardinality(Fpga) /\ Cardinality(Fpga) \in Nat
    BY <1>1, ReachFact, BoardSize DEF TopologyInv, BoardInv
  <2>2. depth[n] \in S
    BY <1>1, <2>1, FoundIsReached
  <2>3. ASSUME NEW k \in S PROVE depth[n] <= k
    <3>1. k \in 0..Cardinality(Fpga) /\ k \in Nat /\ n \in Reach[k]
      BY <2>1, <2>3
    <3>2. CASE n \in Found /\ depth[n] <= k
      BY <3>2
    <3>3. CASE \E i \in 1..Len(queue) : depth[queue[i]] < k
      <4>1. PICK i \in 1..Len(queue) : depth[queue[i]] < k
        BY <3>3
      <4>2. /\ depth[n] \in Nat /\ depth[queue[i]] \in Nat
            /\ depth[n] <= depth[queue[i]] + 1
        BY <1>1 DEF TopologyInv, MapInv, QueueInv
      <4>3. QED
        BY <3>1, <4>1, <4>2
    <3>4. QED
      BY <1>1, <3>1, <3>2, <3>3, ReachedIsFound
  <2>4. S \in SUBSET Int
    BY <2>1
  <2> HIDE DEF S
  <2>5. Min(S) = depth[n]
    BY <2>2, <2>3, <2>4, MinIs
  <2>6. QED
    BY <2>5, Zenon DEF Hops, S
<1>2. TopologyInv => DepthIsHopDistance
  BY <1>1 DEF DepthIsHopDistance
<1>3. QED
  BY <1>2, InitTopology, StepTopology, PTL DEF Spec

-----------------------------------------------------------------------------
(* The tree that is returned.                                              *)

\* The chain of parents of n, step by step.
LEMMA AboveFact ==
  ASSUME parent \in [Fpga \ {root} -> Fpga], NEW n \in Fpga
  PROVE  \E up \in [0..Cardinality(Fpga) -> Fpga] :
           /\ up[0] = n
           /\ \A k \in 1..Cardinality(Fpga) : up[k] =
                IF up[k - 1] # root THEN parent[up[k - 1]] ELSE root
           /\ Above(n) = {up[k] : k \in 0..Cardinality(Fpga)}
<1> DEFINE N == Cardinality(Fpga)
           IsUp(f) == f = [k \in 0..N |-> IF k = 0 THEN n
             ELSE IF f[k - 1] \in DOMAIN parent THEN parent[f[k - 1]] ELSE f[k - 1]]
           g == [m \in Fpga |-> IF m \in DOMAIN parent THEN parent[m] ELSE m]
           up == CHOOSE f : IsUp(f)
<1>1. Above(n) = {up[k] : k \in DOMAIN up}
  BY Zenon DEF Above
<1>2. N \in Nat
  BY BoardSize
<1>3. g \in [Fpga -> Fpga] /\ \A m \in Fpga :
        g[m] = IF m \in DOMAIN parent THEN parent[m] ELSE m
  OBVIOUS
<1> HIDE DEF N, g
<1>4. PICK f : IsIterate(f, Fpga, n, g, N)
  BY <1>2, <1>3, Iterates
<1>5. /\ f \in [0..N -> Fpga] /\ f[0] = n
      /\ \A k \in 1..N : k - 1 \in 0..N /\ f[k - 1] \in Fpga /\ f[k] = g[f[k - 1]]
  BY <1>2, <1>4 DEF IsIterate
<1>6. \A k \in 1..N : f[k] =
        IF f[k - 1] \in DOMAIN parent THEN parent[f[k - 1]] ELSE f[k - 1]
  BY <1>3, <1>5, Zenon
<1>7. \A k \in 0..N : k # 0 => k \in 1..N
  BY <1>2
<1>8. IsUp(f)
  <2>1. f = [k \in 0..N |-> f[k]]
    BY <1>5
  <2>2. ASSUME NEW k \in 0..N
        PROVE  f[k] = IF k = 0 THEN n
                 ELSE IF f[k - 1] \in DOMAIN parent THEN parent[f[k - 1]]
                 ELSE f[k - 1]
    BY <1>5, <1>6, <1>7, Zenon
  <2>3. QED
    BY <2>1, <2>2, Zenon
<1>9. IsUp(up)
  BY <1>8, Zenon
<1> HIDE DEF up
<1>10. /\ DOMAIN up = 0..N /\ up[0] = n /\ up = [k \in 0..N |-> up[k]]
       /\ \A k \in 1..N : up[k] =
            IF up[k - 1] \in DOMAIN parent THEN parent[up[k - 1]] ELSE up[k - 1]
  <2>1. 0 \in 0..N /\ \A k \in 1..N : k \in 0..N /\ k # 0
    BY <1>2
  <2>2. DOMAIN up = 0..N
    BY <1>9, Zenon
  <2>3. up[0] = n
    BY <1>9, <2>1, Zenon
  <2>4. \A k \in 1..N : up[k] =
          IF up[k - 1] \in DOMAIN parent THEN parent[up[k - 1]] ELSE up[k - 1]
    BY <1>9, <2>1, Zenon
  <2>5. up = [k \in 0..N |-> up[k]]
    BY <1>9
  <2>6. QED
    BY <2>2, <2>3, <2>4, <2>5
<1> DEFINE Bad == {k \in Nat : k \in 0..N /\ up[k] \notin Fpga}
<1>11. Bad = {}
  <2> SUFFICES ASSUME Bad # {} PROVE FALSE
    OBVIOUS
  <2>1. PICK k \in Bad : \A j \in Bad : k <= j
    <3>1. Bad \in SUBSET Nat
      OBVIOUS
    <3> HIDE DEF Bad
    <3>2. QED
      BY <3>1, LeastNat
  <2>2. k \in 1..N /\ k - 1 \in 0..N /\ k - 1 \in Nat
    BY <1>2, <1>10, <2>1
  <2>3. up[k - 1] \in Fpga
    BY <2>1, <2>2
  <2>4. up[k] \in Fpga
    BY <1>10, <2>2, <2>3
  <2>5. QED
    BY <2>1, <2>4
<1>12. \A k \in 0..N : up[k] \in Fpga
  BY <1>2, <1>11
<1>13. up \in [0..N -> Fpga]
  BY <1>10, <1>12
<1>14. \A k \in 1..N : up[k] = IF up[k - 1] # root THEN parent[up[k - 1]] ELSE root
  <2>1. \A k \in 1..N : k - 1 \in 0..N /\ up[k - 1] \in Fpga
    BY <1>2, <1>12
  <2>2. QED
    BY <1>10, <2>1
<1>15. QED
  BY <1>1, <1>10, <1>13, <1>14 DEF N

\* Who is above m is m or has a child that is: the subtrees nest.
LEMMA SubtreeNests ==
  ASSUME parent \in [Fpga \ {root} -> Fpga], root \in Fpga,
         NEW m \in Fpga, NEW n \in Above(m), m # n
  PROVE  \E c \in Fpga \ {root} : parent[c] = n /\ c \in Above(m)
<1> DEFINE N == Cardinality(Fpga)
<1>1. PICK up \in [0..N -> Fpga] :
        /\ up[0] = m
        /\ \A k \in 1..N : up[k] =
             IF up[k - 1] # root THEN parent[up[k - 1]] ELSE root
        /\ Above(m) = {up[k] : k \in 0..N}
  BY AboveFact
<1>2. N \in Nat
  BY BoardSize
<1> HIDE DEF N
<1> DEFINE At == {k \in 0..N : up[k] = n}
<1>3. PICK k \in At : \A j \in At : k <= j
  <2>1. At \in SUBSET Nat /\ At # {}
    BY <1>1, <1>2
  <2> HIDE DEF At
  <2>2. QED
    BY <2>1, LeastNat
<1>4. k \in 1..N /\ k - 1 \in 0..N /\ up[k] = n
  BY <1>1, <1>2, <1>3
<1>5. up[k - 1] # n /\ up[k - 1] \in Fpga /\ up[k - 1] \in Above(m)
  BY <1>1, <1>2, <1>3, <1>4
<1>6. up[k - 1] # root /\ parent[up[k - 1]] = n
  BY <1>1, <1>4, <1>5
<1>7. QED
  BY <1>5, <1>6

\* The root is above every FPGA: each step up the chain is one level less.
LEMMA RootIsAbove ==
  ASSUME TopologyInv, Found = Fpga, NEW m \in Fpga
  PROVE  root \in Above(m)
<1> DEFINE N == Cardinality(Fpga)
<1>1. /\ parent \in [Fpga \ {root} -> Fpga] /\ root \in Fpga
      /\ depth \in [Fpga -> Nat] /\ depth[root] = 0
      /\ \A n \in Fpga \ {root} : depth[n] = depth[parent[n]] + 1
      /\ depth[m] < N /\ N \in Nat
  BY BoardSize DEF TopologyInv, BoardInv, MapInv, DepthInv
<1>2. PICK up \in [0..N -> Fpga] :
        /\ up[0] = m
        /\ \A k \in 1..N : up[k] =
             IF up[k - 1] # root THEN parent[up[k - 1]] ELSE root
        /\ Above(m) = {up[k] : k \in 0..N}
  BY <1>1, AboveFact
<1> HIDE DEF N
<1> DEFINE Bad == {k \in Nat : k \in 0..N /\ depth[up[k]] + k > depth[m]
                                /\ depth[up[k]] # 0}
<1>3. Bad = {}
  <2> SUFFICES ASSUME Bad # {} PROVE FALSE
    OBVIOUS
  <2>1. PICK k \in Bad : \A j \in Bad : k <= j
    <3>1. Bad \in SUBSET Nat
      OBVIOUS
    <3> HIDE DEF Bad
    <3>2. QED
      BY <3>1, LeastNat
  <2>2. /\ k \in 0..N /\ k \in Nat /\ depth[up[k]] + k > depth[m]
        /\ depth[up[k]] # 0
    BY <2>1
  <2>3. k # 0
    BY <1>1, <1>2, <2>2
  <2>4. k \in 1..N /\ k - 1 \in 0..N /\ k - 1 \in Nat
    BY <1>1, <2>2, <2>3
  <2>5. up[k - 1] \in Fpga /\ up[k - 1] # root /\ up[k] = parent[up[k - 1]]
    BY <1>1, <1>2, <2>2, <2>4
  <2>6. depth[up[k - 1]] = depth[up[k]] + 1 /\ depth[up[k]] \in Nat
    BY <1>1, <1>2, <2>2, <2>5
  <2>7. depth[up[k - 1]] + (k - 1) > depth[m] /\ depth[up[k - 1]] # 0
    BY <1>1, <2>2, <2>4, <2>6
  <2>8. k - 1 \in Bad
    BY <2>4, <2>7
  <2>9. QED
    BY <2>1, <2>4, <2>8
<1>4. depth[m] \in Nat /\ N \in 0..N /\ up[N] \in Fpga /\ depth[up[N]] \in Nat
  BY <1>1, <1>2
<1>5. depth[up[N]] = 0
  <2>1. depth[up[N]] + N > depth[m]
    BY <1>1, <1>4
  <2>2. N \notin Bad
    BY <1>3
  <2>3. QED
    BY <1>1, <1>4, <2>1, <2>2
<1>6. up[N] = root
  <2> SUFFICES ASSUME up[N] # root PROVE FALSE
    OBVIOUS
  <2>1. depth[up[N]] = depth[parent[up[N]]] + 1 /\ parent[up[N]] \in Fpga
    BY <1>1, <1>4
  <2>2. depth[parent[up[N]]] \in Nat
    BY <1>1, <2>1
  <2>3. QED
    BY <1>5, <2>1, <2>2
<1>7. QED
  BY <1>2, <1>4, <1>6

\* For every board that is connected the builder returns a topology that
\* RuntimeSyncTree may assume, parallel links and links of zero cycles
\* included: TopologyAssumption is discharged.
THEOREM TreeIsSound == Spec => []BuildsTopology
<1>1. ASSUME TopologyInv, status = "built"
      PROVE  TopologyOK(Fpga, root, parent,
               [c \in Fpga \ {root} |-> edge_latency[c]],
               latency_from_root, Subtree, start_margin_cycles)
  <2>1. /\ Found = Fpga /\ root \in Fpga /\ parent \in [Fpga \ {root} -> Fpga]
        /\ edge_latency \in [Fpga -> Nat]
        /\ latency_from_root \in [Fpga -> Nat] /\ latency_from_root[root] = 0
        /\ \A n \in Fpga \ {root} :
             /\ edge_latency[n] # 0
             /\ latency_from_root[n] =
                  latency_from_root[parent[n]] + edge_latency[n] + 1
    BY <1>1 DEF TopologyInv, MapInv, StatusInv
  <2>2. /\ start_margin_cycles \in Nat
        /\ \A n \in Fpga : latency_from_root[n] + 2 <= start_margin_cycles
    <3> DEFINE L == {latency_from_root[n] : n \in Fpga}
    <3>1. L \in SUBSET Int /\ L # {} /\ L \in SUBSET Nat
      BY <2>1
    <3>2. IsFiniteSet(L)
      BY BoardSize, FiniteRange
    <3>3. \A n \in Fpga : latency_from_root[n] \in L
      OBVIOUS
    <3> HIDE DEF L
    <3>4. Max(L) \in L /\ \A y \in L : y <= Max(L)
      BY <3>1, <3>2, MaxFact
    <3>5. start_margin_cycles = Max(L) + 2
      BY <1>1 DEF TopologyInv, StatusInv, MarginFor, L
    <3>6. Max(L) \in Nat
      BY <3>1, <3>4
    <3>7. ASSUME NEW n \in Fpga
          PROVE  latency_from_root[n] \in Nat /\ latency_from_root[n] <= Max(L)
      BY <3>1, <3>3, <3>4
    <3>8. QED
      BY <3>5, <3>6, <3>7
  <2>3. Subtree \in [Fpga -> SUBSET Fpga]
    BY DEF Subtree
  <2>4. \A n, m \in Fpga : m \in Subtree[n] <=> n \in Above(m)
    BY DEF Subtree
  <2>5. ASSUME NEW n \in Fpga, NEW m \in Subtree[n]
        PROVE  m = n \/ \E c \in Fpga \ {root} : parent[c] = n /\ m \in Subtree[c]
    <3>1. m \in Fpga /\ n \in Above(m)
      BY <2>3, <2>4
    <3>2. m = n \/ \E c \in Fpga \ {root} : parent[c] = n /\ c \in Above(m)
      BY <2>1, <3>1, SubtreeNests
    <3>3. QED
      BY <2>4, <3>1, <3>2
  <2>6. Subtree[root] = Fpga
    <3>1. \A m \in Fpga : m \in Subtree[root]
      BY <1>1, <2>1, <2>4, RootIsAbove
    <3>2. QED
      BY <2>1, <2>3, <3>1
  <2>7. [c \in Fpga \ {root} |-> edge_latency[c]] \in [Fpga \ {root} -> Nat \ {0}]
    BY <2>1
  <2>8. \A c \in Fpga \ {root} : latency_from_root[c] =
          latency_from_root[parent[c]]
            + [e \in Fpga \ {root} |-> edge_latency[e]][c] + 1
    BY <2>1
  <2>9. QED
    BY <2>1, <2>2, <2>3, <2>5, <2>6, <2>7, <2>8, Zenon DEF TopologyOK
<1>2. TopologyInv => BuildsTopology
  BY <1>1 DEF BuildsTopology
<1>3. QED
  BY <1>2, InitTopology, StepTopology, PTL DEF Spec

\* What is in reach of k hops is in reach of more.
LEMMA ReachGrows ==
  ASSUME root \in Fpga, NEW k \in 0..Cardinality(Fpga), NEW n \in Reach[k]
  PROVE  n \in Reach[Cardinality(Fpga)]
<1> DEFINE N == Cardinality(Fpga)
           Bad == {j \in Nat : j \in k..N /\ n \notin Reach[j]}
<1>1. N \in Nat /\ k \in 0..N
  BY BoardSize
<1>2. \A j \in 1..N : \A m \in Reach[j - 1] : m \in Reach[j]
  BY ReachFact
<1> HIDE DEF N
<1>3. Bad = {}
  <2> SUFFICES ASSUME Bad # {} PROVE FALSE
    OBVIOUS
  <2>1. PICK j \in Bad : \A e \in Bad : j <= e
    <3>1. Bad \in SUBSET Nat
      OBVIOUS
    <3> HIDE DEF Bad
    <3>2. QED
      BY <3>1, LeastNat
  <2>2. j \in k..N /\ j # k /\ n \notin Reach[j]
    BY <2>1
  <2>3. j \in 1..N /\ j - 1 \in k..N /\ j - 1 \in Nat
    BY <1>1, <2>2
  <2>4. n \in Reach[j - 1]
    BY <2>1, <2>3
  <2>5. QED
    BY <1>2, <2>2, <2>3, <2>4
<1>4. N \in k..N
  BY <1>1
<1>5. n \in Reach[N]
  BY <1>1, <1>3, <1>4
<1>6. QED
  BY <1>5 DEF N

\* The safety half of Decides, on every board: the builder returns a topology
\* only when every FPGA is in reach and refuses only when some FPGA is not.
THEOREM DecisionIsRight ==
  Spec => [](status # "searching" =>
               (status = "built" <=> Reach[Cardinality(Fpga)] = Fpga))
<1> DEFINE N == Cardinality(Fpga)
<1>1. ASSUME TopologyInv, status = "built" PROVE Reach[N] = Fpga
  <2>1. root \in Fpga /\ Found = Fpga /\ N \in Nat
    BY <1>1, BoardSize DEF TopologyInv, BoardInv, StatusInv
  <2>2. Reach[N] \in SUBSET Fpga
    BY <2>1, ReachFact
  <2>3. ASSUME NEW n \in Fpga PROVE n \in Reach[N]
    <3>1. depth[n] \in 0..N /\ n \in Reach[depth[n]]
      BY <1>1, <2>1, FoundIsReached
    <3>2. QED
      BY <2>1, <3>1, ReachGrows
  <2>4. QED
    BY <2>2, <2>3
<1>2. ASSUME TopologyInv, status = "rejected" PROVE Reach[N] # Fpga
  <2>1. queue = <<>> /\ Found # Fpga /\ Found \in SUBSET Fpga /\ N \in 0..N
    BY <1>2, BoardSize DEF TopologyInv, MapInv, StatusInv
  <2>2. PICK n \in Fpga : n \notin Found
    BY <2>1
  <2>3. n \notin Reach[N]
    <3> SUFFICES ASSUME n \in Reach[N] PROVE FALSE
      OBVIOUS
    <3>1. n \in Found \/ \E i \in 1..Len(queue) : depth[queue[i]] < N
      BY <1>2, <2>1, ReachedIsFound
    <3>2. QED
      BY <2>1, <2>2, <3>1
  <2>4. QED
    BY <2>2, <2>3
<1>3. TopologyInv => (status # "searching" => (status = "built" <=> Reach[N] = Fpga))
  BY <1>1, <1>2 DEF TopologyInv, StatusInv
<1>4. QED
  BY <1>3, InitTopology, StepTopology, PTL DEF Spec
=============================================================================
