--------------------------- MODULE PcsEdge_proofs ---------------------------
(***************************************************************************)
(* The start over a serial link, for every delay, jitter, margin and       *)
(* modulus that satisfies the assumptions, and for any number of failures  *)
(* and dropped records: a child runs only for a start its root decided,    *)
(* both ends are released by the same edge as long as they stay ready,     *)
(* control and data do not meet before an end was disturbed, a root does   *)
(* not count a child as ready MaxDelay + 2 cycles after it was not, a      *)
(* child's fault is not lost, and a root does not run beside a child that  *)
(* missed the start once nothing is under way.                             *)
(***************************************************************************)
EXTENDS PcsEdge, SequenceTheorems, FiniteSetTheorems, NatLemmas, TLAPS

StartWord == [kind : {"START"}, seq : 0..(SeqModulus - 1), value : 0..(EpochModulus - 1)]
ReadyWord == [kind : {"READY"}, seq : 0..(SeqModulus - 1), value : BOOLEAN]
WordOf(n) == IF n = P THEN StartWord ELSE ReadyWord
Record(W) == [word : W, age : Nat]

Age(n, i) == wire[n][i].age
Under(n) == 1..Len(wire[n])

\* Records travel in the order in which they were sent, one per cycle, so the
\* older is always nearer, and there is no room for more than MaxDelay.
Ordered(w) ==
  /\ \A i \in 1..Len(w) : w[i].age \in 1..MaxDelay /\ w[i].age > Len(w) - i
  /\ \A i, j \in 1..Len(w) : i < j => w[i].age > w[j].age

WireInv ==
  /\ \A n \in Node : tx_control[n] \in {None} \cup WordOf(n)
  /\ \A n \in Node : wire[n] \in Seq(Record(WordOf(n))) /\ Ordered(wire[n])

\* While the reset is there nothing enters the wire.
DrainInv == reset => \A n \in Node : \A i \in Under(n) : Age(n, i) > reset_held

\* Whatever looks like a start comes from the root's decision.
StartInv ==
  /\ \A n \in Node : released[n] => start_armed[n]
  /\ start_sent => start_armed[P]
  /\ tx_control[P] # None => start_armed[P] /\ tx_control[P].value = target_epoch[P]
  /\ remote_start # None => start_armed[P] /\ remote_start = target_epoch[P]
  /\ ~reset => \A i \in Under(P) : /\ start_armed[P]
                                   /\ wire[P][i].word.value = target_epoch[P]
  /\ \A n \in Node : tx_ready[n] \/ (n \in DataEnd /\ released[n])

\* An end that was heard, or from which the root started, had its lock; it has
\* it still, or has the error with which it was lost.
Locked(n) == link_ready[n] \/ link_error[n]
LockInv ==
  /\ start_armed[P] => \A n \in Node : Locked(n)
  /\ ~reset => /\ remote_subtree_ready => Locked(C)
               /\ tx_control[C] # None => Locked(C)
               /\ wire[C] # <<>> => Locked(C)

\* No end has an error of its link.
Whole == \A n \in Node : ~link_error[n]

\* Since the root armed, both ends have been ready and still are.
Clean == ~disturbed /\ \A n \in Node : local_ready(n)

\* The root's target is k edges away.
Left(k) == k \in 0..(StartMargin - 1) /\ target_epoch[P] = (epoch + k) % EpochModulus

\* Where the start is, k edges before it is due.
Decided(k) ==
  /\ ~start_sent /\ tx_control[P] = None /\ wire[P] = <<>>
  /\ remote_start = None /\ ~start_armed[C] /\ k = StartMargin - 1
Sending(k) ==
  /\ start_sent /\ tx_control[P] # None /\ wire[P] = <<>>
  /\ remote_start = None /\ ~start_armed[C] /\ k = StartMargin - 2
Travelling(k) ==
  /\ start_sent /\ tx_control[P] = None /\ Len(wire[P]) = 1
  /\ remote_start = None /\ ~start_armed[C] /\ k = StartMargin - 2 - Age(P, 1)
Heard(k) ==
  /\ start_sent /\ tx_control[P] = None
  /\ remote_start # None /\ ~start_armed[C] /\ k \in 1..(StartMargin - 4)
Armed(k) ==
  /\ start_sent /\ tx_control[P] = None
  /\ start_armed[C] /\ k \in 0..(StartMargin - 5)

OnItsWay(k) ==
  /\ Left(k)
  /\ Decided(k) \/ Sending(k) \/ Travelling(k) \/ Heard(k) \/ Armed(k)

Running ==
  released[P] /\ released[C] /\ in_step /\ start_sent /\ tx_control[P] = None

\* As long as no link has an error the word is on time, ready or not.
WindowInv ==
  Whole /\ start_armed[P] =>
    Running \/ (~released[P] /\ ~released[C] /\ \E k \in 0..(StartMargin - 1) : OnItsWay(k))

\* The child's READY was sent before the data stream begins.
ReadyInv ==
  Clean /\ start_armed[P] =>
    last_ready_sent = TRUE /\ (released[C] => tx_control[C] = None)

\* What the root will believe in the end, once FALSE was the last word: that,
\* or the word was dropped and the root has the error of it.
LastIsFalse ==
  last_ready_sent = FALSE =>
    /\ tx_control[C] # None => tx_control[C].value = FALSE
    /\ tx_control[C] = None /\ wire[C] # <<>> => wire[C][Len(wire[C])].word.value = FALSE
    /\ tx_control[C] = None /\ wire[C] = <<>> => ~remote_subtree_ready \/ link_error[P]

\* How far that word has come.
UnreadyInv ==
  /\ unready >= 1 => last_ready_sent = FALSE
  /\ unready >= 2 => /\ tx_control[C] = None
                     /\ \A i \in Under(C) : Age(C, i) >= unready - 1

IInv ==
  /\ TypeOK /\ WireInv /\ DrainInv
  /\ StartInv /\ ChildFollows
  /\ LockInv /\ WindowInv /\ ReadyInv /\ ReleaseTogether /\ NoOverlap
  /\ LastIsFalse /\ UnreadyInv /\ StaleReadyBounded
  /\ sticky_fault[C] => released[C]
  /\ FaultOnItsWay

-----------------------------------------------------------------------------
(* The wire.                                                               *)

LEMMA AgedSeq ==
  ASSUME NEW W, NEW w \in Seq(Record(W))
  PROVE  /\ Aged(w) \in Seq(Record(W)) /\ Len(Aged(w)) = Len(w)
         /\ \A i \in 1..Len(w) : Aged(w)[i].word = w[i].word /\ Aged(w)[i].age = w[i].age + 1
<1>1. /\ Len(w) \in Nat /\ DOMAIN w = 1..Len(w)
      /\ \A i \in 1..Len(w) : w[i] \in Record(W)
  BY LenProperties, ElementOfSeq
<1>2. \A i \in 1..Len(w) : /\ Aged(w)[i] = [w[i] EXCEPT !.age = @ + 1]
                           /\ Aged(w)[i] \in Record(W)
  BY <1>1 DEF Aged, Record
<1>3. Aged(w) \in [1..Len(w) -> Record(W)]
  BY <1>1, <1>2 DEF Aged
<1>4. Aged(w) \in Seq(Record(W)) /\ Len(Aged(w)) = Len(w)
  BY <1>1, <1>3, SeqDef
<1>5. QED
  BY <1>1, <1>2, <1>4 DEF Record

\* What an edge makes of a sequence of records w: the first drop of them leave
\* (none or one), all others age, and add come in (none or one).
MovesTo(w, new, drop, add, x) ==
  /\ drop <= Len(w)
  /\ Len(new) = Len(w) - drop + add
  /\ \A i \in 1..(Len(w) - drop) :
       new[i].word = w[i + drop].word /\ new[i].age = w[i + drop].age + 1
  /\ add = 1 => new[Len(new)].word = x /\ new[Len(new)].age = 1

LEMMA Moving ==
  ASSUME NEW W, NEW w \in Seq(Record(W)), NEW leaves \in BOOLEAN, NEW enters \in BOOLEAN,
         NEW x, enters => x \in W, leaves => w # <<>>,
         NEW new, new = Aged(IF leaves THEN Tail(w) ELSE w)
                        \o IF enters THEN <<[word |-> x, age |-> 1]>> ELSE <<>>
  PROVE  /\ new \in Seq(Record(W))
         /\ \E drop, add \in 0..1 : /\ drop = 1 <=> leaves
                                    /\ add = 1 <=> enters
                                    /\ MovesTo(w, new, drop, add, x)
<1> DEFINE rest == IF leaves THEN Tail(w) ELSE w
           last == IF enters THEN <<[word |-> x, age |-> 1]>> ELSE <<>>
           kept == IF leaves THEN Len(w) - 1 ELSE Len(w)
<1>1. /\ rest \in Seq(Record(W)) /\ Len(rest) = kept /\ kept \in Nat
      /\ \A i \in 1..kept : rest[i] = w[IF leaves THEN i + 1 ELSE i]
  <2>1. CASE leaves
    BY <2>1, HeadTailProperties, LenProperties, EmptySeq
  <2>2. CASE ~leaves
    BY <2>2, LenProperties
  <2>3. QED
    BY <2>1, <2>2
<1>2. /\ last \in Seq(Record(W)) /\ Len(last) = IF enters THEN 1 ELSE 0
      /\ enters => last[1].word = x /\ last[1].age = 1
  <2>1. CASE enters
    BY <2>1 DEF Record
  <2>2. CASE ~enters
    BY <2>2
  <2>3. QED
    BY <2>1, <2>2
<1>3. /\ Aged(rest) \in Seq(Record(W)) /\ Len(Aged(rest)) = kept
      /\ \A i \in 1..kept : Aged(rest)[i].word = rest[i].word /\ Aged(rest)[i].age = rest[i].age + 1
  BY <1>1, AgedSeq
<1> DEFINE aged == Aged(rest)
<1>4. new = aged \o last
  OBVIOUS
<1>5. aged \in Seq(Record(W)) /\ last \in Seq(Record(W)) /\ Len(aged) = kept
  BY <1>2, <1>3
<1>6. \A i \in 1..kept : LET j == IF leaves THEN i + 1 ELSE i
                         IN aged[i].word = w[j].word /\ aged[i].age = w[j].age + 1
  BY <1>1, <1>3
<1> HIDE DEF rest, last, aged, kept
<1>7. /\ new \in Seq(Record(W)) /\ Len(new) = Len(aged) + Len(last)
      /\ \A i \in 1..(Len(aged) + Len(last)) :
           new[i] = IF i <= Len(aged) THEN aged[i] ELSE last[i - Len(aged)]
  <2>1. /\ aged \o last \in Seq(Record(W))
        /\ Len(aged \o last) = Len(aged) + Len(last)
        /\ \A i \in 1..(Len(aged) + Len(last)) :
             (aged \o last)[i] = IF i <= Len(aged) THEN aged[i] ELSE last[i - Len(aged)]
    BY <1>5, ConcatProperties, Zenon
  <2>2. QED
    BY <1>4, <2>1, Zenon
<1>8. Len(new) = IF enters THEN kept + 1 ELSE kept
  BY <1>1, <1>2, <1>5, <1>7
<1>9. \A i \in 1..kept : new[i] = aged[i]
  BY <1>1, <1>2, <1>5, <1>7
<1>10. ASSUME enters PROVE new[kept + 1] = last[1]
  <2>1. Len(last) = 1 /\ Len(aged) = kept /\ kept \in Nat
    BY <1>1, <1>2, <1>5, <1>10
  <2>2. /\ kept + 1 \in 1..(Len(aged) + Len(last)) /\ ~(kept + 1 <= Len(aged))
        /\ (kept + 1) - Len(aged) = 1
    BY <2>1
  <2>3. QED
    BY <1>7, <2>2, Zenon
<1>11. PICK drop \in 0..1, add \in 0..1 : (drop = 1 <=> leaves) /\ (add = 1 <=> enters)
  BY 0 \in 0..1, 1 \in 0..1
<1>12. kept = Len(w) - drop /\ Len(new) = kept + add /\ Len(w) \in Nat
  BY <1>8, <1>11, LenProperties DEF kept
<1>13. \A i \in 1..kept : new[i].word = w[i + drop].word /\ new[i].age = w[i + drop].age + 1
  <2>1. CASE leaves
    BY <1>6, <1>9, <1>11, <2>1
  <2>2. CASE ~leaves
    <3>1. drop = 0 /\ \A i \in 1..kept : i + 0 = i
      BY <1>1, <1>11, <2>2
    <3>2. QED
      BY <1>6, <1>9, <2>2, <3>1
  <2>3. QED
    BY <2>1, <2>2
<1>14. MovesTo(w, new, drop, add, x)
  <2>1. drop <= Len(w) /\ Len(new) = Len(w) - drop + add
    BY <1>1, <1>11, <1>12
  <2>2. \A i \in 1..(Len(w) - drop) :
          new[i].word = w[i + drop].word /\ new[i].age = w[i + drop].age + 1
    BY <1>12, <1>13, Zenon
  <2>3. ASSUME add = 1 PROVE new[Len(new)].word = x /\ new[Len(new)].age = 1
    <3>1. enters /\ Len(new) = kept + 1
      BY <1>11, <1>12, <2>3
    <3>2. new[Len(new)] = last[1]
      BY <1>10, <3>1
    <3>3. QED
      BY <1>2, <3>1, <3>2
  <2>4. QED
    BY <2>1, <2>2, <2>3 DEF MovesTo
<1>15. QED
  BY <1>7, <1>11, <1>14

\* What an edge makes of the records that n sent.
MovesOn(n, arriving, accepted) ==
  \E drop, add \in 0..1 : /\ drop = 1 <=> Other(n) \in arriving
                          /\ add = 1 <=> n \in accepted
                          /\ MovesTo(wire[n], wire'[n], drop, add, tx_control[n])

Sendable == {n \in Node : tx_control[n] # None}

LEMMA OtherEnd == \A n \in Node : Other(n) \in Node /\ Other(Other(n)) = n /\ Other(n) # n
  BY DEF Node, Other, P, C

LEMMA WireMoves ==
  ASSUME TypeOK, WireInv, NEW arriving \in Arrivals, NEW accepted \in SUBSET Sendable,
         WireEdge(arriving, accepted), NEW n \in Node
  PROVE  wire'[n] \in Seq(Record(WordOf(n))) /\ MovesOn(n, arriving, accepted)
<1> DEFINE leaves == Other(n) \in arriving
           enters == n \in accepted
<1>1. wire'[n] = Aged(IF leaves THEN Tail(wire[n]) ELSE wire[n])
                 \o IF enters THEN <<[word |-> tx_control[n], age |-> 1]>> ELSE <<>>
  BY DEF WireEdge
<1>2. leaves => wire[n] # <<>>
  BY OtherEnd DEF Arrivals, Due
<1>3. enters => tx_control[n] \in WordOf(n)
  BY DEF Sendable, WireInv
<1>4. leaves \in BOOLEAN /\ enters \in BOOLEAN
  OBVIOUS
<1> HIDE DEF leaves, enters
<1>5. /\ wire'[n] \in Seq(Record(WordOf(n)))
      /\ \E drop, add \in 0..1 : /\ drop = 1 <=> leaves
                                 /\ add = 1 <=> enters
                                 /\ MovesTo(wire[n], wire'[n], drop, add, tx_control[n])
  <2>1. wire[n] \in Seq(Record(WordOf(n)))
    BY DEF WireInv
  <2>2. QED
    BY <1>1, <1>2, <1>3, <1>4, <2>1, Moving, ZenonT(40)
<1>6. QED
  BY <1>5 DEF MovesOn, leaves, enters

LEMMA MovedOrdered ==
  ASSUME NEW W, NEW w \in Seq(Record(W)), NEW new \in Seq(Record(W)), Ordered(w),
         NEW drop \in 0..1, NEW add \in 0..1, NEW x, MovesTo(w, new, drop, add, x),
         drop = 0 /\ w # <<>> => w[1].age < MaxDelay
  PROVE  Ordered(new)
<1> DEFINE kept == Len(w) - drop
<1>1. /\ kept \in Nat /\ Len(w) \in Nat /\ Len(new) = kept + add
      /\ \A i \in 1..kept : i + drop \in 1..Len(w) /\ new[i].age = w[i + drop].age + 1
      /\ add = 1 => new[kept + 1].age = 1
  BY LenProperties DEF MovesTo
<1>2. \A i \in 1..kept : w[i + drop].age \in 1..MaxDelay /\ w[i + drop].age > kept - i
  BY <1>1 DEF Ordered
<1>3. ASSUME NEW i \in 1..kept PROVE w[i + drop].age < MaxDelay
  <2>1. 1 \in 1..Len(w) /\ w # <<>>
    BY <1>1, EmptySeq
  <2>2. i + drop # 1 => w[1].age > w[i + drop].age
    BY <1>1, <2>1 DEF Ordered
  <2>3. i + drop = 1 => drop = 0
    BY <1>1
  <2>4. w[1].age \in 1..MaxDelay
    BY <2>1 DEF Ordered
  <2>5. QED
    BY <1>2, <2>1, <2>2, <2>3, <2>4, DelayAssumption
<1>4. ASSUME NEW i \in 1..kept
      PROVE  new[i].age \in 2..MaxDelay /\ new[i].age > kept + 1 - i
  <2>1. /\ new[i].age = w[i + drop].age + 1 /\ w[i + drop].age \in 1..MaxDelay
        /\ w[i + drop].age > kept - i /\ w[i + drop].age < MaxDelay /\ kept \in Nat
    BY <1>1, <1>2, <1>3
  <2> HIDE DEF kept
  <2>2. QED
    BY <2>1, DelayAssumption
<1>5. \A i, j \in 1..kept : i < j => new[i].age > new[j].age
  <2> SUFFICES ASSUME NEW i \in 1..kept, NEW j \in 1..kept, i < j
               PROVE  new[i].age > new[j].age
    OBVIOUS
  <2>1. i + drop \in 1..Len(w) /\ j + drop \in 1..Len(w) /\ i + drop < j + drop
    BY <1>1
  <2>2. w[i + drop].age > w[j + drop].age
    BY <2>1 DEF Ordered
  <2>3. PICK a \in 1..MaxDelay, b \in 1..MaxDelay :
          a = w[i + drop].age /\ b = w[j + drop].age
    BY <1>2
  <2>4. new[i].age = a + 1 /\ new[j].age = b + 1 /\ a > b
    BY <1>1, <2>2, <2>3
  <2> HIDE DEF kept
  <2>5. a + 1 > b + 1
    BY <2>4, DelayAssumption
  <2>6. QED
    BY <2>4, <2>5
<1> HIDE DEF kept
<1>6. \A i \in 1..Len(new) : i \in 1..kept \/ (add = 1 /\ i = kept + 1)
  BY <1>1
<1>7. \A i \in 1..Len(new) : new[i].age \in 1..MaxDelay /\ new[i].age > Len(new) - i
  <2> SUFFICES ASSUME NEW i \in 1..Len(new)
               PROVE  new[i].age \in 1..MaxDelay /\ new[i].age > Len(new) - i
    OBVIOUS
  <2>1. CASE i \in 1..kept
    <3>1. new[i].age \in 2..MaxDelay /\ new[i].age > kept + 1 - i
      BY <1>4, <2>1
    <3>2. kept \in Nat /\ Len(new) = kept + add
      BY <1>1
    <3>3. PICK a \in 2..MaxDelay : a = new[i].age /\ a > kept + 1 - i
      BY <3>1
    <3>4. a \in 1..MaxDelay /\ a > (kept + add) - i
      BY <2>1, <3>2, <3>3, DelayAssumption
    <3>5. QED
      BY <3>2, <3>3, <3>4
  <2>2. CASE add = 1 /\ i = kept + 1
    BY <1>1, <2>2, DelayAssumption
  <2>3. QED
    BY <1>6, <2>1, <2>2
<1>8. \A i, j \in 1..Len(new) : i < j => new[i].age > new[j].age
  <2> SUFFICES ASSUME NEW i \in 1..Len(new), NEW j \in 1..Len(new), i < j
               PROVE  new[i].age > new[j].age
    OBVIOUS
  <2>1. i \in 1..kept
    BY <1>1, <1>6
  <2>2. CASE j \in 1..kept
    BY <1>5, <2>1, <2>2
  <2>3. CASE add = 1 /\ j = kept + 1
    BY <1>1, <1>4, <2>1, <2>3
  <2>4. QED
    BY <1>6, <2>2, <2>3
<1>9. QED
  BY <1>7, <1>8 DEF Ordered

LEMMA AgesBounded ==
  ASSUME WireInv, NEW n \in Node
  PROVE  /\ Len(wire[n]) \in 0..MaxDelay
         /\ \A i \in Under(n) : Age(n, i) \in 1..MaxDelay /\ wire[n][i].word \in WordOf(n)
         /\ wire[n] = <<>> <=> Len(wire[n]) = 0
         /\ wire[n] # <<>> => 1 \in Under(n) /\ Head(wire[n]) = wire[n][1]
<1>1. wire[n] \in Seq(Record(WordOf(n))) /\ Ordered(wire[n])
  BY DEF WireInv
<1>2. /\ Len(wire[n]) \in Nat /\ \A i \in Under(n) : wire[n][i] \in Record(WordOf(n))
      /\ wire[n] # <<>> => Len(wire[n]) # 0
  BY <1>1, LenProperties, ElementOfSeq, EmptySeq DEF Under
<1>3. Len(wire[n]) <= MaxDelay
  <2>1. CASE Len(wire[n]) # 0
    <3>1. 1 \in 1..Len(wire[n])
      BY <1>2, <2>1
    <3>2. wire[n][1].age \in 1..MaxDelay /\ wire[n][1].age > Len(wire[n]) - 1
      BY <1>1, <3>1 DEF Ordered
    <3>3. QED
      BY <1>2, <3>2, DelayAssumption
  <2>2. QED
    BY <1>2, <2>1, DelayAssumption
<1>4. wire[n] # <<>> => 1 \in Under(n) /\ Head(wire[n]) = wire[n][1]
  BY <1>1, <1>2 DEF Under
<1>5. \A i \in Under(n) : Age(n, i) \in 1..MaxDelay /\ wire[n][i].word \in WordOf(n)
  BY <1>1, <1>2 DEF Ordered, Under, Age, Record
<1>6. QED
  BY <1>2, <1>3, <1>4, <1>5, DelayAssumption

\* The oldest record has to arrive when it is MaxDelay old.
LEMMA StillYoung ==
  ASSUME WireInv, NEW arriving \in Arrivals, NEW n \in Node,
         wire[n] # <<>>, Other(n) \notin arriving
  PROVE  wire[n][1].age < MaxDelay
<1>1. Head(wire[n]) = wire[n][1] /\ Age(n, 1) \in 1..MaxDelay
  BY AgesBounded
<1>2. ~Due(Other(n), MaxDelay)
  BY OtherEnd DEF Arrivals
<1>3. ~(wire[n][1].age >= MaxDelay)
  BY <1>1, <1>2, OtherEnd DEF Due
<1>4. QED
  BY <1>1, <1>3, DelayAssumption DEF Age

LEMMA StepWire ==
  ASSUME TypeOK, WireInv, NEW arriving \in Arrivals, NEW accepted \in SUBSET Sendable,
         WireEdge(arriving, accepted), NEW n \in Node
  PROVE  wire'[n] \in Seq(Record(WordOf(n))) /\ Ordered(wire'[n])
<1>1. wire'[n] \in Seq(Record(WordOf(n))) /\ MovesOn(n, arriving, accepted)
  BY WireMoves
<1>2. PICK drop \in 0..1, add \in 0..1 :
        /\ drop = 1 <=> Other(n) \in arriving
        /\ MovesTo(wire[n], wire'[n], drop, add, tx_control[n])
  BY <1>1 DEF MovesOn
<1>3. drop = 0 /\ wire[n] # <<>> => wire[n][1].age < MaxDelay
  BY <1>2, StillYoung
<1>4. wire[n] \in Seq(Record(WordOf(n))) /\ Ordered(wire[n])
  BY DEF WireInv
<1>5. QED
  BY <1>1, <1>2, <1>3, <1>4, MovedOrdered

-----------------------------------------------------------------------------
(* Types, the wire and the reset.                                          *)

Accepted == {n \in Node : tx_control[n] # None /\ tx_ready[n]}

LEMMA Ends == /\ P \in Node /\ C \in Node /\ P # C /\ Other(P) = C /\ Other(C) = P
              /\ \A n \in Node : n = P \/ n = C
  BY DEF Node, Other, P, C

LEMMA Constants ==
  /\ EpochModulus \in Nat \ {0} /\ SeqModulus \in Nat \ {0} /\ StartMargin \in Nat
  /\ MaxDelay \in Nat \ {0} /\ MinReset \in Nat /\ MinRelock \in Nat /\ MaxFalls \in Nat
  /\ ReadyStable \in Nat \ {0} /\ MaxDelay + 4 <= StartMargin /\ StartMargin < EpochModulus
  BY DelayAssumption, MarginAssumption, ResetAssumption, RelockAssumption

LEMMA OrderedShort ==
  ASSUME NEW W, NEW w \in Seq(Record(W)), Ordered(w)
  PROVE  Len(w) <= MaxDelay
<1>1. Len(w) \in Nat
  BY LenProperties
<1>2. CASE Len(w) # 0
  <2>1. 1 \in 1..Len(w)
    BY <1>1, <1>2
  <2>2. w[1].age \in 1..MaxDelay /\ w[1].age > Len(w) - 1
    BY <2>1 DEF Ordered
  <2>3. QED
    BY <1>1, <2>2, Constants
<1>3. QED
  BY <1>1, <1>2, Constants

LEMMA ArrivedWord ==
  ASSUME WireInv, NEW arriving \in Arrivals, NEW n \in arriving
  PROVE  /\ wire[Other(n)] # <<>> /\ 1 \in Under(Other(n))
         /\ Arrived(n) = wire[Other(n)][1].word /\ Arrived(n) \in WordOf(Other(n))
<1>1. n \in Node /\ wire[Other(n)] # <<>> /\ Other(n) \in Node
  BY OtherEnd DEF Arrivals, Due
<1>2. 1 \in Under(Other(n)) /\ Head(wire[Other(n)]) = wire[Other(n)][1]
  BY <1>1, AgesBounded
<1>3. wire[Other(n)][1].word \in WordOf(Other(n))
  BY <1>1, <1>2, AgesBounded
<1>4. QED
  BY <1>1, <1>2, <1>3 DEF Arrived

LEMMA FailingNat == Cardinality(Failing) \in Nat
<1>1. IsFiniteSet(Node)
  <2>1. IsFiniteSet({}) /\ IsFiniteSet({} \cup {P})
    BY FS_EmptySet, FS_AddElement
  <2>2. IsFiniteSet(({} \cup {P}) \cup {C})
    BY <2>1, FS_AddElement
  <2>3. Node = ({} \cup {P}) \cup {C}
    BY DEF Node
  <2>4. QED
    BY <2>2, <2>3
<1>2. Failing \subseteq Node
  BY DEF Failing
<1>3. IsFiniteSet(Failing)
  BY <1>1, <1>2, FS_Subset
<1>4. QED
  BY <1>3, FS_CardinalityType

LEMMA InputTypes ==
  ASSUME TypeOK, Inputs
  PROVE  /\ reset' \in BOOLEAN /\ reset_held' \in 0..MinReset
         /\ board_ready' \in [Node -> BOOLEAN] /\ link_ready' \in [Node -> BOOLEAN]
         /\ relock' \in [Node -> 0..MinRelock] /\ link_error' \in [Node -> BOOLEAN]
         /\ tx_ready' \in [Node -> BOOLEAN] /\ falls' \in 0..MaxFalls
         /\ \A n \in Node : tx_ready'[n] \/ (n \in DataEnd /\ released'[n])
<1>1. reset_held' \in 0..MinReset
  BY Constants DEF TypeOK, Inputs
<1>2. link_ready' \in [Node -> BOOLEAN] /\ link_error' \in [Node -> BOOLEAN]
  BY DEF Inputs, Both
<1>3. relock' \in [Node -> 0..MinRelock]
  BY Constants DEF Inputs, TypeOK
<1>4. falls' \in 0..MaxFalls
  <2>1. PICK a \in Nat : a = Cardinality(Failing)
    BY FailingNat
  <2>2. falls' = (IF reset THEN 0 ELSE falls + a) /\ falls' <= MaxFalls /\ falls \in Nat
    BY <2>1 DEF Inputs, TypeOK
  <2>3. QED
    BY <2>2, Constants
<1>5. QED
  BY <1>1, <1>2, <1>3, <1>4 DEF Inputs

LEMMA ResetWire ==
  ASSUME TypeOK, WireInv, ResetEdge
  PROVE  WireInv'
<1>1. PICK arriving \in Arrivals : WireEdge(arriving, {})
  BY DEF ResetEdge
<1>2. \A n \in Node : wire'[n] \in Seq(Record(WordOf(n))) /\ Ordered(wire'[n])
  BY <1>1, StepWire
<1>3. \A n \in Node : tx_control'[n] = None
  BY DEF ResetEdge, Both
<1>4. QED
  BY <1>2, <1>3 DEF WireInv, WordOf, StartWord, ReadyWord, Record, Ordered

LEMMA ResetType ==
  ASSUME TypeOK, WireInv, ResetEdge
  PROVE  TypeOK'
<1>1. \A n \in Node : Len(wire'[n]) <= MaxDelay
  BY ResetWire, OrderedShort DEF WireInv
<1>2. Inputs
  BY DEF ResetEdge
<1>3. /\ reset' \in BOOLEAN /\ reset_held' \in 0..MinReset
      /\ board_ready' \in [Node -> BOOLEAN] /\ link_ready' \in [Node -> BOOLEAN]
      /\ relock' \in [Node -> 0..MinRelock] /\ link_error' \in [Node -> BOOLEAN]
      /\ tx_ready' \in [Node -> BOOLEAN] /\ falls' \in 0..MaxFalls
  BY <1>2, InputTypes
<1>4. 0 \in 0..(EpochModulus - 1) /\ 0 \in 0..(SeqModulus - 1) /\ 0 \in 0..ReadyStable
      /\ 0 \in 0..(MaxDelay + 2)
  BY Constants
<1>5. /\ start_armed' \in [Node -> BOOLEAN] /\ released' \in [Node -> BOOLEAN]
      /\ target_epoch' \in [Node -> 0..(EpochModulus - 1)]
      /\ sticky_fault' \in [Node -> BOOLEAN]
      /\ next_tx_sequence' \in [Node -> 0..(SeqModulus - 1)]
      /\ expected_rx_sequence' \in [Node -> 0..(SeqModulus - 1)]
      /\ protocol_error' \in [Node -> BOOLEAN]
      /\ arbitration_error' \in [Node -> BOOLEAN]
  BY <1>4 DEF ResetEdge, Both
<1>6. QED
  BY <1>1, <1>3, <1>4, <1>5 DEF ResetEdge, TypeOK

LEMMA WordTyped ==
  ASSUME TypeOK, NEW n \in Node
  PROVE  /\ Word(n) \in WordOf(n) /\ Word(n) # None
         /\ (next_tx_sequence[n] + 1) % SeqModulus \in 0..(SeqModulus - 1)
<1>1. next_tx_sequence[n] \in 0..(SeqModulus - 1) /\ target_epoch[P] \in 0..(EpochModulus - 1)
  BY Ends DEF TypeOK
<1>2. subtree_ready(C) \in BOOLEAN
  BY DEF subtree_ready
<1>3. Word(n) \in WordOf(n)
  BY <1>1, <1>2 DEF Word, WordOf, StartWord, ReadyWord
<1>4. None \notin WordOf(n)
  BY NoneAssumption DEF WordOf, StartWord, ReadyWord
<1>5. QED
  BY <1>1, <1>3, <1>4, Constants

LEMMA FabricWire ==
  ASSUME TypeOK, WireInv, FabricEdge
  PROVE  WireInv'
<1>1. PICK arriving \in Arrivals : WireEdge(arriving, Accepted)
  BY DEF FabricEdge, Accepted
<1>2. Accepted \in SUBSET Sendable
  BY DEF Accepted, Sendable
<1>3. \A n \in Node : wire'[n] \in Seq(Record(WordOf(n))) /\ Ordered(wire'[n])
  BY <1>1, <1>2, StepWire
<1>4. ASSUME NEW n \in Node PROVE tx_control'[n] \in {None} \cup WordOf(n)
  <2>1. tx_control'[n] \in {None, Word(n), tx_control[n]}
    BY DEF FabricEdge, TransmitEdge
  <2>2. QED
    BY <2>1, WordTyped DEF WireInv
<1>5. QED
  BY <1>3, <1>4 DEF WireInv, WordOf, StartWord, ReadyWord, Record, Ordered

LEMMA FabricType ==
  ASSUME TypeOK, WireInv, FabricEdge
  PROVE  TypeOK'
<1>1. PICK arriving \in Arrivals, lost \in SUBSET Node : ReceiveEdge(arriving \ lost)
  BY DEF FabricEdge, Arrivals
<1>2. \A n \in Node : Len(wire'[n]) <= MaxDelay
  BY FabricWire, OrderedShort DEF WireInv
<1>3. /\ reset' \in BOOLEAN /\ reset_held' \in 0..MinReset
      /\ board_ready' \in [Node -> BOOLEAN] /\ link_ready' \in [Node -> BOOLEAN]
      /\ relock' \in [Node -> 0..MinRelock] /\ link_error' \in [Node -> BOOLEAN]
      /\ tx_ready' \in [Node -> BOOLEAN] /\ falls' \in 0..MaxFalls
  BY InputTypes DEF FabricEdge
<1>4. /\ epoch' \in 0..(EpochModulus - 1) /\ ready_stable_count' \in 0..ReadyStable
      /\ start_armed' \in [Node -> BOOLEAN] /\ released' \in [Node -> BOOLEAN]
      /\ target_epoch' \in [Node -> 0..(EpochModulus - 1)]
      /\ sticky_fault' \in [Node -> BOOLEAN]
  <2>1. epoch' \in 0..(EpochModulus - 1) /\ ready_stable_count' \in 0..ReadyStable
    BY Constants DEF FabricEdge, NodeEdge, NextReadyStableCount, TypeOK
  <2>2. \A n \in Node : Arms(n) => StartEpoch(n) \in 0..(EpochModulus - 1)
    <3>1. (epoch + StartMargin) % EpochModulus \in 0..(EpochModulus - 1)
      BY Constants DEF TypeOK
    <3>2. remote_start # None => remote_start \in 0..(EpochModulus - 1)
      BY DEF TypeOK
    <3>3. QED
      BY <3>1, <3>2, Ends DEF Arms, StartEpoch
  <2>3. target_epoch' \in [Node -> 0..(EpochModulus - 1)]
    BY <2>2 DEF FabricEdge, NodeEdge, TypeOK
  <2>4. /\ start_armed' \in [Node -> BOOLEAN] /\ released' \in [Node -> BOOLEAN]
        /\ sticky_fault' \in [Node -> BOOLEAN]
    BY DEF FabricEdge, NodeEdge, TypeOK
  <2>5. QED
    BY <2>1, <2>3, <2>4
<1>5. /\ next_tx_sequence' \in [Node -> 0..(SeqModulus - 1)]
      /\ last_ready_sent' \in {None, TRUE, FALSE} /\ start_sent' \in BOOLEAN
  <2>1. next_tx_sequence' \in [Node -> 0..(SeqModulus - 1)]
    BY WordTyped, Constants DEF FabricEdge, TransmitEdge, TypeOK
  <2>2. last_ready_sent' \in {None, TRUE, FALSE}
    BY DEF FabricEdge, TransmitEdge, TypeOK, subtree_ready
  <2>3. start_sent' \in BOOLEAN
    BY DEF FabricEdge, TransmitEdge
  <2>4. QED
    BY <2>1, <2>2, <2>3
<1>6. /\ remote_subtree_ready' \in BOOLEAN
      /\ remote_start' \in {None} \union 0..(EpochModulus - 1)
      /\ expected_rx_sequence' \in [Node -> 0..(SeqModulus - 1)]
      /\ protocol_error' \in [Node -> BOOLEAN]
  <2>1. \A n \in arriving : Arrived(n) \in WordOf(Other(n))
    BY ArrivedWord
  <2>2. \A n \in arriving : n \in Node
    BY DEF Arrivals
  <2>3. \A n \in arriving : Arrived(n).seq \in 0..(SeqModulus - 1)
    BY <2>1 DEF WordOf, StartWord, ReadyWord
  <2>4. P \in arriving => Arrived(P).value \in BOOLEAN
    BY <2>1, Ends DEF WordOf, ReadyWord
  <2>5. C \in arriving => Arrived(C).value \in 0..(EpochModulus - 1)
    BY <2>1, Ends DEF WordOf, StartWord
  <2>6. \A n \in arriving : (Arrived(n).seq + 1) % SeqModulus \in 0..(SeqModulus - 1)
    BY <2>3, Constants
  <2>7. expected_rx_sequence' \in [Node -> 0..(SeqModulus - 1)]
    BY <1>1, <2>6, Constants DEF ReceiveEdge, TypeOK
  <2>8. protocol_error' \in [Node -> BOOLEAN]
    BY <1>1 DEF ReceiveEdge
  <2>9. remote_subtree_ready' \in BOOLEAN
    BY <1>1 DEF ReceiveEdge
  <2>10. remote_start' \in {None} \union 0..(EpochModulus - 1)
    BY <1>1, <2>5 DEF ReceiveEdge
  <2>11. QED
    BY <2>7, <2>8, <2>9, <2>10
<1>7. arbitration_error' \in [Node -> BOOLEAN]
  BY DEF FabricEdge, MuxEdge
<1>8. disturbed' \in BOOLEAN /\ in_step' \in BOOLEAN /\ unready' \in 0..(MaxDelay + 2)
  BY Constants DEF FabricEdge, HistoryEdge, TypeOK
<1>9. QED
  BY <1>2, <1>3, <1>4, <1>5, <1>6, <1>7, <1>8 DEF TypeOK

\* A record that is under way after an edge was there before, or was accepted.
LEMMA Origin ==
  ASSUME TypeOK, WireInv, NEW arriving \in Arrivals, NEW accepted \in SUBSET Sendable,
         WireEdge(arriving, accepted), NEW n \in Node, NEW i \in 1..Len(wire'[n])
  PROVE  \/ \E j \in Under(n) : /\ wire'[n][i].word = wire[n][j].word
                                /\ wire'[n][i].age = Age(n, j) + 1
         \/ n \in accepted /\ wire'[n][i].word = tx_control[n] /\ wire'[n][i].age = 1
<1>1. wire'[n] \in Seq(Record(WordOf(n))) /\ MovesOn(n, arriving, accepted)
  BY WireMoves
<1>2. Len(wire'[n]) \in Nat /\ Len(wire[n]) \in Nat
  BY <1>1, LenProperties DEF WireInv
<1>3. PICK drop \in 0..1, add \in 0..1 :
        /\ add = 1 <=> n \in accepted
        /\ MovesTo(wire[n], wire'[n], drop, add, tx_control[n])
  BY <1>1 DEF MovesOn
<1>4. /\ drop <= Len(wire[n]) /\ Len(wire'[n]) = Len(wire[n]) - drop + add
      /\ \A k \in 1..(Len(wire[n]) - drop) :
           /\ wire'[n][k].word = wire[n][k + drop].word
           /\ wire'[n][k].age = wire[n][k + drop].age + 1
      /\ add = 1 => /\ wire'[n][Len(wire'[n])].word = tx_control[n]
                    /\ wire'[n][Len(wire'[n])].age = 1
  BY <1>3 DEF MovesTo
<1>5. i \in 1..(Len(wire[n]) - drop) \/ (add = 1 /\ i = Len(wire'[n]))
  BY <1>2, <1>4
<1>6. CASE i \in 1..(Len(wire[n]) - drop)
  <2>1. i + drop \in Under(n)
    BY <1>2, <1>4, <1>6 DEF Under
  <2>2. QED
    BY <1>4, <1>6, <2>1 DEF Age
<1>7. CASE add = 1 /\ i = Len(wire'[n])
  BY <1>3, <1>4, <1>7
<1>8. QED
  BY <1>5, <1>6, <1>7

LEMMA AgesNow ==
  ASSUME WireInv', NEW n \in Node, NEW i \in 1..Len(wire'[n])
  PROVE  wire'[n][i].age \in 1..MaxDelay
<1>1. Ordered(wire'[n])
  BY DEF WireInv
<1>2. QED
  BY <1>1 DEF Ordered

LEMMA ResetDrains ==
  ASSUME TypeOK, WireInv, DrainInv, ResetEdge
  PROVE  /\ DrainInv'
         /\ ~reset' => \A n \in Node : wire'[n] = <<>>
<1>1. PICK arriving \in Arrivals : WireEdge(arriving, {})
  BY DEF ResetEdge
<1>2. \A n \in Node : \A i \in 1..Len(wire'[n]) :
        \E j \in Under(n) : wire'[n][i].age = Age(n, j) + 1
  BY <1>1, Origin
<1>3. \A n \in Node : \A j \in Under(n) : Age(n, j) > reset_held /\ Age(n, j) \in 1..MaxDelay
  BY AgesBounded DEF DrainInv, ResetEdge
<1>4. reset_held' <= reset_held + 1 /\ reset_held \in Nat /\ reset_held' \in Nat
  BY Constants DEF ResetEdge, Inputs, TypeOK
<1>5. ASSUME NEW n \in Node, NEW i \in 1..Len(wire'[n])
      PROVE  wire'[n][i].age > reset_held'
  <2>1. PICK j \in Under(n) : wire'[n][i].age = Age(n, j) + 1
    BY <1>2
  <2>2. Age(n, j) > reset_held /\ Age(n, j) \in 1..MaxDelay
    BY <1>3
  <2>3. QED
    BY <1>4, <2>1, <2>2
<1>6. ASSUME ~reset', NEW n \in Node PROVE wire'[n] = <<>>
  <2>1. reset_held >= MaxDelay
    BY <1>6, ResetAssumption, Constants DEF ResetEdge, Inputs, TypeOK
  <2>2. Under(n) = {}
    BY <1>3, <1>4, <2>1, Constants
  <2>3. \A i \in 1..Len(wire'[n]) : FALSE
    BY <1>2, <2>2
  <2>4. wire'[n] \in Seq(Record(WordOf(n)))
    BY <1>1, StepWire
  <2>5. Len(wire'[n]) = 0
    BY <2>3, <2>4, LenProperties
  <2>6. QED
    BY <2>4, <2>5, EmptySeq
<1>7. QED
  BY <1>5, <1>6 DEF DrainInv, Under, Age

LEMMA FabricDrains ==
  ASSUME TypeOK, WireInv, FabricEdge
  PROVE  DrainInv'
<1>1. reset_held' = 0
  BY DEF FabricEdge, Inputs
<1>2. \A n \in Node : \A i \in 1..Len(wire'[n]) : wire'[n][i].age > 0
  BY FabricWire, AgesNow
<1>3. QED
  BY <1>1, <1>2 DEF DrainInv, Under, Age

-----------------------------------------------------------------------------
(* The child follows its root.                                             *)

LEMMA ResetStart ==
  ASSUME TypeOK, WireInv, DrainInv, ResetEdge
  PROVE  StartInv' /\ ChildFollows'
<1>1. ~reset' => \A i \in 1..Len(wire'[P]) : FALSE
  BY ResetDrains, Ends, EmptySeq
<1>2. \A n \in Node : tx_ready'[n] \/ (n \in DataEnd /\ released'[n])
  BY InputTypes DEF ResetEdge
<1>3. /\ \A n \in Node : ~released'[n] /\ ~start_armed'[n] /\ tx_control'[n] = None
      /\ ~start_sent' /\ remote_start' = None
  BY DEF ResetEdge, Both
<1>4. QED
  BY <1>1, <1>2, <1>3, Ends DEF StartInv, ChildFollows, Under

LEMMA FabricStart ==
  ASSUME TypeOK, WireInv, StartInv, FabricEdge
  PROVE  /\ StartInv'
         /\ start_armed[P] => target_epoch'[P] = target_epoch[P]
<1>1. PICK arriving \in Arrivals, lost \in SUBSET Node :
        ReceiveEdge(arriving \ lost) /\ WireEdge(arriving, Accepted)
  BY DEF FabricEdge, Accepted, Arrivals
<1>2. /\ start_armed[P] => start_armed'[P] /\ target_epoch'[P] = target_epoch[P]
      /\ \A n \in Node : start_armed[n] => start_armed'[n]
  BY Ends DEF FabricEdge, NodeEdge, Arms, RootArms
<1>3. \A n \in Node : released'[n] => start_armed'[n]
  BY <1>2 DEF FabricEdge, NodeEdge, Releases, StartInv
<1>4. start_sent' => start_armed'[P]
  BY <1>2 DEF FabricEdge, TransmitEdge
<1>5. tx_control'[P] # None => start_armed'[P] /\ tx_control'[P].value = target_epoch'[P]
  <2> SUFFICES ASSUME tx_control'[P] # None
               PROVE  start_armed'[P] /\ tx_control'[P].value = target_epoch'[P]
    OBVIOUS
  <2>1. \/ Loads(P) /\ tx_control'[P] = Word(P)
        \/ tx_control'[P] = tx_control[P]
    BY Ends DEF FabricEdge, TransmitEdge
  <2>2. CASE Loads(P) /\ tx_control'[P] = Word(P)
    <3>1. start_armed[P] /\ Word(P).value = target_epoch[P]
      BY <2>2 DEF Loads, Wants, WantsStart, Word
    <3>2. QED
      BY <1>2, <2>2, <3>1
  <2>3. CASE tx_control'[P] = tx_control[P]
    BY <1>2, <2>3 DEF StartInv
  <2>4. QED
    BY <2>1, <2>2, <2>3
<1>6. remote_start' # None => start_armed'[P] /\ remote_start' = target_epoch'[P]
  <2> SUFFICES ASSUME remote_start' # None
               PROVE  start_armed'[P] /\ remote_start' = target_epoch'[P]
    OBVIOUS
  <2>1. C \in arriving /\ remote_start' = Arrived(C).value
    BY <1>1 DEF ReceiveEdge
  <2>2. 1 \in Under(P) /\ Arrived(C) = wire[P][1].word
    BY <2>1, ArrivedWord, Ends
  <2>3. start_armed[P] /\ wire[P][1].word.value = target_epoch[P]
    BY <2>2 DEF StartInv, FabricEdge
  <2>4. QED
    BY <1>2, <2>1, <2>2, <2>3
<1>7. ASSUME NEW i \in 1..Len(wire'[P])
      PROVE  start_armed'[P] /\ wire'[P][i].word.value = target_epoch'[P]
  <2>1. \/ \E j \in Under(P) : wire'[P][i].word = wire[P][j].word
        \/ P \in Accepted /\ wire'[P][i].word = tx_control[P]
    <3>1. Accepted \in SUBSET Sendable
      BY DEF Accepted, Sendable
    <3>2. QED
      BY <1>1, <3>1, Origin, Ends
  <2>2. CASE \E j \in Under(P) : wire'[P][i].word = wire[P][j].word
    BY <1>2, <2>2 DEF StartInv, FabricEdge
  <2>3. CASE P \in Accepted /\ wire'[P][i].word = tx_control[P]
    BY <1>2, <2>3 DEF StartInv, Accepted
  <2>4. QED
    BY <2>1, <2>2, <2>3
<1>8. \A n \in Node : tx_ready'[n] \/ (n \in DataEnd /\ released'[n])
  BY InputTypes DEF FabricEdge
<1>9. QED
  BY <1>2, <1>3, <1>4, <1>5, <1>6, <1>7, <1>8 DEF StartInv, Under

LEMMA FabricFollows ==
  ASSUME TypeOK, WireInv, StartInv, ChildFollows, FabricEdge
  PROVE  ChildFollows'
<1>1. /\ \A n \in Node : released'[n] <=> released[n] \/ Releases(n)
      /\ \A n \in Node : start_armed'[n] <=> start_armed[n] \/ Arms(n)
      /\ \A n \in Node : target_epoch'[n] = IF Arms(n) THEN StartEpoch(n) ELSE target_epoch[n]
  BY DEF FabricEdge, NodeEdge, TypeOK
<1>2. released'[C] => released'[P]
  BY <1>1, Ends DEF ChildFollows, Releases
<1>3. CASE start_armed[C]
  <2>1. ~Arms(C) /\ ~Arms(P) /\ start_armed[P]
    BY <1>3, Ends DEF Arms, RootArms, ChildFollows
  <2>2. QED
    BY <1>1, <1>2, <2>1, Ends DEF ChildFollows
<1>4. CASE ~start_armed[C] /\ Arms(C)
  <2>1. remote_start # None /\ start_armed[P] /\ remote_start = target_epoch[P]
    BY <1>4, Ends DEF Arms, StartInv
  <2>2. ~Arms(P) /\ StartEpoch(C) = remote_start
    BY <2>1, Ends DEF Arms, RootArms, StartEpoch
  <2>3. QED
    BY <1>1, <1>2, <1>4, <2>1, <2>2, Ends DEF ChildFollows
<1>5. CASE ~start_armed[C] /\ ~Arms(C)
  BY <1>1, <1>2, <1>5, Ends DEF ChildFollows
<1>6. QED
  BY <1>3, <1>4, <1>5

-----------------------------------------------------------------------------
(* READY that is no longer true.                                           *)

LEMMA ResetReady ==
  ASSUME TypeOK, ResetEdge
  PROVE  LastIsFalse' /\ UnreadyInv' /\ StaleReadyBounded'
<1>1. last_ready_sent' # FALSE /\ unready' = 0 /\ ~remote_subtree_ready'
  BY NoneAssumption DEF ResetEdge
<1>2. LastIsFalse' /\ StaleReadyBounded'
  BY <1>1, Ends, Zenon DEF LastIsFalse, StaleReadyBounded, subtree_ready
<1>3. ~(unready' >= 1) /\ ~(unready' >= 2)
  BY <1>1
<1>4. QED
  BY <1>2, <1>3, Zenon DEF UnreadyInv

\* A root learns what READY(0) says, or has the error that its loss left.
LEMMA Known ==
  ASSUME FabricEdge, NEW arriving \in Arrivals, NEW lost \in SUBSET Node,
         Dropped(lost), ReceiveEdge(arriving \ lost),
         IF P \in arriving THEN Arrived(P).value = FALSE
         ELSE ~remote_subtree_ready \/ link_error[P]
  PROVE  ~remote_subtree_ready' \/ link_error'[P]
<1>1. link_error[P] => link_error'[P]
  BY Ends DEF FabricEdge, Inputs
<1>2. CASE P \in lost
  BY <1>2 DEF Dropped
<1>3. CASE P \in arriving \ lost
  BY <1>3 DEF ReceiveEdge
<1>4. CASE P \notin arriving
  BY <1>1, <1>4 DEF ReceiveEdge
<1>5. QED
  BY <1>2, <1>3, <1>4

LEMMA FabricLast ==
  ASSUME TypeOK, WireInv, LastIsFalse, FabricEdge
  PROVE  LastIsFalse'
<1> SUFFICES ASSUME last_ready_sent' = FALSE
             PROVE  /\ tx_control'[C] # None => tx_control'[C].value = FALSE
                    /\ tx_control'[C] = None /\ wire'[C] # <<>> =>
                         wire'[C][Len(wire'[C])].word.value = FALSE
                    /\ tx_control'[C] = None /\ wire'[C] = <<>> =>
                         ~remote_subtree_ready' \/ link_error'[P]
  BY DEF LastIsFalse
<1>0. PICK arriving \in Arrivals, lost \in SUBSET Node :
        /\ Dropped(lost) /\ ReceiveEdge(arriving \ lost)
        /\ WireEdge(arriving, Accepted)
  BY DEF FabricEdge, Accepted, Arrivals
<1>1. ~Down(C)
  BY NoneAssumption DEF FabricEdge, TransmitEdge
<1>2. tx_control'[C] = IF Loads(C) THEN Word(C) ELSE IF tx_ready[C] THEN None ELSE tx_control[C]
  BY <1>1, Ends DEF FabricEdge, TransmitEdge
<1>3. CASE Loads(C)
  <2>1. subtree_ready(C) = FALSE
    BY <1>1, <1>3 DEF FabricEdge, TransmitEdge
  <2>2. tx_control'[C].value = FALSE /\ tx_control'[C] # None
    BY <1>2, <1>3, <2>1, WordTyped, Ends DEF Word
  <2>3. QED
    BY <2>2
<1>4. CASE ~Loads(C)
  <2>1. last_ready_sent = FALSE
    BY <1>1, <1>4 DEF FabricEdge, TransmitEdge
  <2>2. tx_control'[C] # None => tx_control'[C].value = FALSE
    BY <1>2, <1>4, <2>1 DEF LastIsFalse
  <2> SUFFICES ASSUME tx_control'[C] = None
               PROVE  /\ wire'[C] # <<>> => wire'[C][Len(wire'[C])].word.value = FALSE
                      /\ wire'[C] = <<>> => ~remote_subtree_ready' \/ link_error'[P]
    BY <2>2
  <2>3. C \in Accepted <=> tx_control[C] # None
    BY <1>2, <1>4, Ends DEF Accepted
  <2>4. Accepted \in SUBSET Sendable
    BY DEF Accepted, Sendable
  <2>5. wire'[C] \in Seq(Record(WordOf(C))) /\ MovesOn(C, arriving, Accepted)
    BY <1>0, <2>4, WireMoves, Ends
  <2>6. PICK drop \in 0..1, add \in 0..1 :
          /\ drop = 1 <=> P \in arriving
          /\ add = 1 <=> C \in Accepted
          /\ MovesTo(wire[C], wire'[C], drop, add, tx_control[C])
    BY <2>5, Ends DEF MovesOn
  <2>7. /\ Len(wire[C]) \in Nat /\ Len(wire'[C]) \in Nat
        /\ wire[C] = <<>> <=> Len(wire[C]) = 0
        /\ wire'[C] = <<>> <=> Len(wire'[C]) = 0
    BY <2>5, LenProperties, EmptySeq, Ends DEF WireInv
  <2>8. /\ drop <= Len(wire[C]) /\ Len(wire'[C]) = Len(wire[C]) - drop + add
        /\ \A k \in 1..(Len(wire[C]) - drop) : wire'[C][k].word = wire[C][k + drop].word
        /\ add = 1 => wire'[C][Len(wire'[C])].word = tx_control[C]
    BY <2>6 DEF MovesTo
  <2>9. CASE add = 1
    <3>1. tx_control[C].value = FALSE
      BY <2>1, <2>3, <2>6, <2>9 DEF LastIsFalse
    <3>2. wire'[C] # <<>>
      BY <2>7, <2>8, <2>9
    <3>3. QED
      BY <2>8, <2>9, <3>1, <3>2
  <2>10. CASE add = 0
    <3>1. tx_control[C] = None
      BY <2>3, <2>6, <2>10
    <3>2. ASSUME wire'[C] # <<>>
          PROVE  wire'[C][Len(wire'[C])].word.value = FALSE
      <4>1. Len(wire'[C]) \in 1..(Len(wire[C]) - drop) /\ Len(wire'[C]) + drop = Len(wire[C])
        BY <2>7, <2>8, <2>10, <3>2
      <4>2. wire'[C][Len(wire'[C])].word = wire[C][Len(wire[C])].word /\ wire[C] # <<>>
        BY <2>7, <2>8, <4>1
      <4>3. QED
        BY <2>1, <3>1, <4>2 DEF LastIsFalse
    <3>3. ASSUME wire'[C] = <<>>
          PROVE  ~remote_subtree_ready' \/ link_error'[P]
      <4>1. Len(wire[C]) = drop
        <5>1. Len(wire'[C]) = 0 /\ Len(wire[C]) \in Nat
          BY <2>7, <3>3
        <5>2. Len(wire'[C]) = Len(wire[C]) - drop + 0
          BY <2>8, <2>10
        <5> DEFINE now == Len(wire[C])
        <5>3. 0 = now - drop + 0 /\ now \in Nat
          BY <5>1, <5>2
        <5> HIDE DEF now
        <5>4. now = drop
          BY <5>3
        <5>5. QED
          BY <5>4 DEF now
      <4>2. CASE drop = 0
        <5>1. ~remote_subtree_ready \/ link_error[P]
          BY <2>1, <2>7, <3>1, <4>1, <4>2 DEF LastIsFalse
        <5>2. P \notin arriving
          BY <2>6, <4>2
        <5>3. QED
          BY <1>0, <5>1, <5>2, Known
      <4>3. CASE drop = 1
        <5>1. wire[C] # <<>> /\ Len(wire[C]) = 1
          BY <2>7, <4>1, <4>3
        <5>2. wire[C][1].word.value = FALSE
          BY <2>1, <3>1, <5>1 DEF LastIsFalse
        <5>3. P \in arriving
          BY <2>6, <4>3
        <5>4. Arrived(P) = wire[C][1].word
          BY <5>3, ArrivedWord, Ends
        <5>5. QED
          BY <1>0, <5>2, <5>3, <5>4, Known
      <4>4. QED
        BY <2>6, <4>2, <4>3
    <3>4. QED
      BY <3>2, <3>3
  <2>11. add = 0 \/ add = 1
    OBVIOUS
  <2>12. QED
    BY <2>9, <2>10, <2>11
<1>5. QED
  BY <1>3, <1>4

LEMMA FabricUnready ==
  ASSUME TypeOK, WireInv, UnreadyInv, FabricEdge
  PROVE  UnreadyInv'
<1>0. PICK arriving \in Arrivals : WireEdge(arriving, Accepted)
  BY DEF FabricEdge, Accepted
<1> SUFFICES ASSUME unready' >= 1
             PROVE  /\ last_ready_sent' = FALSE
                    /\ unready' >= 2 =>
                         /\ tx_control'[C] = None
                         /\ \A i \in 1..Len(wire'[C]) : wire'[C][i].age >= unready' - 1
  <2>0. TypeOK'
    BY FabricType
  <2>1. unready' \in Nat
    BY <2>0, Constants DEF TypeOK
  <2>2. unready' >= 2 => unready' >= 1
    BY <2>1
  <2>3. QED
    BY <2>2, Zenon DEF UnreadyInv, Under, Age
<1>1. ~subtree_ready(C) /\ ~Down(C) /\ tx_ready[C]
  BY DEF FabricEdge, HistoryEdge
<1>2. unready \in Nat /\ unready' \in Nat /\ unready' <= unready + 1
  BY <1>1, FabricType DEF FabricEdge, HistoryEdge, TypeOK
<1>3. last_ready_sent' = FALSE
  <2>1. CASE Loads(C)
    <3>1. last_ready_sent' = subtree_ready(C)
      BY <1>1, <2>1 DEF FabricEdge, TransmitEdge
    <3>2. QED
      BY <1>1, <3>1 DEF subtree_ready
  <2>2. CASE ~Loads(C)
    <3>1. ~WantsReady
      BY <1>1, <2>2, Ends DEF Loads, Wants, CanSend
    <3>2. last_ready_sent = subtree_ready(C)
      BY <3>1 DEF WantsReady
    <3>3. last_ready_sent' = last_ready_sent
      BY <1>1, <2>2 DEF FabricEdge, TransmitEdge
    <3>4. QED
      BY <1>1, <3>2, <3>3 DEF subtree_ready
  <2>3. QED
    BY <2>1, <2>2
<1>4. ASSUME unready' >= 2
      PROVE  /\ tx_control'[C] = None
             /\ \A i \in 1..Len(wire'[C]) : wire'[C][i].age >= unready' - 1
  <2>1. unready >= 1 /\ last_ready_sent = FALSE
    BY <1>2, <1>4 DEF UnreadyInv
  <2>2. ~Loads(C)
    <3>1. subtree_ready(C) = FALSE
      BY <1>1 DEF subtree_ready
    <3>2. ~WantsReady
      BY <2>1, <3>1, NoneAssumption DEF WantsReady
    <3>3. QED
      BY <3>2, Ends DEF Loads, Wants
  <2>3. tx_control'[C] = None
    BY <1>1, <2>2, Ends DEF FabricEdge, TransmitEdge
  <2>4. ASSUME NEW i \in 1..Len(wire'[C])
        PROVE  wire'[C][i].age >= unready' - 1
    <3>1. wire'[C][i].age \in 1..MaxDelay
      BY FabricWire, AgesNow, Ends
    <3>2. CASE unready = 1
      BY <1>2, <3>1, <3>2
    <3>3. CASE unready # 1
      <4>1. unready >= 2
        BY <1>2, <2>1, <3>3
      <4>2. C \notin Accepted
        BY <4>1 DEF UnreadyInv, Accepted
      <4>3. Accepted \in SUBSET Sendable
        BY DEF Accepted, Sendable
      <4>4. PICK j \in Under(C) : wire'[C][i].age = Age(C, j) + 1
        BY <1>0, <4>2, <4>3, Origin, Ends
      <4>5. Age(C, j) >= unready - 1 /\ Age(C, j) \in 1..MaxDelay
        BY <4>1, AgesBounded, Ends DEF UnreadyInv
      <4>6. QED
        BY <1>2, <4>4, <4>5
    <3>4. QED
      BY <3>2, <3>3
  <2>5. QED
    BY <2>3, <2>4
<1>5. QED
  BY <1>3, <1>4

LEMMA FabricStale ==
  ASSUME TypeOK, WireInv, LastIsFalse, UnreadyInv, FabricEdge
  PROVE  StaleReadyBounded'
<1> SUFFICES ASSUME unready' >= MaxDelay + 2
             PROVE  ~remote_subtree_ready' \/ link_error'[P]
  BY Ends DEF StaleReadyBounded, subtree_ready, local_ready, edge_error
<1>0. PICK arriving \in Arrivals, lost \in SUBSET Node :
        Dropped(lost) /\ ReceiveEdge(arriving \ lost)
  BY DEF FabricEdge, Arrivals
<1>1. unready \in Nat /\ unready >= MaxDelay + 1
  BY Constants DEF FabricEdge, HistoryEdge, TypeOK
<1>2. /\ last_ready_sent = FALSE /\ tx_control[C] = None
      /\ \A i \in Under(C) : Age(C, i) >= unready - 1
  BY <1>1, Constants DEF UnreadyInv
<1>3. CASE wire[C] = <<>>
  <2>1. ~remote_subtree_ready \/ link_error[P]
    BY <1>2, <1>3 DEF LastIsFalse
  <2>2. P \notin arriving
    BY <1>3, ArrivedWord, Ends
  <2>3. QED
    BY <1>0, <2>1, <2>2, Known
<1>4. CASE wire[C] # <<>>
  <2>1. /\ 1 \in Under(C) /\ Len(wire[C]) \in Nat
        /\ \A i \in Under(C) : Age(C, i) \in 1..MaxDelay
    BY <1>4, AgesBounded, Ends
  <2>2. \A i \in Under(C) : Age(C, i) = MaxDelay
    BY <1>1, <1>2, <2>1, Constants
  <2>3. Len(wire[C]) = 1
    <3>1. ASSUME Len(wire[C]) # 1 PROVE FALSE
      <4> DEFINE now == Len(wire[C])
      <4>1. now \in Nat /\ 1 \in 1..now /\ now # 1
        BY <2>1, <3>1 DEF Under
      <4> HIDE DEF now
      <4>2. 2 \in 1..now
        BY <4>1
      <4>3. 2 \in 1..Len(wire[C]) /\ 1 \in 1..Len(wire[C])
        BY <4>1, <4>2 DEF now
      <4>4. wire[C][1].age > wire[C][2].age
        BY <4>3, Ends DEF WireInv, Ordered
      <4>5. QED
        BY <2>2, <4>3, <4>4, Constants DEF Under, Age
    <3>2. QED
      BY <3>1
  <2>4. wire[C][1].word.value = FALSE
    BY <1>2, <1>4, <2>3 DEF LastIsFalse
  <2>5. P \in arriving
    <3>1. ASSUME P \notin arriving PROVE FALSE
      <4>1. wire[C][1].age < MaxDelay
        BY <1>4, <3>1, StillYoung, Ends
      <4>2. QED
        BY <2>1, <2>2, <4>1, Constants DEF Age
    <3>2. QED
      BY <3>1
  <2>6. Arrived(P) = wire[C][1].word
    BY <2>5, ArrivedWord, Ends
  <2>7. QED
    BY <1>0, <2>4, <2>5, <2>6, Known
<1>5. QED
  BY <1>3, <1>4

-----------------------------------------------------------------------------
(* The start window.                                                       *)

\* The target stays where it is while the epoch counts towards it, and is met
\* when no edge is left.
LEMMA Countdown ==
  ASSUME NEW e \in 0..(EpochModulus - 1), NEW k \in 0..(EpochModulus - 1)
  PROVE  /\ (e + 0) % EpochModulus = e
         /\ k # 0 => (e + k) % EpochModulus # e
         /\ k # 0 => (((e + 1) % EpochModulus) + (k - 1)) % EpochModulus
                       = (e + k) % EpochModulus
<1>0. EpochModulus \in Nat \ {0}
  BY Constants
<1>1. \A x \in 0..(2 * EpochModulus - 1) :
        x % EpochModulus = IF x < EpochModulus THEN x ELSE x - EpochModulus
  BY <1>0, RemainderOnce
<1>2. (e + 0) % EpochModulus = e
  BY <1>0, <1>1
<1>3. e + k \in 0..(2 * EpochModulus - 1) /\ e + 1 \in 0..(2 * EpochModulus - 1)
  BY <1>0
<1>4. (e + k) % EpochModulus = IF e + k < EpochModulus THEN e + k ELSE (e + k) - EpochModulus
  BY <1>1, <1>3, Zenon
<1>5. k # 0 => (e + k) % EpochModulus # e
  BY <1>0, <1>4
<1>6. ASSUME k # 0
      PROVE  (((e + 1) % EpochModulus) + (k - 1)) % EpochModulus = (e + k) % EpochModulus
  <2>1. CASE e + 1 < EpochModulus
    <3>1. (e + 1) % EpochModulus = e + 1
      BY <1>1, <1>3, <2>1
    <3>2. (e + 1) + (k - 1) = e + k
      OBVIOUS
    <3>3. QED
      BY <3>1, <3>2
  <2>2. CASE ~(e + 1 < EpochModulus)
    <3>1. e + 1 = EpochModulus
      BY <1>0, <2>2
    <3>2. (e + 1) % EpochModulus = (e + 1) - EpochModulus
      BY <1>1, <1>3, <2>2
    <3>3. (e + 1) % EpochModulus = 0
      BY <1>0, <3>1, <3>2
    <3>4. 0 + (k - 1) \in 0..(2 * EpochModulus - 1) /\ 0 + (k - 1) < EpochModulus
      BY <1>0, <1>6
    <3>5. (0 + (k - 1)) % EpochModulus = 0 + (k - 1)
      BY <1>1, <3>4
    <3>6. (e + k) % EpochModulus = 0 + (k - 1)
      BY <1>0, <1>4, <1>6, <3>1
    <3>7. QED
      BY <3>3, <3>5, <3>6
  <2>3. QED
    BY <2>1, <2>2
<1>7. QED
  BY <1>2, <1>5, <1>6

LEMMA StillReady ==
  ASSUME FabricEdge, ~disturbed', start_armed[P] \/ RootArms
  PROVE  Clean
  BY DEF FabricEdge, HistoryEdge, Clean

LEMMA CleanWhole == Clean => Whole
  BY DEF Clean, Whole, local_ready, edge_error

LEMMA InputsKeep ==
  ASSUME FabricEdge, NEW n \in Node
  PROVE  /\ link_error[n] => link_error'[n]
         /\ Locked(n) => Locked(n)'
  BY DEF FabricEdge, Inputs, Locked

LEMMA InWindow ==
  ASSUME TypeOK, WireInv, StartInv, ChildFollows, LockInv, FabricEdge, Whole, start_armed[P]
  PROVE  /\ ~Down(P) /\ ~Down(C)
         /\ start_armed'[P] /\ target_epoch'[P] = target_epoch[P]
         /\ start_armed'[C] <=> start_armed[C] \/ remote_start # None
         /\ start_sent => ~Loads(P) /\ start_sent'
         /\ tx_control'[P] = IF Loads(P) THEN Word(P)
                             ELSE IF tx_ready[P] THEN None ELSE tx_control[P]
<1>1. ~Down(P) /\ ~Down(C)
  BY Ends DEF Whole, LockInv, Locked, Down
<1>4. /\ start_armed'[P] /\ target_epoch'[P] = target_epoch[P]
      /\ start_armed'[C] <=> start_armed[C] \/ remote_start # None
  BY Ends DEF FabricEdge, NodeEdge, Arms, RootArms, TypeOK
<1>5. start_sent => ~Loads(P) /\ start_sent'
  BY <1>1, Ends DEF Loads, Wants, WantsStart, FabricEdge, TransmitEdge
<1>7. tx_control'[P] = IF Loads(P) THEN Word(P)
                       ELSE IF tx_ready[P] THEN None ELSE tx_control[P]
  BY <1>1, Ends DEF FabricEdge, TransmitEdge
<1>8. QED
  BY <1>1, <1>4, <1>5, <1>7

LEMMA ResetLock ==
  ASSUME TypeOK, WireInv, DrainInv, ResetEdge
  PROVE  LockInv'
<1>1. ~reset' => wire'[C] = <<>>
  BY ResetDrains, Ends
<1>2. ~start_armed'[P] /\ ~remote_subtree_ready' /\ tx_control'[C] = None
  BY Ends DEF ResetEdge, Both
<1>3. QED
  BY <1>1, <1>2 DEF LockInv

LEMMA FabricLock ==
  ASSUME TypeOK, WireInv, LockInv, FabricEdge
  PROVE  LockInv'
<1>1. PICK arriving \in Arrivals, lost \in SUBSET Node :
        ReceiveEdge(arriving \ lost) /\ WireEdge(arriving, Accepted)
  BY DEF FabricEdge, Accepted, Arrivals
<1>2. \A n \in Node : Locked(n) => Locked(n)'
  BY InputsKeep
<1>3. ~Down(C) => Locked(C)
  BY DEF Down, Locked
<1>4. /\ remote_subtree_ready => Locked(C)
      /\ tx_control[C] # None => Locked(C)
      /\ wire[C] # <<>> => Locked(C)
  BY DEF LockInv, FabricEdge
<1>5. start_armed'[P] => \A n \in Node : Locked(n)'
  <2>1. CASE start_armed[P]
    BY <1>2, <2>1 DEF LockInv
  <2>2. CASE ~start_armed[P] /\ start_armed'[P]
    <3>1. subtree_ready(P)
      BY <2>2, Ends DEF FabricEdge, NodeEdge, Arms, RootArms
    <3>2. Locked(P) /\ remote_subtree_ready
      BY <3>1 DEF subtree_ready, local_ready, Locked
    <3>3. QED
      BY <1>2, <1>4, <3>2, Ends
  <2>3. QED
    BY <2>1, <2>2
<1>6. remote_subtree_ready' => Locked(C)'
  <2>1. remote_subtree_ready' => remote_subtree_ready \/ P \in arriving
    BY <1>1 DEF ReceiveEdge
  <2>2. P \in arriving => wire[C] # <<>>
    BY ArrivedWord, Ends
  <2>3. QED
    BY <1>2, <1>4, <2>1, <2>2, Ends
<1>7. tx_control'[C] # None => Locked(C)'
  <2>1. tx_control'[C] # None => ~Down(C)
    BY Ends DEF FabricEdge, TransmitEdge
  <2>2. QED
    BY <1>2, <1>3, <2>1, Ends
<1>8. wire'[C] # <<>> => Locked(C)'
  <2> SUFFICES ASSUME wire'[C] # <<>> PROVE Locked(C)'
    OBVIOUS
  <2>1. Accepted \in SUBSET Sendable
    BY DEF Accepted, Sendable
  <2>2. wire'[C] \in Seq(Record(WordOf(C)))
    BY <1>1, <2>1, WireMoves, Ends
  <2>3. 1 \in 1..Len(wire'[C])
    BY <2>2, LenProperties, EmptySeq
  <2>4. \/ \E j \in Under(C) : TRUE
        \/ C \in Accepted
    BY <1>1, <2>1, <2>3, Origin, Ends
  <2>5. wire[C] # <<>> \/ tx_control[C] # None
    <3>1. wire[C] = <<>> => \A j \in Under(C) : FALSE
      BY AgesBounded, Ends DEF Under
    <3>2. QED
      BY <2>4, <3>1 DEF Accepted
  <2>6. QED
    BY <1>2, <1>4, <2>5, Ends
<1>9. QED
  BY <1>5, <1>6, <1>7, <1>8 DEF LockInv

\* Before the start both ends wait; when no edge is left both are armed.
LEMMA CountedDown ==
  ASSUME TypeOK, WireInv, StartInv, ChildFollows, FabricEdge, start_armed[P],
         ~released[P], ~released[C], NEW k \in 0..(StartMargin - 1), OnItsWay(k)
  PROVE  /\ k = 0 => /\ released'[P] /\ released'[C] /\ in_step' /\ start_sent
                     /\ tx_control[P] = None
         /\ k # 0 => /\ ~released'[P] /\ ~released'[C]
                     /\ target_epoch[P] = (epoch' + (k - 1)) % EpochModulus
                     /\ k - 1 \in 0..(StartMargin - 1)
<1>1. /\ k \in 0..(EpochModulus - 1) /\ epoch \in 0..(EpochModulus - 1)
      /\ target_epoch[P] = (epoch + k) % EpochModulus
  BY Constants DEF TypeOK, OnItsWay, Left
<1>2. \A n \in Node : released'[n] <=> released[n] \/ Releases(n)
  BY DEF FabricEdge, NodeEdge, TypeOK
<1>3. CASE k = 0
  <2>1. epoch = target_epoch[P]
    BY <1>1, <1>3, Countdown
  <2>2. Armed(k)
    <3>1. ~Decided(k) /\ ~Sending(k) /\ ~Heard(k)
      BY <1>3, Constants DEF Decided, Sending, Heard
    <3>2. ~Travelling(k)
      <4>1. ASSUME Travelling(k) PROVE FALSE
        <5>1. 1 \in Under(P) /\ k = StartMargin - 2 - Age(P, 1)
          BY <4>1 DEF Travelling, Under
        <5>2. Age(P, 1) \in 1..MaxDelay
          BY <5>1, AgesBounded, Ends
        <5>3. QED
          BY <1>3, <5>1, <5>2, Constants
      <4>2. QED
        BY <4>1
    <3>3. QED
      BY <3>1, <3>2 DEF OnItsWay
  <2>3. start_armed[C] /\ target_epoch[C] = target_epoch[P] /\ start_sent /\ tx_control[P] = None
    BY <2>2 DEF Armed, ChildFollows
  <2>4. Releases(P) /\ Releases(C)
    BY <2>1, <2>3 DEF Releases
  <2>5. in_step'
    BY <2>4 DEF FabricEdge, HistoryEdge
  <2>6. QED
    BY <1>2, <1>3, <2>3, <2>4, <2>5, Ends
<1>4. CASE k # 0
  <2>1. target_epoch[P] # epoch
    BY <1>1, <1>4, Countdown
  <2>2. ~Releases(P) /\ ~Releases(C)
    BY <2>1 DEF Releases, ChildFollows
  <2>3. epoch' = (epoch + 1) % EpochModulus
    BY DEF FabricEdge, NodeEdge
  <2>4. target_epoch[P] = (epoch' + (k - 1)) % EpochModulus
    BY <1>1, <1>4, <2>3, Countdown
  <2>5. k - 1 \in 0..(StartMargin - 1)
    BY <1>4, Constants
  <2>6. QED
    BY <1>2, <1>4, <2>2, <2>4, <2>5, Ends
<1>5. QED
  BY <1>3, <1>4

LEMMA FabricRelease ==
  ASSUME TypeOK, WireInv, StartInv, ChildFollows, WindowInv, FabricEdge
  PROVE  ReleaseTogether'
<1> SUFFICES ASSUME ~disturbed' PROVE released'[P] <=> released'[C]
  BY DEF ReleaseTogether
<1>1. \A n \in Node : released'[n] <=> released[n] \/ Releases(n)
  BY DEF FabricEdge, NodeEdge, TypeOK
<1>2. CASE ~start_armed[P]
  <2>1. ~released[P] /\ ~released[C] /\ ~Releases(P) /\ ~Releases(C)
    BY <1>2, Ends DEF StartInv, ChildFollows, Releases
  <2>2. QED
    BY <1>1, <2>1, Ends
<1>3. CASE start_armed[P]
  <2>1. Whole
    BY <1>3, StillReady, CleanWhole
  <2>2. CASE Running
    BY <1>1, <2>2, Ends DEF Running
  <2>3. CASE ~Running
    <3>1. ~released[P] /\ ~released[C]
      BY <1>3, <2>1, <2>3 DEF WindowInv
    <3>2. PICK k \in 0..(StartMargin - 1) : OnItsWay(k)
      BY <1>3, <2>1, <2>3 DEF WindowInv
    <3>3. QED
      BY <1>3, <3>1, <3>2, CountedDown
  <2>4. QED
    BY <2>2, <2>3
<1>4. QED
  BY <1>2, <1>3

LEMMA FabricNoOverlap ==
  ASSUME TypeOK, WireInv, StartInv, ChildFollows, WindowInv, ReadyInv, NoOverlap, FabricEdge
  PROVE  NoOverlap'
<1> SUFFICES ASSUME NEW n \in Node, arbitration_error'[n], ~disturbed' PROVE FALSE
  BY DEF NoOverlap
<1>1. ~disturbed
  BY DEF FabricEdge, HistoryEdge
<1>2. tx_control[n] # None /\ released[n]
  BY <1>1 DEF FabricEdge, MuxEdge, NoOverlap, SendsData, global_ready
<1>3. start_armed[P]
  BY <1>2, Ends DEF StartInv, ChildFollows
<1>4. Clean
  BY <1>3, StillReady
<1>5. released[P] => tx_control[P] = None
  BY <1>3, <1>4, CleanWhole DEF WindowInv, Running
<1>6. released[C] => tx_control[C] = None
  BY <1>3, <1>4 DEF ReadyInv
<1>7. QED
  BY <1>2, <1>5, <1>6, Ends

LEMMA FabricReady ==
  ASSUME TypeOK, StartInv, ChildFollows, ReadyInv, FabricEdge
  PROVE  ReadyInv'
<1> SUFFICES ASSUME Clean', start_armed'[P]
             PROVE  last_ready_sent' = TRUE /\ (released'[C] => tx_control'[C] = None)
  BY DEF ReadyInv
<1>1. Clean
  <2>1. ~disturbed'
    BY DEF Clean
  <2>2. start_armed[P] \/ RootArms
    BY Ends DEF FabricEdge, NodeEdge, Arms
  <2>3. QED
    BY <2>1, <2>2, StillReady
<1>2. ~Down(C) /\ subtree_ready(C) = TRUE
  BY <1>1, Ends DEF Clean, local_ready, subtree_ready, Down
<1>3. CASE ~start_armed[P]
  <2>1. ~released[C] /\ ~start_armed[C]
    BY <1>3, Ends DEF StartInv, ChildFollows
  <2>2. ~released'[C]
    BY <2>1, Ends DEF FabricEdge, NodeEdge, Releases
  <2>3. CASE Loads(C)
    BY <1>2, <2>2, <2>3 DEF FabricEdge, TransmitEdge
  <2>4. CASE ~Loads(C)
    <3>1. tx_ready[C]
      BY <2>1, Ends DEF StartInv
    <3>2. ~WantsReady
      BY <1>2, <2>4, <3>1, Ends DEF Loads, Wants, CanSend
    <3>3. last_ready_sent = TRUE
      BY <1>2, <3>2 DEF WantsReady
    <3>4. QED
      BY <1>2, <2>2, <2>4, <3>3 DEF FabricEdge, TransmitEdge
  <2>5. QED
    BY <2>3, <2>4
<1>4. CASE start_armed[P]
  <2>1. last_ready_sent = TRUE /\ (released[C] => tx_control[C] = None)
    BY <1>1, <1>4 DEF ReadyInv
  <2>2. ~Loads(C)
    BY <1>2, <2>1, Ends, NoneAssumption DEF Loads, Wants, WantsReady
  <2>3. last_ready_sent' = TRUE
    BY <1>2, <2>1, <2>2 DEF FabricEdge, TransmitEdge
  <2>4. tx_control'[C] = IF tx_ready[C] THEN None ELSE tx_control[C]
    BY <1>2, <2>2, Ends DEF FabricEdge, TransmitEdge
  <2>5. tx_control'[C] = None
    BY <2>1, <2>4, Ends DEF StartInv
  <2>6. QED
    BY <2>3, <2>5
<1>5. QED
  BY <1>3, <1>4

LEMMA FabricWindow ==
  ASSUME TypeOK, WireInv, StartInv, ChildFollows, LockInv, WindowInv, FabricEdge
  PROVE  WindowInv'
<1> SUFFICES ASSUME Whole', start_armed'[P]
             PROVE  \/ Running'
                    \/ /\ ~released'[P] /\ ~released'[C]
                       /\ \E k \in 0..(StartMargin - 1) : OnItsWay(k)'
  BY DEF WindowInv
<1>1. PICK arriving \in Arrivals, lost \in SUBSET Node :
        /\ Dropped(lost) /\ ReceiveEdge(arriving \ lost)
        /\ WireEdge(arriving, Accepted)
  BY DEF FabricEdge, Accepted, Arrivals
<1>2. Whole
  BY InputsKeep DEF Whole
<1>4. PICK drop \in 0..1, add \in 0..1 :
        /\ drop = 1 <=> C \in arriving
        /\ add = 1 <=> P \in Accepted
        /\ MovesTo(wire[P], wire'[P], drop, add, tx_control[P])
  <2>1. Accepted \in SUBSET Sendable
    BY DEF Accepted, Sendable
  <2>2. MovesOn(P, arriving, Accepted)
    BY <1>1, <2>1, WireMoves, Ends
  <2>3. QED
    BY <2>2, Ends DEF MovesOn
<1>5. /\ drop <= Len(wire[P]) /\ Len(wire'[P]) = Len(wire[P]) - drop + add
      /\ \A i \in 1..(Len(wire[P]) - drop) : wire'[P][i].age = wire[P][i + drop].age + 1
      /\ add = 1 => wire'[P][Len(wire'[P])].age = 1
  BY <1>4 DEF MovesTo
<1>6. /\ Len(wire[P]) \in Nat /\ Len(wire'[P]) \in Nat
      /\ wire[P] = <<>> <=> Len(wire[P]) = 0
      /\ wire'[P] = <<>> <=> Len(wire'[P]) = 0
  <2>1. wire[P] \in Seq(Record(WordOf(P))) /\ wire'[P] \in Seq(Record(WordOf(P)))
    BY <1>1, WireMoves, Ends DEF WireInv, Accepted, Sendable
  <2>2. QED
    BY <2>1, LenProperties, EmptySeq
<1>7. P \in Accepted <=> tx_control[P] # None /\ tx_ready[P]
  BY Ends DEF Accepted
<1>8. ASSUME wire[P] = <<>>
      PROVE  /\ C \notin arriving /\ remote_start' = None
             /\ tx_control[P] = None => wire'[P] = <<>>
             /\ tx_control[P] # None /\ tx_ready[P] => Len(wire'[P]) = 1 /\ wire'[P][1].age = 1
  <2>1. C \notin arriving
    BY <1>8, ArrivedWord, Ends
  <2>2. remote_start' = None
    BY <1>1, <2>1 DEF ReceiveEdge
  <2>3. drop = 0 /\ Len(wire[P]) = 0
    BY <1>4, <1>6, <1>8, <2>1
  <2>4. Len(wire'[P]) = add
    BY <1>5, <2>3
  <2>5. tx_control[P] = None => wire'[P] = <<>>
    BY <1>4, <1>6, <1>7, <2>4
  <2>6. tx_control[P] # None /\ tx_ready[P] => Len(wire'[P]) = 1 /\ wire'[P][1].age = 1
    BY <1>4, <1>5, <1>7, <2>4
  <2>7. QED
    BY <2>1, <2>2, <2>5, <2>6
<1>9. CASE ~start_armed[P]
  <2>1. RootArms
    BY <1>9, Ends DEF FabricEdge, NodeEdge, Arms
  <2>2. /\ ~released[P] /\ ~released[C] /\ ~start_armed[C] /\ ~start_sent
        /\ tx_control[P] = None /\ remote_start = None
    BY <1>9, Ends DEF StartInv, ChildFollows
  <2>3. wire[P] = <<>>
    <3>1. \A i \in Under(P) : FALSE
      BY <1>9 DEF StartInv, FabricEdge
    <3>2. QED
      BY <1>6, <3>1 DEF Under
  <2>4. ~Down(P)
    BY <2>1 DEF RootArms, subtree_ready, local_ready, Down
  <2>5. ~released'[P] /\ ~released'[C] /\ ~start_armed'[C]
    BY <1>9, <2>2, Ends DEF FabricEdge, NodeEdge, Releases, Arms
  <2>6. ~start_sent'
    BY <1>9 DEF FabricEdge, TransmitEdge
  <2>7. tx_control'[P] = None
    <3>1. ~Loads(P)
      BY <1>9, Ends DEF Loads, Wants, WantsStart
    <3>2. QED
      BY <2>4, <2>2, <3>1, Ends DEF FabricEdge, TransmitEdge
  <2>8. remote_start' = None /\ wire'[P] = <<>>
    BY <1>8, <2>2, <2>3
  <2>9. target_epoch'[P] = (epoch' + (StartMargin - 1)) % EpochModulus
    <3>1. target_epoch'[P] = (epoch + StartMargin) % EpochModulus
      BY <2>1, Ends DEF FabricEdge, NodeEdge, Arms, StartEpoch
    <3>2. epoch' = (epoch + 1) % EpochModulus
      BY DEF FabricEdge, NodeEdge
    <3>3. /\ StartMargin \in 0..(EpochModulus - 1) /\ StartMargin # 0
          /\ epoch \in 0..(EpochModulus - 1)
      BY Constants DEF TypeOK
    <3>4. (((epoch + 1) % EpochModulus) + (StartMargin - 1)) % EpochModulus
             = (epoch + StartMargin) % EpochModulus
      BY <3>3, Countdown
    <3>5. QED
      BY <3>1, <3>2, <3>4
  <2>10. StartMargin - 1 \in 0..(StartMargin - 1)
    BY Constants
  <2>11. OnItsWay(StartMargin - 1)'
    BY <2>5, <2>6, <2>7, <2>8, <2>9, <2>10 DEF OnItsWay, Left, Decided
  <2>12. QED
    BY <2>5, <2>10, <2>11
<1>10. CASE start_armed[P]
  <2>2. /\ ~Down(P) /\ ~Down(C)
        /\ start_armed'[P] /\ target_epoch'[P] = target_epoch[P]
        /\ start_armed'[C] <=> start_armed[C] \/ remote_start # None
        /\ start_sent => ~Loads(P) /\ start_sent'
        /\ tx_control'[P] = IF Loads(P) THEN Word(P)
                            ELSE IF tx_ready[P] THEN None ELSE tx_control[P]
    BY <1>2, <1>10, InWindow
  <2>3. ASSUME start_sent, tx_control[P] = None
        PROVE  start_sent' /\ tx_control'[P] = None
    BY <2>2, <2>3
  <2>5. CASE Running
    <3>1. released'[P] /\ released'[C] /\ in_step'
      BY <2>5, Ends DEF Running, FabricEdge, NodeEdge, HistoryEdge
    <3>2. Running'
      BY <2>3, <2>5, <3>1 DEF Running
    <3>3. QED
      BY <3>2
  <2>6. CASE ~Running
    <3>1. ~released[P] /\ ~released[C]
      BY <1>2, <1>10, <2>6 DEF WindowInv
    <3>2. PICK k \in 0..(StartMargin - 1) : OnItsWay(k)
      BY <1>2, <1>10, <2>6 DEF WindowInv
    <3>3. /\ k = 0 => /\ released'[P] /\ released'[C] /\ in_step' /\ start_sent
                      /\ tx_control[P] = None
          /\ k # 0 => /\ ~released'[P] /\ ~released'[C]
                      /\ target_epoch[P] = (epoch' + (k - 1)) % EpochModulus
                      /\ k - 1 \in 0..(StartMargin - 1)
      BY <1>10, <3>1, <3>2, CountedDown
    <3>4. CASE k = 0
      <4>1. Running'
        BY <2>3, <3>3, <3>4 DEF Running
      <4>2. QED
        BY <4>1
    <3>5. CASE k # 0
      <4>1. Left(k - 1)'
        BY <2>2, <3>3, <3>5 DEF Left
      <4>2. tx_ready[P]
        BY <3>1, Ends DEF StartInv
      <4>4. ASSUME Decided(k) PROVE Sending(k - 1)'
        <5>1. Loads(P)
          BY <2>2, <1>10, <4>4, Ends DEF Decided, Loads, Wants, WantsStart, CanSend
        <5>2. tx_control'[P] # None
          BY <2>2, <5>1, WordTyped, Ends
        <5>3. start_sent'
          BY <2>2, <1>10, <5>1 DEF FabricEdge, TransmitEdge
        <5>4. wire'[P] = <<>> /\ remote_start' = None /\ ~start_armed'[C]
          BY <1>8, <2>2, <4>4 DEF Decided
        <5>5. k - 1 = StartMargin - 2
          BY <4>4, Constants DEF Decided
        <5>6. QED
          BY <5>2, <5>3, <5>4, <5>5 DEF Sending
      <4>5. ASSUME Sending(k) PROVE Travelling(k - 1)'
        <5>1. start_sent' /\ tx_control'[P] = None
          BY <2>2, <4>2, <4>5 DEF Sending
        <5>2. /\ Len(wire'[P]) = 1 /\ wire'[P][1].age = 1
              /\ remote_start' = None /\ ~start_armed'[C]
          BY <1>8, <2>2, <4>2, <4>5 DEF Sending
        <5>3. k - 1 = StartMargin - 2 - wire'[P][1].age
          BY <4>5, <5>2, Constants DEF Sending
        <5>4. QED
          BY <5>1, <5>2, <5>3 DEF Travelling, Age
      <4>6. ASSUME Travelling(k) PROVE Travelling(k - 1)' \/ Heard(k - 1)'
        <5>1. start_sent' /\ tx_control'[P] = None /\ ~start_armed'[C]
          BY <2>2, <2>3, <4>6 DEF Travelling
        <5>2. Len(wire[P]) = 1 /\ k = StartMargin - 2 - wire[P][1].age
          BY <4>6 DEF Travelling, Age
        <5>3. wire[P][1].age \in 1..MaxDelay
          BY <5>2, AgesBounded, Ends DEF Age, Under
        <5>4. CASE C \in arriving
          <6>0. C \notin lost
            BY <1>1, Ends DEF Dropped, Whole
          <6>1. remote_start' = Arrived(C).value /\ Arrived(C) \in StartWord
            BY <1>1, <2>2, <5>4, <6>0, ArrivedWord, Ends DEF ReceiveEdge, WordOf
          <6>2. remote_start' # None
            BY <6>1, NoneAssumption DEF StartWord
          <6>3. k - 1 \in 1..(StartMargin - 4)
            BY <5>2, <5>3, Constants
          <6>4. QED
            BY <5>1, <6>2, <6>3 DEF Heard
        <5>5. CASE C \notin arriving
          <6>1. remote_start' = None
            BY <1>1, <5>5 DEF ReceiveEdge
          <6>2. add = 0 /\ drop = 0
            BY <1>4, <1>7, <4>6, <5>5 DEF Travelling
          <6>3. Len(wire'[P]) = 1 /\ wire'[P][1].age = wire[P][1].age + 1
            <7>1. 1 \in 1..(1 - 0) /\ 1 + 0 = 1 /\ 1 - 0 + 0 = 1
              OBVIOUS
            <7>2. QED
              BY <1>5, <5>2, <6>2, <7>1
          <6>4. k - 1 = StartMargin - 2 - wire'[P][1].age
            BY <5>2, <5>3, <6>3, Constants
          <6>5. QED
            BY <5>1, <6>1, <6>3, <6>4 DEF Travelling, Age
        <5>6. QED
          BY <5>4, <5>5
      <4>7. ASSUME Heard(k) \/ Armed(k) PROVE Armed(k - 1)'
        <5>1. start_sent' /\ tx_control'[P] = None /\ start_armed'[C]
          BY <2>2, <2>3, <4>7 DEF Heard, Armed
        <5>2. k - 1 \in 0..(StartMargin - 5)
          BY <3>5, <4>7, Constants DEF Heard, Armed
        <5>3. QED
          BY <5>1, <5>2 DEF Armed
      <4>8. OnItsWay(k - 1)'
        BY <3>2, <4>1, <4>4, <4>5, <4>6, <4>7 DEF OnItsWay
      <4>9. QED
        BY <3>3, <3>5, <4>8
    <3>6. QED
      BY <3>4, <3>5
  <2>7. QED
    BY <2>5, <2>6
<1>11. QED
  BY <1>9, <1>10

LEMMA ResetWindow ==
  ASSUME ResetEdge
  PROVE  WindowInv' /\ ReadyInv' /\ ReleaseTogether' /\ NoOverlap'
<1>1. \A n \in Node : ~start_armed'[n] /\ ~released'[n] /\ ~arbitration_error'[n]
  BY DEF ResetEdge, Both
<1>2. QED
  BY <1>1, Ends DEF WindowInv, ReadyInv, ReleaseTogether, NoOverlap

-----------------------------------------------------------------------------
(* Faults of the child.                                                    *)

\* READY(0) that is waiting or under way stays so until the root has it.
LEMMA UnreadyMoves ==
  ASSUME TypeOK, WireInv, FabricEdge, UnreadyUnderWay, ~Down(C),
         remote_subtree_ready', ~link_error'[P]
  PROVE  UnreadyUnderWay'
<1>1. PICK arriving \in Arrivals, lost \in SUBSET Node :
        /\ Dropped(lost) /\ ReceiveEdge(arriving \ lost)
        /\ WireEdge(arriving, Accepted)
  BY DEF FabricEdge, Accepted, Arrivals
<1>2. Accepted \in SUBSET Sendable
  BY DEF Accepted, Sendable
<1>3. PICK drop \in 0..1, add \in 0..1 :
        /\ drop = 1 <=> P \in arriving
        /\ add = 1 <=> C \in Accepted
        /\ MovesTo(wire[C], wire'[C], drop, add, tx_control[C])
  BY <1>1, <1>2, WireMoves, Ends DEF MovesOn
<1>4. wire'[C] \in Seq(Record(WordOf(C))) /\ wire[C] \in Seq(Record(WordOf(C)))
  BY <1>1, <1>2, WireMoves, Ends DEF WireInv
<1>5. /\ Len(wire[C]) \in Nat /\ Len(wire'[C]) \in Nat
      /\ DOMAIN wire[C] = 1..Len(wire[C]) /\ DOMAIN wire'[C] = 1..Len(wire'[C])
  BY <1>4, LenProperties
<1>6. /\ drop <= Len(wire[C]) /\ Len(wire'[C]) = Len(wire[C]) - drop + add
      /\ \A k \in 1..(Len(wire[C]) - drop) : wire'[C][k].word = wire[C][k + drop].word
      /\ add = 1 => wire'[C][Len(wire'[C])].word = tx_control[C]
  BY <1>3 DEF MovesTo
<1>7. CASE tx_control[C] # None /\ tx_control[C].value = FALSE
  <2>1. CASE tx_ready[C]
    <3>1. add = 1
      BY <1>3, <1>7, <2>1, Ends DEF Accepted
    <3>2. Len(wire'[C]) \in DOMAIN wire'[C]
      BY <1>5, <1>6, <3>1
    <3>3. QED
      BY <1>6, <1>7, <3>1, <3>2 DEF UnreadyUnderWay
  <2>2. CASE ~tx_ready[C]
    <3>1. ~Loads(C)
      BY <1>7, <2>2 DEF Loads, CanSend
    <3>2. tx_control'[C] = tx_control[C]
      BY <2>2, <3>1, Ends DEF FabricEdge, TransmitEdge
    <3>3. QED
      BY <1>7, <3>2 DEF UnreadyUnderWay
  <2>3. QED
    BY <2>1, <2>2
<1>8. CASE \E i \in DOMAIN wire[C] : wire[C][i].word.value = FALSE
  <2>1. PICK i \in 1..Len(wire[C]) : wire[C][i].word.value = FALSE
    BY <1>5, <1>8
  <2>2. i - drop # 0
    <3> SUFFICES ASSUME i = drop PROVE FALSE
      BY <2>1
    <3>1. drop = 1 /\ i = 1 /\ P \in arriving
      BY <1>3, <2>1
    <3>2. Arrived(P) = wire[C][1].word
      BY <3>1, ArrivedWord, Ends
    <3>3. Arrived(P).value = FALSE
      BY <2>1, <3>1, <3>2
    <3>4. QED
      BY <1>1, <3>1, <3>3, Known
  <2>3. i - drop \in 1..(Len(wire[C]) - drop) /\ (i - drop) + drop = i
    BY <1>5, <2>1, <2>2
  <2>4. i - drop \in DOMAIN wire'[C]
    BY <1>5, <1>6, <2>3
  <2>5. wire'[C][i - drop].word = wire[C][i].word
    BY <1>6, <2>3
  <2>6. QED
    BY <2>1, <2>4, <2>5 DEF UnreadyUnderWay
<1>9. QED
  BY <1>7, <1>8 DEF UnreadyUnderWay

\* What the child said last, if that was FALSE, is waiting or under way as
\* long as the root does not know.
LEMMA LastUnderWay ==
  ASSUME TypeOK, WireInv, LastIsFalse, last_ready_sent = FALSE,
         remote_subtree_ready, ~link_error[P]
  PROVE  UnreadyUnderWay
<1>1. wire[C] \in Seq(Record(WordOf(C)))
  BY Ends DEF WireInv
<1>2. wire[C] # <<>> => Len(wire[C]) \in DOMAIN wire[C]
  BY <1>1, LenProperties, EmptySeq
<1>3. QED
  BY <1>2 DEF LastIsFalse, UnreadyUnderWay

LEMMA FabricFault ==
  ASSUME TypeOK, WireInv, StartInv, ChildFollows, LockInv, LastIsFalse,
         sticky_fault[C] => released[C], FaultOnItsWay, FabricEdge
  PROVE  (sticky_fault[C] => released[C])' /\ FaultOnItsWay'
<1>1. sticky_fault'[C] => released[C] /\ (sticky_fault[C] \/ ~subtree_ready(C))
  BY Ends DEF FabricEdge, NodeEdge
<1>2. (sticky_fault[C] => released[C])'
  BY <1>1, Ends DEF FabricEdge, NodeEdge
<1> SUFFICES ASSUME sticky_fault'[C], ~sticky_fault'[P], subtree_ready(P)', ~edge_error(C)'
             PROVE  UnreadyUnderWay'
  BY <1>2 DEF FaultOnItsWay
<1>3. released[C] /\ released[P] /\ start_armed[P]
  BY <1>1, Ends DEF ChildFollows, StartInv
<1>4. /\ remote_subtree_ready' /\ ~link_error'[P] /\ ~link_error[P]
      /\ ~link_error'[C] /\ ~link_error[C]
  BY InputsKeep, Ends DEF subtree_ready, local_ready, edge_error
<1>5. ~sticky_fault[P] /\ subtree_ready(P)
  BY <1>3, Ends DEF FabricEdge, NodeEdge
<1>6. ~Down(C) /\ link_ready[C]
  BY <1>3, <1>4, Ends DEF LockInv, Locked, Down
<1>7. ~arbitration_error[C] /\ ~protocol_error[C] /\ ~(tx_control[C] # None /\ SendsData(C))
  <2>1. ~arbitration_error'[C] /\ ~protocol_error'[C]
    BY DEF edge_error
  <2>2. ~arbitration_error[C] /\ ~(tx_control[C] # None /\ SendsData(C))
    BY <2>1, Ends DEF FabricEdge, MuxEdge
  <2>3. ~protocol_error[C]
    BY <1>6, <2>1, Ends DEF FabricEdge, ReceiveEdge
  <2>4. QED
    BY <2>2, <2>3
<1>8. remote_subtree_ready
  BY <1>5 DEF subtree_ready
<1>9. CASE UnreadyUnderWay
  BY <1>4, <1>6, <1>9, UnreadyMoves
<1>10. CASE ~UnreadyUnderWay
  <2>1. ~sticky_fault[C]
    BY <1>4, <1>5, <1>7, <1>10 DEF FaultOnItsWay, edge_error
  <2>2. ~subtree_ready(C)
    BY <1>1, <2>1
  <2>3. last_ready_sent # FALSE
    BY <1>4, <1>8, <1>10, LastUnderWay
  <2>4. WantsReady
    BY <2>2, <2>3, NoneAssumption DEF WantsReady, TypeOK
  <2>5. CanSend(C)
    BY <1>3, <1>7, <2>1, Ends DEF CanSend, SendsData, global_ready, StartInv
  <2>6. Loads(C)
    BY <1>6, <2>4, <2>5, Ends DEF Loads, Wants
  <2>7. tx_control'[C] = Word(C)
    BY <1>6, <2>6, Ends DEF FabricEdge, TransmitEdge
  <2>8. Word(C).value = FALSE /\ Word(C) # None
    <3>1. Word(C).value = subtree_ready(C)
      BY Ends DEF Word
    <3>2. subtree_ready(C) \in BOOLEAN
      BY DEF subtree_ready, local_ready
    <3>3. QED
      BY <2>2, <3>1, <3>2, WordTyped, Ends
  <2>9. QED
    BY <2>7, <2>8 DEF UnreadyUnderWay
<1>11. QED
  BY <1>9, <1>10

-----------------------------------------------------------------------------
(* The theorems.                                                           *)

LEMMA InitIInv == Init => IInv
<1> SUFFICES ASSUME Init PROVE IInv
  OBVIOUS
<1>1. /\ \A n \in Node : /\ ~start_armed[n] /\ ~released[n] /\ tx_control[n] = None
                         /\ wire[n] = <<>> /\ tx_ready[n] /\ ~arbitration_error[n]
      /\ \A n \in Node : Len(wire[n]) = 0
  BY DEF Init, Both
<1>2. TypeOK
  <2>1. /\ 0 \in 0..(EpochModulus - 1) /\ 0 \in 0..(SeqModulus - 1) /\ 0 \in 0..ReadyStable
        /\ 0 \in 0..(MaxDelay + 2) /\ 0 \in 0..MaxFalls /\ MinReset \in 0..MinReset
        /\ 0 <= MaxDelay /\ MinRelock \in 0..MinRelock
    BY Constants
  <2>2. \A n \in Node : Len(wire[n]) <= MaxDelay
    BY <1>1, <2>1
  <2>3. QED
    BY <2>1, <2>2 DEF Init, TypeOK, Both
<1>3. WireInv /\ DrainInv
  <2>1. ASSUME NEW n \in Node PROVE wire[n] \in Seq(Record(WordOf(n))) /\ Under(n) = {}
    <3>1. wire[n] \in Seq(Record(WordOf(n)))
      BY <1>1, EmptySeq
    <3>2. 1..0 = {}
      OBVIOUS
    <3>3. QED
      BY <1>1, <3>1, <3>2 DEF Under
  <2>2. QED
    BY <1>1, <2>1 DEF WireInv, DrainInv, Ordered, Under
<1>4. StartInv /\ ChildFollows
  BY <1>1, Ends DEF Init, StartInv, ChildFollows, Under
<1>5. LockInv /\ WindowInv /\ ReadyInv /\ ReleaseTogether /\ NoOverlap
  BY <1>1, Ends DEF Init, LockInv, WindowInv, ReadyInv, ReleaseTogether, NoOverlap
<1>6. LastIsFalse /\ StaleReadyBounded
  BY NoneAssumption, Ends DEF Init, LastIsFalse, StaleReadyBounded, subtree_ready
<1>7. UnreadyInv
  <2>1. ~(unready >= 1) /\ ~(unready >= 2)
    BY DEF Init
  <2>2. QED
    BY <2>1, Zenon DEF UnreadyInv
<1>8. ~sticky_fault[C]
  BY Ends DEF Init, Both
<1>9. QED
  BY <1>2, <1>3, <1>4, <1>5, <1>6, <1>7, <1>8 DEF IInv, FaultOnItsWay

LEMMA StepIInv == IInv /\ [Next]_vars => IInv'
<1> SUFFICES ASSUME IInv, [Next]_vars PROVE IInv'
  OBVIOUS
<1> USE DEF IInv
<1>1. CASE ResetEdge
  <2>1. ~sticky_fault'[C]
    BY <1>1, Ends DEF ResetEdge, Both
  <2>2. QED
    BY <1>1, <2>1, ResetType, ResetWire, ResetDrains, ResetStart, ResetReady, ResetWindow,
       ResetLock DEF FaultOnItsWay
<1>2. CASE FabricEdge
  <2>1. TypeOK' /\ WireInv' /\ DrainInv'
    BY <1>2, FabricType, FabricWire, FabricDrains
  <2>2. StartInv' /\ ChildFollows'
    BY <1>2, FabricStart, FabricFollows
  <2>3. LockInv' /\ WindowInv' /\ ReadyInv' /\ ReleaseTogether' /\ NoOverlap'
    BY <1>2, FabricLock, FabricWindow, FabricReady, FabricRelease, FabricNoOverlap
  <2>4. LastIsFalse' /\ UnreadyInv' /\ StaleReadyBounded'
    BY <1>2, FabricLast, FabricUnready, FabricStale
  <2>5. (sticky_fault[C] => released[C])' /\ FaultOnItsWay'
    BY <1>2, FabricFault
  <2>6. QED
    BY <2>1, <2>2, <2>3, <2>4, <2>5
<1>3. CASE UNCHANGED vars
  <2>1. TypeOK' /\ WireInv' /\ DrainInv'
    BY <1>3 DEF vars, inputs, node, endpoint, history, TypeOK, WireInv, DrainInv, Under, Age,
                Ordered, WordOf, StartWord, ReadyWord, Record
  <2>2. StartInv' /\ ChildFollows'
    BY <1>3 DEF vars, inputs, node, endpoint, history, StartInv, ChildFollows, Under
  <2>3. LockInv' /\ WindowInv' /\ ReadyInv' /\ ReleaseTogether' /\ NoOverlap'
    BY <1>3 DEF vars, inputs, node, endpoint, history, LockInv, Locked, WindowInv, Whole,
                ReadyInv, ReleaseTogether, NoOverlap, Clean, local_ready, edge_error, Running, OnItsWay, Left, Decided, Sending,
                Travelling, Heard, Armed, Age
  <2>4. LastIsFalse' /\ UnreadyInv' /\ StaleReadyBounded'
    BY <1>3 DEF vars, inputs, node, endpoint, history, LastIsFalse, UnreadyInv,
                StaleReadyBounded, subtree_ready, local_ready, edge_error, Under, Age
  <2>5. (sticky_fault[C] => released[C])' /\ FaultOnItsWay'
    BY <1>3 DEF vars, inputs, node, endpoint, history, FaultOnItsWay, UnreadyUnderWay,
                subtree_ready, local_ready, edge_error
  <2>6. QED
    BY <2>1, <2>2, <2>3, <2>4, <2>5
<1>4. QED
  BY <1>1, <1>2, <1>3 DEF Next

LEMMA InvariantIInv == Spec => []IInv
  BY InitIInv, StepIInv, PTL DEF Spec

\* Every variable of the edge keeps its type, and the wire never holds more
\* records than the delay has cycles: the edge accepts one per cycle and the
\* oldest leaves in time.
THEOREM TypeCorrect == Spec => []TypeOK
<1>1. IInv => TypeOK
  BY DEF IInv
<1>2. QED
  BY <1>1, InvariantIInv, PTL

\* Whatever the links do and however often they fail, a child that is armed
\* has the epoch its root decided on, and never runs before its root.
THEOREM ChildFollowsRoot == Spec => []ChildFollows
<1>1. IInv => ChildFollows
  BY DEF IInv
<1>2. QED
  BY <1>1, InvariantIInv, PTL

\* If both ends stay ready from the root's decision on, one edge releases both
\* of them: a margin of MaxDelay + 4 is enough for the START word, for every
\* delay the link may choose.
THEOREM ReleasedTogether == Spec => []ReleaseTogether
<1>1. IInv => ReleaseTogether
  BY DEF IInv
<1>2. QED
  BY <1>1, InvariantIInv, PTL

\* As long as both ends stay ready no control record waits at a mux whose
\* node runs, so the mux reports no arbitration error.
THEOREM ControlBeforeData == Spec => []NoOverlap
<1>1. IInv => NoOverlap
  BY DEF IInv
<1>2. QED
  BY <1>1, InvariantIInv, PTL

\* A root does not count its subtree as ready MaxDelay + 2 cycles after the
\* child, with its end up and room to send, was not: READY is sent on change
\* only and any record may be dropped with the link up, but the receiver's
\* sticky error then takes the place of the word.
THEOREM StaleReadyCorrected == Spec => []StaleReadyBounded
<1>1. IInv => StaleReadyBounded
  BY DEF IInv
<1>2. QED
  BY <1>1, InvariantIInv, PTL

\* The fault of a child is at the root, on its way to it, or has left an error
\* at the child: READY is sent once and a loss of lock resets the endpoint that
\* should send it, but neither loses the fault, however often links fail.
THEOREM FaultIsReported == Spec => []FaultOnItsWay
<1>1. IInv => FaultOnItsWay
  BY DEF IInv
<1>2. QED
  BY <1>1, InvariantIInv, PTL

\* Once nothing is waiting or under way and both links are up, a root that runs
\* was released by the same edge as its child, for any number of failures at
\* both ends: a START that was dropped, or lost with the lock, has left an
\* error, and the READY(0) that the error brings about is not missed.
THEOREM StartedTogether == Spec => []RunsInStep
<1>1. IInv => RunsInStep
  <2> SUFFICES ASSUME IInv, Quiet, global_ready(P), subtree_ready(P) PROVE in_step
    BY DEF RunsInStep
  <2> USE DEF IInv
  <2>1. start_armed[P] /\ released[P]
    BY Ends DEF global_ready, StartInv
  <2>2. ~link_error[P] /\ remote_subtree_ready
    BY DEF subtree_ready, local_ready, edge_error
  <2>3. ~link_error[C]
    <3> SUFFICES ASSUME link_error[C] PROVE FALSE
      OBVIOUS
    <3>1. subtree_ready(C) = FALSE
      BY DEF subtree_ready, local_ready, edge_error
    <3>2. last_ready_sent = FALSE
      BY <3>1 DEF Quiet, WantsReady
    <3>3. tx_control[C] = None /\ wire[C] = <<>>
      BY Ends DEF Quiet
    <3>4. QED
      BY <2>2, <3>2, <3>3 DEF LastIsFalse
  <2>4. Whole
    BY <2>2, <2>3, Ends DEF Whole
  <2>5. QED
    BY <2>1, <2>4 DEF WindowInv, Running
<1>2. QED
  BY <1>1, InvariantIInv, PTL
=============================================================================
