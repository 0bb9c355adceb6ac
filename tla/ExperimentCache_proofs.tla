----------------------- MODULE ExperimentCache_proofs -----------------------
(***************************************************************************)
(* The experiment cache, for every set of keys, trees, validators and      *)
(* processes and any number of operations and collections: what is reused  *)
(* on the modes of its tree is what was sealed, a certificate is about the *)
(* payload that will be reused, and the collector breaks no checkpoint of  *)
(* a root plan that knows where its payload is.                            *)
(***************************************************************************)
EXTENDS ExperimentCache, TLAPS

ProcState == [at : Stages, op : {"run", "import"}, key : Key \cup {None},
              validator : Validator \cup {None}, from : Place \cup {None},
              content : Content, existing : Manifest \cup {None}]
Seen == [manifest : Manifest \cup {None}, certified : SUBSET Validator,
         output : [there : BOOLEAN, content : Content]]
GcState == [at : {"idle", "planned", "apply", "remove"},
            candidates : SUBSET [key : Key, digest : Seen],
            removing : Key \cup {None}, recorded : [Planned -> Place]]

\* What an operation carries in each stage.
Fits(r) ==
  /\ r.at # "idle" => r.key \in Key /\ r.validator \in Validator
  /\ r.at \in {"revalidate", "promote", "source", "object", "seal"}
       \/ (r.at = "look" /\ r.op = "import") => r.from \in Place
  /\ r.at = "promote" => r.existing \in Manifest
  /\ r.at = "lock" => r.op = "run"

CacheOK ==
  /\ object \subseteq Key
  /\ manifest \in [Key -> Manifest \cup {None}]
  /\ tree \in [Place -> Tree]
  /\ certified \in [Key -> SUBSET Validator]
  /\ \A k \in Key \ object : Empty(k)

ProcOK ==
  /\ lock \in [Key -> Proc \cup {None}]
  /\ proc \in [Proc -> ProcState]
  /\ \A q \in Proc : Fits(proc[q])

\* The collector removes what the plan it has read does not name.
GcOK ==
  /\ plan \in [Planned -> Place] /\ gc \in GcState
  /\ gc.at = "remove" => gc.removing \in Key \ RootKeys(gc.recorded)

\* The tree p is there with the content c; a collection has begun to remove
\* it and has left it writable.
Holds(p, c) == tree[p].there /\ tree[p].content = c
Tearing(p) == tree[p].there /\ tree[p].writable /\ tree[p].content = Torn

\* The manifest m of key k is true of its tree, unless the tree was disturbed
\* or is outside, where the digest decides.
Sound(k, m) ==
  /\ m.storage = "managed" => m.output_dir \in Key
  /\ m.storage = "external-validated" =>
       m.output_dir # k /\ (m.output_dir \in Key => m.digest # Torn)
  /\ \/ m.output_dir \in disturbed \cup Outside
     \/ Holds(m.output_dir, m.digest)
     \/ m.output_dir = k /\ Tearing(k)

ManifestInv == \A k \in Key : manifest[k] # None => Sound(k, manifest[k])

\* The manifest of key k is absent or as another process knows it, unless k
\* was published meanwhile.
StillThere(k, p) == k \in contested \/ Missing(k) \/ manifest[k].output_dir = p
StillHolds(k, p) == \/ k \in contested \/ Missing(k) \/ p \in disturbed \cup Key
                    \/ Holds(p, manifest[k].digest)
StillSealed(k, c) == k \in contested \/ Missing(k) \/ manifest[k].digest = c
Vouched(k, v) == \/ k \in contested \/ Missing(k)
                 \/ manifest[k].output_dir \in disturbed
                 \/ v \in manifest[k].digest.passes

CertificateInv == \A k \in Key : \A v \in certified[k] : Vouched(k, v)

\* What a process has established, and what the cache still owes to it.
Knows(q) ==
  LET r == proc[q] IN
  /\ r.at = "publish" => r.validator \in r.content.passes
  /\ r.at \in {"check", "certify"} => Vouched(r.key, r.validator)
  /\ r.at = "revalidate" => StillThere(r.key, r.from) /\ StillHolds(r.key, r.from)
  /\ r.at = "promote" =>
       /\ r.existing.output_dir = r.from /\ r.from \in Key
       /\ r.from \in disturbed \/ (Holds(r.from, r.existing.digest) /\ r.existing.digest # Torn)
       /\ StillThere(r.key, r.from) /\ StillSealed(r.key, r.existing.digest)
  /\ r.at \in {"object", "seal"} =>
       \/ r.from \in disturbed
       \/ tree[r.from].there /\ r.validator \in tree[r.from].content.passes

IInv == CacheOK /\ ProcOK /\ GcOK /\ ManifestInv /\ CertificateInv /\ \A q \in Proc : Knows(q)

-----------------------------------------------------------------------------
(* What one step may do to what others rely on.                            *)

\* The manifest of k still says the same of the same tree.
Same(k) ==
  /\ ~Missing(k)
  /\ manifest'[k].output_dir = manifest[k].output_dir
  /\ manifest'[k].digest = manifest[k].digest
Kept(k) == k \in contested' \/ manifest'[k] = None \/ Same(k)

Unspoilt(p) == p \in disturbed' \/ (tree'[p].there /\ tree'[p].content = tree[p].content)
TornOnly(k) ==
  \/ k \in disturbed' \/ manifest'[k] = None
  \/ /\ tree'[k].there
     /\ tree'[k].content = tree[k].content \/ Tearing(k)'
     /\ Tearing(k) => Tearing(k)'

TreesKept ==
  /\ disturbed \subseteq disturbed'
  /\ \A p \in Place : InUse(p) /\ tree[p].there => Unspoilt(p)
  /\ \A k \in Key : tree[k].there => TornOnly(k)

ManifestsKept ==
  /\ contested \subseteq contested'
  /\ \A k \in Key : \/ manifest'[k] \in {None, manifest[k]}
                    \/ Sound(k, manifest[k])'
  /\ \A k \in Key : Kept(k) \/ certified[k] = {}
  /\ \A q \in Proc : proc'[q] = proc[q] /\ proc[q].at # "idle" => Kept(proc[q].key)

CertificatesKept ==
  \A k \in Key : \A v \in certified'[k] : v \in certified[k] \/ Vouched(k, v)'

ActorKnows == \A q \in Proc : proc'[q] = proc[q] \/ Knows(q)'

Frame == TreesKept /\ ManifestsKept /\ CertificatesKept /\ ActorKnows

LEMMA FrameManifests ==
  ASSUME CacheOK, ManifestInv, TreesKept, ManifestsKept
  PROVE  ManifestInv'
<1> SUFFICES ASSUME NEW k \in Key, manifest'[k] # None PROVE Sound(k, manifest[k])'
  BY DEF ManifestInv
<1>1. CASE manifest'[k] \notin {None, manifest[k]}
  BY <1>1 DEF ManifestsKept
<1>2. CASE manifest'[k] \in {None, manifest[k]}
  <2> DEFINE m == manifest[k]
             o == m.output_dir
  <2>1. manifest'[k] = m /\ m # None /\ Sound(k, m)
    BY <1>2 DEF ManifestInv
  <2>2. m \in Manifest /\ o \in Place
    BY <2>1 DEF CacheOK, Manifest
  <2>3. \/ o \in disturbed' \cup Outside
        \/ tree'[o].there /\ tree'[o].content = m.digest
        \/ o = k /\ Tearing(k)'
    <3>1. CASE o \in disturbed \cup Outside
      BY <3>1 DEF TreesKept
    <3>2. o \in Outside \/ o \in Key
      BY <2>2 DEF Place
    <3>3. CASE Holds(o, m.digest) /\ o # k /\ o \in Key
      <4>1. InUse(o)
        BY <2>1, <3>3, <3>2 DEF InUse, Missing
      <4>2. Unspoilt(o)
        BY <2>2, <3>3, <4>1 DEF TreesKept, Holds
      <4>3. QED
        BY <3>3, <4>2 DEF Unspoilt, Holds
    <3>4. CASE Holds(o, m.digest) /\ o = k
      <4>1. TornOnly(k)
        BY <3>4 DEF TreesKept, Holds
      <4>2. QED
        BY <3>4, <4>1 DEF TornOnly, Holds
    <3>5. CASE o = k /\ Tearing(k)
      <4>1. TornOnly(k)
        BY <3>5 DEF TreesKept, Tearing
      <4>2. QED
        BY <3>5, <4>1 DEF TornOnly
    <3>6. QED
      BY <2>1, <3>1, <3>3, <3>4, <3>5, <3>2 DEF Sound
  <2>4. /\ m.storage = "managed" => o \in Key
        /\ m.storage = "external-validated" => o # k /\ (o \in Key => m.digest # Torn)
    BY <2>1 DEF Sound
  <2>5. QED
    BY <2>1, <2>3, <2>4 DEF Sound, Holds
<1>3. QED
  BY <1>1, <1>2

LEMMA FrameVouched ==
  ASSUME TreesKept, ManifestsKept, NEW k \in Key, NEW v, Vouched(k, v), Kept(k)
  PROVE  Vouched(k, v)'
<1>1. disturbed \subseteq disturbed' /\ contested \subseteq contested'
  BY DEF TreesKept, ManifestsKept
<1>2. CASE k \in contested' \/ manifest'[k] = None
  BY <1>2 DEF Vouched, Missing
<1>3. CASE Same(k)
  BY <1>1, <1>3 DEF Same, Vouched, Missing
<1>4. QED
  BY <1>2, <1>3 DEF Kept

LEMMA FrameCertificates ==
  ASSUME CertificateInv, TreesKept, ManifestsKept, CertificatesKept
  PROVE  CertificateInv'
<1> SUFFICES ASSUME NEW k \in Key, NEW v \in certified'[k] PROVE Vouched(k, v)'
  BY DEF CertificateInv
<1>1. CASE v \in certified[k]
  <2>1. Kept(k) /\ Vouched(k, v)
    BY <1>1 DEF ManifestsKept, CertificateInv
  <2>2. QED
    BY <2>1, FrameVouched
<1>2. CASE v \notin certified[k]
  BY <1>2 DEF CertificatesKept
<1>3. QED
  BY <1>1, <1>2

LEMMA FrameKnows ==
  ASSUME ProcOK, TreesKept, ManifestsKept, NEW q \in Proc, Knows(q), proc'[q] = proc[q]
  PROVE  Knows(q)'
<1>1. PICK r : r = proc[q]
  OBVIOUS
<1>2. proc'[q] = r
  BY <1>1
<1>3. CASE r.at = "idle"
  BY <1>2, <1>3 DEF Knows
<1>4. CASE r.at # "idle"
  <2>1. r.key \in Key /\ Kept(r.key)
    BY <1>1, <1>4 DEF ProcOK, Fits, ManifestsKept
  <2>2. disturbed \subseteq disturbed' /\ contested \subseteq contested'
    BY DEF TreesKept, ManifestsKept
  <2>3. r.at = "publish" => r.validator \in r.content.passes
    BY <1>1 DEF Knows
  <2>4. r.at \in {"check", "certify"} => Vouched(r.key, r.validator)'
    BY <1>1, <2>1, FrameVouched DEF Knows
  <2>5. StillThere(r.key, r.from) => StillThere(r.key, r.from)'
    BY <2>1, <2>2 DEF StillThere, Kept, Same, Missing
  <2>6. StillSealed(r.key, r.existing.digest) => StillSealed(r.key, r.existing.digest)'
    BY <2>1, <2>2 DEF StillSealed, Kept, Same, Missing
  <2>7. ASSUME r.at \in {"revalidate", "promote", "object", "seal"}, tree[r.from].there
        PROVE  \/ r.from \in disturbed'
               \/ tree'[r.from].there /\ tree'[r.from].content = tree[r.from].content
    <3>1. InUse(r.from)
      BY <1>1, <2>7 DEF InUse
    <3>2. r.from \in Place
      BY <1>1, <2>7 DEF ProcOK, Fits
    <3>3. QED
      BY <2>7, <3>1, <3>2 DEF TreesKept, Unspoilt
  <2>8. ASSUME r.at = "revalidate"
        PROVE  StillThere(r.key, r.from)' /\ StillHolds(r.key, r.from)'
    <3>1. StillThere(r.key, r.from) /\ StillHolds(r.key, r.from)
      BY <1>1, <2>8 DEF Knows
    <3>2. QED
      BY <2>1, <2>2, <2>5, <2>7, <2>8, <3>1 DEF StillHolds, Holds, Kept, Same, Missing
  <2>9. ASSUME r.at = "promote"
        PROVE  /\ r.existing.output_dir = r.from /\ r.from \in Key
               /\ \/ r.from \in disturbed'
                  \/ Holds(r.from, r.existing.digest)' /\ r.existing.digest # Torn
               /\ StillThere(r.key, r.from)' /\ StillSealed(r.key, r.existing.digest)'
    <3>1. /\ r.existing.output_dir = r.from /\ r.from \in Key
          /\ r.from \in disturbed \/ (Holds(r.from, r.existing.digest) /\ r.existing.digest # Torn)
          /\ StillThere(r.key, r.from) /\ StillSealed(r.key, r.existing.digest)
      BY <1>1, <2>9 DEF Knows
    <3>2. QED
      BY <2>2, <2>5, <2>6, <2>7, <2>9, <3>1 DEF Holds
  <2>10. ASSUME r.at \in {"object", "seal"}
         PROVE  \/ r.from \in disturbed'
                \/ tree'[r.from].there /\ r.validator \in tree'[r.from].content.passes
    <3>1. r.from \in disturbed \/ (tree[r.from].there /\ r.validator \in tree[r.from].content.passes)
      BY <1>1, <2>10 DEF Knows
    <3>2. QED
      BY <2>2, <2>7, <2>10, <3>1
  <2>11. QED
    BY <1>2, <2>3, <2>4, <2>8, <2>9, <2>10 DEF Knows
<1>5. QED
  BY <1>3, <1>4

LEMMA FrameKeeps ==
  ASSUME IInv, Frame
  PROVE  ManifestInv' /\ CertificateInv' /\ \A q \in Proc : Knows(q)'
<1>1. ManifestInv' /\ CertificateInv'
  BY FrameManifests, FrameCertificates DEF IInv, Frame
<1>2. ASSUME NEW q \in Proc PROVE Knows(q)'
  BY FrameKnows DEF IInv, Frame, ActorKnows
<1>3. QED
  BY <1>1, <1>2

\* A step that leaves the cache alone.
LEMMA QuietFrame ==
  ASSUME IInv, UNCHANGED <<cache, history>>, ActorKnows
  PROVE  Frame /\ CacheOK'
<1>1. UNCHANGED <<object, manifest, tree, certified, contested, disturbed>>
  BY DEF cache, history
<1>2. TreesKept
  BY <1>1 DEF TreesKept, Unspoilt, TornOnly, Tearing
<1>3. \A k \in Key : Kept(k)
  BY <1>1 DEF Kept, Same, Missing
<1>4. ManifestsKept
  <2>1. \A q \in Proc : proc[q].at # "idle" => proc[q].key \in Key
    BY DEF IInv, ProcOK, Fits
  <2>2. QED
    BY <1>1, <1>3, <2>1 DEF ManifestsKept
<1>5. CertificatesKept
  BY <1>1 DEF CertificatesKept
<1>6. CacheOK'
  BY <1>1 DEF IInv, CacheOK, Empty, Missing
<1>7. QED
  BY <1>2, <1>4, <1>5, <1>6 DEF Frame

-----------------------------------------------------------------------------
(* Types.                                                                  *)

LEMMA Values ==
  /\ Torn \in Content /\ Torn.passes = {} /\ NoTree \in Tree /\ ~NoTree.there
  /\ \A c \in Content : Immutable(c) \in Tree
  /\ Idle \in ProcState /\ Fits(Idle) /\ Idle.at = "idle"
  /\ GcIdle \in GcState /\ GcIdle.at = "idle"
  /\ Key \subseteq Place /\ Outside \subseteq Place /\ Planned \subseteq Key
<1>1. Torn \in Content /\ Torn.passes = {} /\ NoTree \in Tree /\ ~NoTree.there
  BY DEF Torn, Content, NoTree, Tree
<1>2. \A c \in Content : Immutable(c) \in Tree
  BY DEF Immutable, Tree
<1>3. Idle \in ProcState /\ Fits(Idle) /\ Idle.at = "idle"
  BY <1>1 DEF Idle, ProcState, Stages, Fits
<1>4. Key \subseteq Place /\ Outside \subseteq Place /\ Planned \subseteq Key
  BY CacheAssumption DEF Place
<1>5. GcIdle \in GcState /\ GcIdle.at = "idle"
  BY <1>4 DEF GcIdle, GcState
<1>6. QED
  BY <1>1, <1>2, <1>3, <1>4, <1>5

LEMMA TypesImply == CacheOK /\ ProcOK /\ GcOK => TypeOK
  BY DEF CacheOK, ProcOK, GcOK, TypeOK, ProcState, GcState

\* One process changes and the others do not.
LEMMA ActorTypes ==
  ASSUME ProcOK, NEW q \in Proc, NEW r \in ProcState, Fits(r), proc' = [proc EXCEPT ![q] = r],
         lock' \in [Key -> Proc \cup {None}]
  PROVE  ProcOK'
  BY DEF ProcOK

LEMMA LeavesTypes ==
  ASSUME ProcOK, NEW q \in Proc, Leaves(q)
  PROVE  ProcOK' /\ ActorKnows
<1>1. lock' \in [Key -> Proc \cup {None}]
  BY DEF ProcOK, Leaves, Unlocked
<1>2. proc' = [proc EXCEPT ![q] = Idle]
  BY DEF Leaves
<1>3. ProcOK'
  BY <1>1, <1>2, Values, ActorTypes
<1>4. proc'[q] = Idle /\ \A x \in Proc \ {q} : proc'[x] = proc[x]
  BY <1>2 DEF ProcOK
<1>5. Knows(q)'
  BY <1>4, Values DEF Knows
<1>6. QED
  BY <1>3, <1>4, <1>5 DEF ActorKnows

LEMMA GoesTypes ==
  ASSUME ProcOK, NEW q \in Proc, NEW stage \in Stages, Goes(q, stage),
         Fits([proc[q] EXCEPT !.at = stage])
  PROVE  /\ ProcOK'
         /\ proc'[q] = [proc[q] EXCEPT !.at = stage]
         /\ \A x \in Proc \ {q} : proc'[x] = proc[x]
<1> DEFINE r == [proc[q] EXCEPT !.at = stage]
<1>1. proc[q] \in ProcState
  BY DEF ProcOK
<1>2. r \in ProcState
  BY <1>1 DEF ProcState
<1>3. proc' = [proc EXCEPT ![q] = r]
  BY <1>1 DEF ProcOK, Goes
<1>4. proc'[q] = r /\ \A x \in Proc \ {q} : proc'[x] = proc[x]
  BY <1>3 DEF ProcOK
<1>5. ProcOK'
  BY <1>2, <1>3, ActorTypes DEF ProcOK, Goes
<1>6. QED
  BY <1>4, <1>5

-----------------------------------------------------------------------------
(* Steps of a process that leave the cache alone.                          *)

LEMMA QuietStep ==
  ASSUME IInv, KeepsCache, UNCHANGED <<plan, gc>>, ProcOK', ActorKnows
  PROVE  IInv'
<1>1. Frame /\ CacheOK'
  BY QuietFrame DEF KeepsCache
<1>2. GcOK'
  BY DEF IInv, GcOK, RootKeys
<1>3. QED
  BY <1>1, <1>2, FrameKeeps DEF IInv

LEMMA StepStartsRun ==
  ASSUME IInv, NEW q \in Proc, NEW k \in Key, NEW v \in Validator, StartsRun(q, k, v)
  PROVE  IInv'
<1> DEFINE r == [Idle EXCEPT !.at = "lock", !.key = k, !.validator = v]
<1>1. r \in ProcState /\ Fits(r) /\ r.at = "lock"
  BY Values DEF Idle, ProcState, Stages, Fits
<1>2. proc' = [proc EXCEPT ![q] = r] /\ UNCHANGED lock /\ ProcOK
  BY DEF StartsRun, IInv
<1> HIDE DEF r
<1>3. ProcOK'
  BY <1>1, <1>2, ActorTypes DEF ProcOK
<1>4. proc'[q] = r /\ \A x \in Proc \ {q} : proc'[x] = proc[x]
  BY <1>2 DEF ProcOK
<1>5. ActorKnows
  BY <1>1, <1>4 DEF ActorKnows, Knows
<1>6. QED
  BY <1>3, <1>5, QuietStep DEF StartsRun, OutsideProc

LEMMA StepStartsImport ==
  ASSUME IInv, NEW q \in Proc, NEW k \in Key, NEW v \in Validator, NEW p \in Place,
         StartsImport(q, k, v, p)
  PROVE  IInv'
<1> DEFINE r == [Idle EXCEPT !.at = "look", !.op = "import", !.key = k, !.validator = v,
                             !.from = p]
<1>1. r \in ProcState /\ Fits(r) /\ r.at = "look"
  BY Values DEF Idle, ProcState, Stages, Fits
<1>2. proc' = [proc EXCEPT ![q] = r] /\ UNCHANGED lock /\ ProcOK
  BY DEF StartsImport, IInv
<1> HIDE DEF r
<1>3. ProcOK'
  BY <1>1, <1>2, ActorTypes DEF ProcOK
<1>4. proc'[q] = r /\ \A x \in Proc \ {q} : proc'[x] = proc[x]
  BY <1>2 DEF ProcOK
<1>5. ActorKnows
  BY <1>1, <1>4 DEF ActorKnows, Knows
<1>6. QED
  BY <1>3, <1>5, QuietStep DEF StartsImport, OutsideProc

LEMMA StepRunLocks ==
  ASSUME IInv, NEW q \in Proc, RunLocks(q)
  PROVE  IInv'
<1> DEFINE r == [proc[q] EXCEPT !.at = "look"]
<1>1. proc[q] \in ProcState /\ Fits(proc[q]) /\ proc[q].at = "lock"
  BY DEF IInv, ProcOK, RunLocks
<1>2. r \in ProcState /\ Fits(r) /\ r.at = "look"
  BY <1>1 DEF ProcState, Stages, Fits
<1>3. proc' = [proc EXCEPT ![q] = r] /\ lock' \in [Key -> Proc \cup {None}] /\ ProcOK
  BY <1>1 DEF RunLocks, IInv, ProcOK
<1> HIDE DEF r
<1>4. ProcOK'
  BY <1>2, <1>3, ActorTypes
<1>5. proc'[q] = r /\ \A x \in Proc \ {q} : proc'[x] = proc[x]
  BY <1>3 DEF ProcOK
<1>6. ActorKnows
  BY <1>2, <1>5 DEF ActorKnows, Knows
<1>7. QED
  BY <1>4, <1>6, QuietStep DEF RunLocks, OutsideProc

LEMMA QuietLeaves ==
  ASSUME IInv, NEW q \in Proc, Leaves(q), KeepsCache, UNCHANGED OutsideProc
  PROVE  IInv'
  BY LeavesTypes, QuietStep DEF IInv, OutsideProc

\* A process goes on with what it has.
LEMMA QuietGoes ==
  ASSUME IInv, NEW q \in Proc, proc[q].at # "idle",
         NEW stage \in {"command", "source", "publish", "certify", "object"},
         Goes(q, stage), KeepsCache, UNCHANGED OutsideProc,
         stage = "source" \/ stage = "object" => proc[q].from \in Place,
         stage = "publish" => proc[q].validator \in proc[q].content.passes,
         stage = "certify" => Vouched(proc[q].key, proc[q].validator),
         stage = "object" => \/ proc[q].from \in disturbed
                             \/ /\ tree[proc[q].from].there
                                /\ proc[q].validator \in tree[proc[q].from].content.passes
  PROVE  IInv'
<1>1. proc[q] \in ProcState /\ Fits(proc[q]) /\ stage \in Stages /\ ProcOK
  BY DEF IInv, ProcOK, Stages
<1>2. PICK r : r = [proc[q] EXCEPT !.at = stage]
  OBVIOUS
<1>3. /\ r.at = stage /\ r.key = proc[q].key /\ r.validator = proc[q].validator
      /\ r.from = proc[q].from /\ r.content = proc[q].content
      /\ r.existing = proc[q].existing
  BY <1>1, <1>2 DEF ProcState
<1>4. Fits(r)
  BY <1>1, <1>3 DEF Fits
<1>5. ProcOK' /\ proc'[q] = r /\ \A x \in Proc \ {q} : proc'[x] = proc[x]
  BY <1>1, <1>2, <1>4, GoesTypes
<1>6. UNCHANGED <<manifest, tree, contested, disturbed>>
  BY DEF KeepsCache, cache, history
<1>7. Knows(q)'
  BY <1>3, <1>5, <1>6 DEF Knows, Vouched, Missing
<1>8. QED
  BY <1>5, <1>7, QuietStep DEF ActorKnows, OutsideProc

\* A process goes on to validate the payload the manifest names.
LEMMA QuietRevalidate ==
  ASSUME IInv, NEW q \in Proc, proc[q].at # "idle", Cached(proc[q].key),
         GoesWith(q, "revalidate", manifest[proc[q].key].output_dir),
         KeepsCache, UNCHANGED OutsideProc
  PROVE  IInv'
<1>1. proc[q] \in ProcState /\ Fits(proc[q]) /\ ProcOK /\ proc[q].key \in Key
  BY DEF IInv, ProcOK, Fits
<1>2. PICK p \in Place : p = manifest[proc[q].key].output_dir
  BY <1>1 DEF IInv, CacheOK, Manifest, Cached, Missing
<1>3. PICK r : r = [proc[q] EXCEPT !.at = "revalidate", !.from = p]
  OBVIOUS
<1>4. r.at = "revalidate" /\ r.from = p /\ r.key = proc[q].key /\ r.validator = proc[q].validator
  BY <1>1, <1>3 DEF ProcState
<1>5. Fits(r)
  BY <1>1, <1>4 DEF Fits
<1>6. ProcOK' /\ proc'[q] = r /\ \A x \in Proc \ {q} : proc'[x] = proc[x]
  <2>1. r \in ProcState /\ proc' = [proc EXCEPT ![q] = r] /\ UNCHANGED lock
    BY <1>1, <1>2, <1>3 DEF GoesWith, ProcOK, ProcState, Stages
  <2>2. QED
    BY <1>1, <1>5, <2>1, ActorTypes DEF ProcOK
<1>7. UNCHANGED <<manifest, tree>>
  BY DEF KeepsCache, cache
<1>8. p \in Key \/ Holds(p, manifest[r.key].digest)
  <2>1. Accepted(manifest[r.key]) /\ Sound(r.key, manifest[r.key])
    BY <1>1, <1>4 DEF Cached, Missing, IInv, ManifestInv
  <2>2. QED
    BY <1>2, <1>4, <2>1 DEF Accepted, Sound, Holds
<1>9. Knows(q)'
  BY <1>2, <1>4, <1>6, <1>7, <1>8 DEF Knows, StillThere, StillHolds, Holds
<1>10. QED
  BY <1>6, <1>9, QuietStep DEF ActorKnows, OutsideProc

LEMMA StepRunLooks ==
  ASSUME IInv, NEW q \in Proc, RunLooks(q)
  PROVE  IInv'
<1>1. KeepsCache /\ UNCHANGED OutsideProc /\ proc[q].at # "idle"
  BY DEF RunLooks
<1>2. CASE Leaves(q)
  BY <1>1, <1>2, QuietLeaves
<1>3. CASE /\ Cached(proc[q].key)
           /\ GoesWith(q, "revalidate", manifest[proc[q].key].output_dir)
  BY <1>1, <1>3, QuietRevalidate DEF Cached
<1>4. CASE Goes(q, "command")
  BY <1>1, <1>4, QuietGoes
<1>5. QED
  BY <1>2, <1>3, <1>4 DEF RunLooks

LEMMA StepRunCommand ==
  ASSUME IInv, NEW q \in Proc, RunCommand(q)
  PROVE  IInv'
<1>1. KeepsCache /\ UNCHANGED OutsideProc /\ proc[q].at = "command"
  BY DEF RunCommand
<1>2. CASE Leaves(q)
  BY <1>1, <1>2, QuietLeaves
<1>3. ASSUME NEW c \in Results, UNCHANGED lock,
             proc' = [proc EXCEPT ![q].at = "validator", ![q].content = c]
      PROVE  IInv'
  <2>1. proc[q] \in ProcState /\ Fits(proc[q]) /\ ProcOK /\ c \in Content
    BY DEF IInv, ProcOK, Results
  <2>2. PICK r : r = [proc[q] EXCEPT !.at = "validator", !.content = c]
    OBVIOUS
  <2>3. r \in ProcState /\ Fits(r) /\ r.at = "validator"
    BY <1>1, <2>1, <2>2 DEF ProcState, Stages, Fits
  <2>4. proc' = [proc EXCEPT ![q] = r]
    BY <1>3, <2>1, <2>2 DEF ProcOK
  <2>5. ProcOK' /\ proc'[q] = r /\ \A x \in Proc \ {q} : proc'[x] = proc[x]
    BY <1>3, <2>1, <2>3, <2>4, ActorTypes DEF ProcOK
  <2>6. ActorKnows
    BY <2>3, <2>5 DEF ActorKnows, Knows
  <2>7. QED
    BY <1>1, <2>5, <2>6, QuietStep DEF OutsideProc
<1>4. QED
  BY <1>2, <1>3 DEF RunCommand

LEMMA StepRunValidates ==
  ASSUME IInv, NEW q \in Proc, RunValidates(q)
  PROVE  IInv'
<1>1. KeepsCache /\ UNCHANGED OutsideProc /\ proc[q].at # "idle"
  BY DEF RunValidates
<1>2. CASE Leaves(q)
  BY <1>1, <1>2, QuietLeaves
<1>3. CASE proc[q].validator \in proc[q].content.passes /\ Goes(q, "publish")
  BY <1>1, <1>3, QuietGoes
<1>4. QED
  BY <1>2, <1>3 DEF RunValidates

LEMMA StepRunChecks ==
  ASSUME IInv, NEW q \in Proc, RunChecks(q)
  PROVE  IInv'
<1>1. KeepsCache /\ UNCHANGED OutsideProc /\ proc[q].at = "check"
  BY DEF RunChecks
<1>2. CASE Leaves(q)
  BY <1>1, <1>2, QuietLeaves
<1>3. CASE Goes(q, "certify")
  <2>1. Vouched(proc[q].key, proc[q].validator)
    BY <1>1 DEF IInv, Knows
  <2>2. QED
    BY <1>1, <1>3, <2>1, QuietGoes
<1>4. QED
  BY <1>2, <1>3 DEF RunChecks

\* The validator accepts what is in the tree now, which is what the manifest
\* names if it is the manifest that was found.
LEMMA StepRevalidates ==
  ASSUME IInv, NEW q \in Proc, Revalidates(q)
  PROVE  IInv'
<1>1. KeepsCache /\ UNCHANGED OutsideProc /\ proc[q].at = "revalidate"
  BY DEF Revalidates
<1>2. CASE Leaves(q)
  BY <1>1, <1>2, QuietLeaves
<1>3. CASE /\ tree[proc[q].from].there
           /\ proc[q].validator \in tree[proc[q].from].content.passes
           /\ Goes(q, "certify")
  <2>1. PICK k \in Key : k = proc[q].key
    BY <1>1 DEF IInv, ProcOK, Fits
  <2>2. Vouched(k, proc[q].validator)
    <3>1. CASE k \in contested \/ Missing(k)
      BY <3>1 DEF Vouched
    <3>2. CASE ~(k \in contested \/ Missing(k))
      <4>1. manifest[k].output_dir = proc[q].from
        BY <1>1, <2>1, <3>2 DEF IInv, Knows, StillThere
      <4>2. Sound(k, manifest[k])
        BY <3>2 DEF IInv, ManifestInv, Missing
      <4>3. ~(proc[q].from = k /\ Tearing(k))
        BY <1>3, Values DEF Tearing
      <4>4. \/ proc[q].from \in disturbed \cup Key
            \/ Holds(proc[q].from, manifest[k].digest)
        BY <1>1, <2>1, <3>2 DEF IInv, Knows, StillHolds
      <4>5. Key \cap Outside = {}
        BY CacheAssumption
      <4>6. QED
        BY <1>3, <4>1, <4>2, <4>3, <4>4, <4>5 DEF Sound, Holds, Vouched
    <3>3. QED
      BY <3>1, <3>2
  <2>3. QED
    BY <1>1, <1>3, <2>1, <2>2, QuietGoes
<1>4. QED
  BY <1>2, <1>3 DEF Revalidates

LEMMA StepImportLooks ==
  ASSUME IInv, NEW q \in Proc, ImportLooks(q)
  PROVE  IInv'
<1>1. /\ KeepsCache /\ UNCHANGED OutsideProc
      /\ proc[q].at = "look" /\ proc[q].op = "import"
  BY DEF ImportLooks
<1>2. PICK k \in Key : k = proc[q].key
  BY <1>1 DEF IInv, ProcOK, Fits
<1>3. CASE Leaves(q)
  BY <1>1, <1>3, QuietLeaves
<1>4. CASE Goes(q, "source")
  <2>1. proc[q].from \in Place
    BY <1>1 DEF IInv, ProcOK, Fits
  <2>2. QED
    BY <1>1, <1>4, <2>1, QuietGoes
<1>5. CASE Cached(k) /\ GoesWith(q, "revalidate", manifest[k].output_dir)
  BY <1>1, <1>2, <1>5, QuietRevalidate DEF Cached
<1>6. CASE /\ Cached(k) /\ manifest[k].storage = "external-validated"
           /\ manifest[k].output_dir \in Key /\ UNCHANGED lock
           /\ proc' = [proc EXCEPT ![q].at = "promote", ![q].existing = manifest[k],
                                   ![q].from = manifest[k].output_dir]
  <2>1. PICK m \in Manifest : m = manifest[k]
    BY <1>6 DEF Cached, Missing, IInv, CacheOK
  <2>2. proc[q] \in ProcState /\ Fits(proc[q]) /\ ProcOK
    BY DEF IInv, ProcOK
  <2>3. m.output_dir \in Place
    BY DEF Manifest
  <2>4. PICK r : r = [proc[q] EXCEPT !.at = "promote", !.existing = m, !.from = m.output_dir]
    OBVIOUS
  <2>5. /\ r \in ProcState /\ r.at = "promote" /\ r.existing = m /\ r.from = m.output_dir
        /\ r.key = k /\ r.validator = proc[q].validator
    BY <1>2, <2>2, <2>3, <2>4 DEF ProcState, Stages
  <2>6. Fits(r)
    BY <1>1, <1>2, <2>2, <2>3, <2>5 DEF Fits
  <2>7. proc' = [proc EXCEPT ![q] = r]
    BY <1>6, <2>1, <2>2, <2>4 DEF ProcOK
  <2>8. ProcOK' /\ proc'[q] = r /\ \A x \in Proc \ {q} : proc'[x] = proc[x]
    BY <1>6, <2>2, <2>5, <2>6, <2>7, ActorTypes DEF ProcOK
  <2>9. Holds(m.output_dir, m.digest) /\ m.digest # Torn
    <3>1. Sound(k, m)
      BY <1>6, <2>1 DEF IInv, ManifestInv, Cached, Missing
    <3>2. m.storage = "external-validated" /\ m.output_dir \in Key /\ Accepted(m)
      BY <1>6, <2>1 DEF Cached
    <3>3. QED
      BY <3>1, <3>2 DEF Sound, Accepted, Holds
  <2>10. UNCHANGED <<manifest, tree>>
    BY <1>1 DEF KeepsCache, cache
  <2>11. Knows(q)'
    BY <1>6, <2>1, <2>5, <2>8, <2>9, <2>10 DEF Knows, Holds, StillThere, StillSealed
  <2>12. QED
    BY <1>1, <2>8, <2>11, QuietStep DEF ActorKnows, OutsideProc
<1>7. QED
  BY <1>2, <1>3, <1>4, <1>5, <1>6 DEF ImportLooks

LEMMA StepImportValidates ==
  ASSUME IInv, NEW q \in Proc, ImportValidates(q)
  PROVE  IInv'
<1>1. KeepsCache /\ UNCHANGED OutsideProc /\ proc[q].at = "source"
  BY DEF ImportValidates
<1>2. CASE Leaves(q)
  BY <1>1, <1>2, QuietLeaves
<1>3. CASE /\ tree[proc[q].from].there
           /\ proc[q].validator \in tree[proc[q].from].content.passes
           /\ Goes(q, "object")
  <2>1. proc[q].from \in Place
    BY <1>1 DEF IInv, ProcOK, Fits
  <2>2. QED
    BY <1>1, <1>3, <2>1, QuietGoes
<1>4. QED
  BY <1>2, <1>3 DEF ImportValidates

LEMMA StepDies ==
  ASSUME IInv, NEW q \in Proc, Dies(q)
  PROVE  IInv'
  BY QuietLeaves DEF Dies

-----------------------------------------------------------------------------
(* Steps of a process that change the cache.                               *)

LEMMA FramedStep ==
  ASSUME IInv, UNCHANGED <<plan, gc>>, CacheOK', ProcOK', Frame
  PROVE  IInv'
<1>1. GcOK'
  BY DEF IInv, GcOK, RootKeys
<1>2. QED
  BY <1>1, FrameKeeps DEF IInv

\* Who publishes a key others work on, or that holds anything, contests it.
LEMMA Contests ==
  ASSUME NEW q \in Proc, NEW k \in Key, Publishes(q, k)
  PROVE  /\ contested \subseteq contested'
         /\ ~Empty(k) => k \in contested'
         /\ \A x \in Proc \ {q} : proc[x].key = k => k \in contested'
  BY DEF Publishes, WorkingOn

LEMMA UntouchedKept ==
  ASSUME NEW k \in Key, manifest'[k] = manifest[k]
  PROVE  Kept(k)
  BY DEF Kept, Same, Missing

LEMMA StepRunPublishes ==
  ASSUME IInv, NEW q \in Proc, RunPublishes(q)
  PROVE  IInv'
<1>1. UNCHANGED OutsideProc /\ proc[q].at = "publish"
  BY DEF RunPublishes
<1>2. /\ proc[q] \in ProcState /\ Fits(proc[q]) /\ ProcOK /\ CacheOK
      /\ proc[q].key \in Key /\ proc[q].content \in Content
  BY <1>1 DEF IInv, ProcOK, Fits, ProcState
<1>3. PICK k \in Key, c \in Content : k = proc[q].key /\ c = proc[q].content
  BY <1>2
<1>4. CASE KeepsCache /\ Leaves(q)
  BY <1>1, <1>4, QuietLeaves
<1>5. CASE Empty(k) /\ InPlace(q, k) /\ Goes(q, "check")
  <2>1. PICK m \in Manifest : m = [output_dir |-> k, storage |-> "managed", digest |-> c]
    BY Values DEF Manifest
  <2>2. m.output_dir = k /\ m.storage = "managed" /\ m.digest = c
    BY <2>1
  <2>3. /\ object' = object \cup {k} /\ manifest' = [manifest EXCEPT ![k] = m]
        /\ tree' = [tree EXCEPT ![k] = Immutable(c)] /\ UNCHANGED certified
        /\ Publishes(q, k) /\ UNCHANGED disturbed
    BY <1>3, <1>5, <2>1 DEF InPlace
  <2>4. /\ ~tree[k].there /\ certified[k] = {}
        /\ manifest'[k] = m /\ \A x \in Key \ {k} : manifest'[x] = manifest[x]
        /\ tree'[k] = Immutable(c) /\ \A x \in Place \ {k} : tree'[x] = tree[x]
    BY <1>2, <1>5, <2>3, Values DEF Empty, CacheOK
  <2>5. /\ contested \subseteq contested'
        /\ \A x \in Proc \ {q} : proc[x].key = k => k \in contested'
    BY <2>3, Contests
  <2>6. PICK r : r = [proc[q] EXCEPT !.at = "check"]
    OBVIOUS
  <2>7. r.at = "check" /\ r.key = k /\ r.validator = proc[q].validator
    BY <1>2, <1>3, <2>6 DEF ProcState
  <2>8. ProcOK' /\ proc'[q] = r /\ \A x \in Proc \ {q} : proc'[x] = proc[x]
    <3>1. Fits(r) /\ "check" \in Stages
      BY <1>1, <1>2, <1>3, <2>7 DEF Fits, Stages
    <3>2. QED
      BY <1>2, <1>5, <2>6, <3>1, GoesTypes
  <2>9. CacheOK'
    <3>1. /\ object' \subseteq Key /\ manifest' \in [Key -> Manifest \cup {None}]
          /\ tree' \in [Place -> Tree] /\ certified' \in [Key -> SUBSET Validator]
      BY <1>2, <2>3, Values DEF CacheOK
    <3>2. \A x \in Key \ object' : x # k /\ Empty(x)
      BY <1>2, <2>3 DEF CacheOK
    <3>3. \A x \in Key \ object' : Empty(x)'
      BY <2>3, <2>4, <3>2, Values DEF Empty, Missing
    <3>4. QED
      BY <3>1, <3>3 DEF CacheOK
  <2>10. TreesKept
    BY <2>3, <2>4, Values DEF TreesKept, Unspoilt, TornOnly, Tearing
  <2>11. Sound(k, manifest[k])'
    BY <2>2, <2>4 DEF Sound, Holds, Immutable
  <2>12. \A x \in Key : Kept(x) \/ certified[x] = {}
    BY <2>4, UntouchedKept
  <2>13. ASSUME NEW x \in Proc, proc'[x] = proc[x], proc[x].at # "idle"
         PROVE  Kept(proc[x].key)
    <3>1. x # q
      BY <1>1, <2>7, <2>8, <2>13
    <3>2. PICK y \in Key : y = proc[x].key
      BY <2>13 DEF IInv, ProcOK, Fits
    <3>3. CASE y = k
      BY <2>5, <3>1, <3>2, <3>3 DEF Kept
    <3>4. CASE y # k
      BY <2>4, <3>2, <3>4, UntouchedKept
    <3>5. QED
      BY <3>3, <3>4
  <2>14. ManifestsKept
    BY <2>4, <2>5, <2>11, <2>12, <2>13 DEF ManifestsKept
  <2>15. CertificatesKept
    BY <2>3 DEF CertificatesKept
  <2>16. Knows(q)'
    <3>1. r.validator \in c.passes
      BY <1>1, <1>3, <2>7 DEF IInv, Knows
    <3>2. QED
      BY <2>2, <2>4, <2>7, <2>8, <3>1 DEF Knows, Vouched
  <2>17. Frame
    BY <2>8, <2>10, <2>14, <2>15, <2>16 DEF Frame, ActorKnows
  <2>18. QED
    BY <1>1, <2>8, <2>9, <2>17, FramedStep DEF OutsideProc
<1>6. QED
  BY <1>3, <1>4, <1>5 DEF RunPublishes

LEMMA StepCertifies ==
  ASSUME IInv, NEW q \in Proc, Certifies(q)
  PROVE  IInv'
<1>1. UNCHANGED OutsideProc /\ proc[q].at = "certify" /\ Leaves(q) /\ ProcOK /\ CacheOK
  BY DEF Certifies, IInv
<1>2. PICK k \in Key, v \in Validator : k = proc[q].key /\ v = proc[q].validator
  BY <1>1 DEF ProcOK, Fits
<1>3. /\ object' = object \cup {k}
      /\ certified' = [certified EXCEPT ![k] = certified[k] \cup {v}]
      /\ UNCHANGED <<manifest, tree, contested, disturbed>>
  BY <1>2 DEF Certifies, history
<1>4. ProcOK' /\ ActorKnows
  BY <1>1, LeavesTypes
<1>5. CacheOK'
  <2>1. /\ object' \subseteq Key /\ manifest' \in [Key -> Manifest \cup {None}]
        /\ tree' \in [Place -> Tree] /\ certified' \in [Key -> SUBSET Validator]
    BY <1>1, <1>3 DEF CacheOK
  <2>2. \A x \in Key \ object' : x # k /\ Empty(x) /\ certified'[x] = certified[x]
    BY <1>1, <1>3 DEF CacheOK
  <2>3. \A x \in Key \ object' : Empty(x)'
    BY <1>3, <2>2 DEF Empty, Missing
  <2>4. QED
    BY <2>1, <2>3 DEF CacheOK
<1>6. TreesKept
  BY <1>3 DEF TreesKept, Unspoilt, TornOnly, Tearing
<1>7. ManifestsKept
  <2>1. \A x \in Key : Kept(x)
    BY <1>3, UntouchedKept
  <2>2. \A x \in Proc : proc[x].at # "idle" => proc[x].key \in Key
    BY <1>1 DEF ProcOK, Fits
  <2>3. QED
    BY <1>3, <2>1, <2>2 DEF ManifestsKept
<1>8. CertificatesKept
  <2>1. Vouched(k, v)
    BY <1>1, <1>2 DEF IInv, Knows
  <2>2. Vouched(k, v)'
    BY <1>3, <2>1 DEF Vouched, Missing
  <2>3. \A x \in Key : \A y \in certified'[x] : y \in certified[x] \/ (x = k /\ y = v)
    BY <1>1, <1>3 DEF CacheOK
  <2>4. QED
    BY <2>2, <2>3 DEF CertificatesKept
<1>9. QED
  BY <1>1, <1>4, <1>5, <1>6, <1>7, <1>8, FramedStep DEF Frame, OutsideProc

\* The modes of a tree are changed, and nothing else.
LEMMA OnlyModes ==
  ASSUME CacheOK, NEW p \in Place, NEW w \in BOOLEAN,
         tree' = [tree EXCEPT ![p].writable = w]
  PROVE  /\ tree' \in [Place -> Tree]
         /\ \A x \in Place : tree'[x].there = tree[x].there /\ tree'[x].content = tree[x].content
         /\ \A x \in Place \ {p} : tree'[x] = tree[x]
         /\ tree'[p].writable = w
<1>1. tree \in [Place -> Tree] /\ tree[p] \in Tree
  BY DEF CacheOK
<1>2. [tree[p] EXCEPT !.writable = w] \in Tree
  BY <1>1 DEF Tree
<1>3. tree' = [tree EXCEPT ![p] = [tree[p] EXCEPT !.writable = w]]
  BY <1>1
<1>4. tree'[p] = [tree[p] EXCEPT !.writable = w] /\ \A x \in Place \ {p} : tree'[x] = tree[x]
  BY <1>1, <1>3
<1>5. QED
  BY <1>1, <1>2, <1>3, <1>4 DEF Tree

\* A tree may be made immutable as long as no removal has begun, or if it is
\* known to be disturbed.
LEMMA ImmutableTrees ==
  ASSUME CacheOK, NEW p \in Place, tree' = [tree EXCEPT ![p].writable = FALSE],
         p \in disturbed \/ tree[p].content # Torn, UNCHANGED disturbed
  PROVE  TreesKept
<1>1. /\ \A x \in Place : tree'[x].there = tree[x].there /\ tree'[x].content = tree[x].content
      /\ \A x \in Place \ {p} : tree'[x] = tree[x]
  BY OnlyModes
<1>2. ASSUME NEW k \in Key, tree[k].there PROVE TornOnly(k)
  <2>1. k \in Place
    BY Values
  <2>2. k \in disturbed \/ (Tearing(k) => Tearing(k)')
    BY <1>1, <2>1 DEF Tearing
  <2>3. QED
    BY <1>1, <1>2, <2>1, <2>2 DEF TornOnly
<1>3. QED
  BY <1>1, <1>2 DEF TreesKept, Unspoilt

LEMMA StepImportPromotes ==
  ASSUME IInv, NEW q \in Proc, ImportPromotes(q)
  PROVE  IInv'
<1>1. UNCHANGED OutsideProc /\ proc[q].at = "promote" /\ ProcOK /\ CacheOK /\ Knows(q)
  BY DEF ImportPromotes, IInv
<1>2. /\ proc[q] \in ProcState /\ Fits(proc[q]) /\ proc[q].key \in Key
      /\ proc[q].from \in Place /\ proc[q].existing \in Manifest
  BY <1>1 DEF ProcOK, Fits
<1>3. PICK k \in Key, p \in Place, e \in Manifest :
        k = proc[q].key /\ p = proc[q].from /\ e = proc[q].existing
  BY <1>2
<1>4. CASE KeepsCache /\ Leaves(q)
  BY <1>1, <1>4, QuietLeaves
<1>5. CASE /\ tree[p].there /\ ~Missing(k)
           /\ tree' = [tree EXCEPT ![p].writable = FALSE]
           /\ manifest' = [manifest EXCEPT ![k] = [e EXCEPT !.storage = "managed"]]
           /\ Leaves(q) \/ Goes(q, "revalidate")
           /\ UNCHANGED <<object, certified, history>>
  <2>1. PICK m \in Manifest : m = [e EXCEPT !.storage = "managed"]
    BY <1>3 DEF Manifest
  <2>2. m.output_dir = e.output_dir /\ m.storage = "managed" /\ m.digest = e.digest
    BY <1>3, <2>1 DEF Manifest
  <2>3. /\ e.output_dir = p /\ p \in Key
        /\ p \in disturbed \/ (Holds(p, e.digest) /\ e.digest # Torn)
        /\ StillThere(k, p) /\ StillSealed(k, e.digest)
    BY <1>1, <1>3 DEF Knows
  <2>4. manifest'[k] = m /\ \A x \in Key \ {k} : manifest'[x] = manifest[x]
    BY <1>1, <1>5, <2>1 DEF CacheOK
  <2>5. UNCHANGED <<object, certified, contested, disturbed>>
    BY <1>5 DEF history
  <2>6. /\ tree' \in [Place -> Tree]
        /\ \A x \in Place : tree'[x].there = tree[x].there /\ tree'[x].content = tree[x].content
    BY <1>1, <1>5, OnlyModes
  <2>7. TreesKept
    BY <1>1, <1>5, <2>3, <2>5, ImmutableTrees DEF Holds
  <2>8. CacheOK'
    <3>1. manifest' \in [Key -> Manifest \cup {None}]
      BY <1>1, <1>5, <2>1 DEF CacheOK
    <3>2. k \in object
      BY <1>1, <1>5 DEF CacheOK, Empty
    <3>3. \A x \in Key \ object : Empty(x)'
      BY <1>1, <2>4, <2>5, <2>6, <3>2, Values DEF CacheOK, Empty, Missing
    <3>4. QED
      BY <1>1, <2>5, <2>6, <3>1, <3>3 DEF CacheOK
  <2>9. Sound(k, manifest[k])'
    BY <2>2, <2>3, <2>4, <2>5, <2>6 DEF Sound, Holds
  <2>10. \A x \in Key : Kept(x)
    <3>1. Kept(k)
      BY <1>5, <2>2, <2>3, <2>4, <2>5 DEF Kept, Same, StillThere, StillSealed
    <3>2. QED
      BY <2>4, <3>1, UntouchedKept
  <2>11. ManifestsKept
    <3>1. \A x \in Proc : proc[x].at # "idle" => proc[x].key \in Key
      BY <1>1 DEF ProcOK, Fits
    <3>2. QED
      BY <2>4, <2>5, <2>9, <2>10, <3>1 DEF ManifestsKept
  <2>12. CertificatesKept
    BY <2>5 DEF CertificatesKept
  <2>13. ProcOK' /\ ActorKnows
    <3>1. CASE Leaves(q)
      BY <1>1, <3>1, LeavesTypes
    <3>2. CASE Goes(q, "revalidate")
      <4>1. PICK r : r = [proc[q] EXCEPT !.at = "revalidate"]
        OBVIOUS
      <4>2. r.at = "revalidate" /\ r.key = k /\ r.from = p /\ r.validator = proc[q].validator
        BY <1>2, <1>3, <4>1 DEF ProcState
      <4>3. Fits(r) /\ "revalidate" \in Stages
        BY <1>1, <1>2, <1>3, <4>2 DEF Fits, Stages
      <4>4. ProcOK' /\ proc'[q] = r /\ \A x \in Proc \ {q} : proc'[x] = proc[x]
        BY <1>1, <3>2, <4>1, <4>3, GoesTypes
      <4>5. Knows(q)'
        BY <2>2, <2>3, <2>4, <4>2, <4>4 DEF Knows, StillThere, StillHolds
      <4>6. QED
        BY <4>4, <4>5 DEF ActorKnows
    <3>3. QED
      BY <1>5, <3>1, <3>2
  <2>14. QED
    BY <1>1, <2>7, <2>8, <2>11, <2>12, <2>13, FramedStep DEF Frame, OutsideProc
<1>6. QED
  BY <1>3, <1>4, <1>5 DEF ImportPromotes

LEMMA StepImportMakesObject ==
  ASSUME IInv, NEW q \in Proc, ImportMakesObject(q)
  PROVE  IInv'
<1>1. UNCHANGED OutsideProc /\ proc[q].at = "object" /\ ProcOK /\ CacheOK /\ Knows(q)
  BY DEF ImportMakesObject, IInv
<1>2. /\ proc[q] \in ProcState /\ Fits(proc[q]) /\ proc[q].key \in Key
      /\ proc[q].from \in Place
  BY <1>1 DEF ProcOK, Fits
<1>3. PICK k \in Key, p \in Place : k = proc[q].key /\ p = proc[q].from
  BY <1>2
<1>4. CASE KeepsCache /\ Leaves(q)
  BY <1>1, <1>4, QuietLeaves
<1>5. CASE /\ object' = object \cup {k} /\ Publishes(q, k)
           /\ tree' = IF p \in Key THEN [tree EXCEPT ![p].writable = FALSE] ELSE tree
           /\ Goes(q, "seal") /\ UNCHANGED <<manifest, certified, disturbed>>
  <2>1. p \in disturbed \/ (tree[p].there /\ proc[q].validator \in tree[p].content.passes)
    BY <1>1, <1>3 DEF Knows
  <2>2. p \in disturbed \/ tree[p].content # Torn
    BY <2>1, Values
  <2>3. /\ tree' \in [Place -> Tree]
        /\ \A x \in Place : tree'[x].there = tree[x].there /\ tree'[x].content = tree[x].content
        /\ TreesKept
    <3>1. CASE p \in Key
      BY <1>1, <1>5, <2>2, <3>1, OnlyModes, ImmutableTrees
    <3>2. CASE p \notin Key
      BY <1>1, <1>5, <3>2 DEF CacheOK, TreesKept, Unspoilt, TornOnly, Tearing
    <3>3. QED
      BY <3>1, <3>2
  <2>4. contested \subseteq contested'
    BY <1>5, Contests
  <2>5. CacheOK'
    <3>1. \A x \in Key \ object' : Empty(x)'
      BY <1>1, <1>5, <2>3, Values DEF CacheOK, Empty, Missing
    <3>2. QED
      BY <1>1, <1>5, <2>3, <3>1 DEF CacheOK
  <2>6. ManifestsKept
    <3>1. \A x \in Key : Kept(x)
      BY <1>5, UntouchedKept
    <3>2. \A x \in Proc : proc[x].at # "idle" => proc[x].key \in Key
      BY <1>1 DEF ProcOK, Fits
    <3>3. QED
      BY <1>5, <2>4, <3>1, <3>2 DEF ManifestsKept
  <2>7. CertificatesKept
    BY <1>5 DEF CertificatesKept
  <2>8. ProcOK' /\ ActorKnows
    <3>1. PICK r : r = [proc[q] EXCEPT !.at = "seal"]
      OBVIOUS
    <3>2. r.at = "seal" /\ r.key = k /\ r.from = p /\ r.validator = proc[q].validator
      BY <1>2, <1>3, <3>1 DEF ProcState
    <3>3. Fits(r) /\ "seal" \in Stages
      BY <1>1, <1>2, <1>3, <3>2 DEF Fits, Stages
    <3>4. ProcOK' /\ proc'[q] = r /\ \A x \in Proc \ {q} : proc'[x] = proc[x]
      BY <1>1, <1>5, <3>1, <3>3, GoesTypes
    <3>5. Knows(q)'
      BY <1>5, <2>1, <2>3, <3>2, <3>4 DEF Knows
    <3>6. QED
      BY <3>4, <3>5 DEF ActorKnows
  <2>9. QED
    BY <1>1, <2>3, <2>5, <2>6, <2>7, <2>8, FramedStep DEF Frame, OutsideProc
<1>6. QED
  BY <1>3, <1>4, <1>5 DEF ImportMakesObject

LEMMA StepImportSeals ==
  ASSUME IInv, NEW q \in Proc, ImportSeals(q)
  PROVE  IInv'
<1>1. UNCHANGED OutsideProc /\ proc[q].at = "seal" /\ ProcOK /\ CacheOK /\ Knows(q)
  BY DEF ImportSeals, IInv
<1>2. /\ proc[q] \in ProcState /\ Fits(proc[q]) /\ proc[q].key \in Key
      /\ proc[q].from \in Place
  BY <1>1 DEF ProcOK, Fits
<1>3. PICK k \in Key, p \in Place : k = proc[q].key /\ p = proc[q].from
  BY <1>2
<1>4. PICK m : m = [output_dir |-> p, digest |-> tree[p].content,
                    storage |-> IF p \in Key THEN "managed" ELSE "external-validated"]
  OBVIOUS
<1>5. /\ m \in Manifest /\ m.output_dir = p /\ m.digest = tree[p].content
      /\ m.storage = IF p \in Key THEN "managed" ELSE "external-validated"
  <2>1. tree[p].content \in Content
    BY <1>1 DEF CacheOK, Tree
  <2>2. QED
    BY <1>4, <2>1 DEF Manifest
<1>6. CASE KeepsCache /\ Leaves(q)
  BY <1>1, <1>6, QuietLeaves
<1>7. CASE /\ tree[p].there
           /\ object' = object \cup {k}
           /\ manifest' = [manifest EXCEPT ![k] = m]
           /\ Publishes(q, k)
           /\ Leaves(q) \/ Goes(q, "certify")
           /\ UNCHANGED <<tree, certified, disturbed>>
  <2>1. manifest'[k] = m /\ \A x \in Key \ {k} : manifest'[x] = manifest[x]
    BY <1>1, <1>7 DEF CacheOK
  <2>2. /\ contested \subseteq contested'
        /\ ~Empty(k) => k \in contested'
        /\ \A x \in Proc \ {q} : proc[x].key = k => k \in contested'
    BY <1>7, Contests
  <2>3. CacheOK'
    <3>1. manifest' \in [Key -> Manifest \cup {None}]
      BY <1>1, <1>5, <1>7 DEF CacheOK
    <3>2. \A x \in Key \ object' : Empty(x)'
      BY <1>1, <1>7, <2>1 DEF CacheOK, Empty, Missing
    <3>3. QED
      BY <1>1, <1>7, <3>1, <3>2 DEF CacheOK
  <2>4. TreesKept
    BY <1>7 DEF TreesKept, Unspoilt, TornOnly, Tearing
  <2>5. Sound(k, manifest[k])'
    BY <1>5, <1>7, <2>1 DEF Sound, Holds
  <2>6. \A x \in Key : Kept(x) \/ certified[x] = {}
    <3>1. Kept(k) \/ certified[k] = {}
      BY <2>2 DEF Kept, Empty
    <3>2. QED
      BY <2>1, <3>1, UntouchedKept
  <2>7. /\ ProcOK' /\ ActorKnows /\ proc'[q] # proc[q]
        /\ \A x \in Proc \ {q} : proc'[x] = proc[x]
    <3>1. CASE Leaves(q)
      <4>1. proc'[q] = Idle /\ \A x \in Proc \ {q} : proc'[x] = proc[x]
        BY <1>1, <3>1 DEF Leaves, ProcOK
      <4>2. QED
        BY <1>1, <3>1, <4>1, LeavesTypes, Values
    <3>2. CASE Goes(q, "certify")
      <4>1. PICK r : r = [proc[q] EXCEPT !.at = "certify"]
        OBVIOUS
      <4>2. r.at = "certify" /\ r.key = k /\ r.from = p /\ r.validator = proc[q].validator
        BY <1>2, <1>3, <4>1 DEF ProcState
      <4>3. Fits(r) /\ "certify" \in Stages
        BY <1>1, <1>2, <1>3, <4>2 DEF Fits, Stages
      <4>4. ProcOK' /\ proc'[q] = r /\ \A x \in Proc \ {q} : proc'[x] = proc[x]
        BY <1>1, <3>2, <4>1, <4>3, GoesTypes
      <4>5. p \in disturbed \/ proc[q].validator \in tree[p].content.passes
        BY <1>1, <1>3 DEF Knows
      <4>6. Knows(q)'
        BY <1>5, <1>7, <2>1, <4>2, <4>4, <4>5 DEF Knows, Vouched
      <4>7. QED
        BY <1>1, <4>2, <4>4, <4>6 DEF ActorKnows
    <3>3. QED
      BY <1>7, <3>1, <3>2
  <2>8. ASSUME NEW x \in Proc, proc'[x] = proc[x], proc[x].at # "idle"
        PROVE  Kept(proc[x].key)
    <3>1. x # q
      BY <2>7, <2>8
    <3>2. PICK y \in Key : y = proc[x].key
      BY <1>1, <2>8 DEF ProcOK, Fits
    <3>3. CASE y = k
      BY <2>2, <3>1, <3>2, <3>3 DEF Kept
    <3>4. CASE y # k
      BY <2>1, <3>2, <3>4, UntouchedKept
    <3>5. QED
      BY <3>3, <3>4
  <2>9. ManifestsKept
    BY <2>1, <2>2, <2>5, <2>6, <2>8 DEF ManifestsKept
  <2>10. CertificatesKept
    BY <1>7 DEF CertificatesKept
  <2>11. QED
    BY <1>1, <2>3, <2>4, <2>7, <2>9, <2>10, FramedStep DEF Frame, OutsideProc
<1>8. QED
  BY <1>3, <1>4, <1>6, <1>7 DEF ImportSeals

-----------------------------------------------------------------------------
(* Plans, the collector and the owners of the outside trees.               *)

LEMMA OtherActor ==
  ASSUME IInv, UNCHANGED <<lock, proc>>
  PROVE  ProcOK' /\ ActorKnows
  BY DEF IInv, ProcOK, ActorKnows

LEMMA GcQuiet ==
  ASSUME IInv, UNCHANGED <<cache, history, lock, proc>>, GcOK'
  PROVE  IInv'
<1>1. ProcOK' /\ ActorKnows
  BY OtherActor
<1>2. QED
  BY <1>1, QuietFrame, FrameKeeps DEF IInv

\* Manifests and certificates only go.
LEMMA OnlyRemoves ==
  ASSUME IInv, UNCHANGED <<lock, proc, contested>>, CacheOK', GcOK', TreesKept,
         \A k \in Key : manifest'[k] \in {None, manifest[k]},
         \A k \in Key : certified'[k] \subseteq certified[k]
  PROVE  IInv'
<1>1. ProcOK' /\ ActorKnows
  BY OtherActor
<1>2. \A k \in Key : Kept(k)
  BY UntouchedKept DEF Kept
<1>3. ManifestsKept
  <2>1. \A x \in Proc : proc[x].at # "idle" => proc[x].key \in Key
    BY DEF IInv, ProcOK, Fits
  <2>2. QED
    BY <1>2, <2>1 DEF ManifestsKept
<1>4. CertificatesKept
  BY DEF CertificatesKept
<1>5. QED
  BY <1>1, <1>3, <1>4, FrameKeeps DEF IInv, Frame

LEMMA StepPlans ==
  ASSUME IInv, Plans
  PROVE  IInv'
<1>1. \A k \in Planned : Cached(k) => manifest[k].output_dir \in Place
  BY Values DEF IInv, CacheOK, Manifest, Cached, Missing
<1>2. plan' \in [Planned -> Place]
  BY <1>1, Values DEF Plans
<1>3. GcOK'
  BY <1>2 DEF IInv, GcOK, RootKeys, Plans
<1>4. QED
  BY <1>3, GcQuiet DEF Plans

LEMMA StepGcPlans ==
  ASSUME IInv, GcPlans
  PROVE  IInv'
<1>1. \A k \in Key : Digest(k) \in Seen
  <2>1. ASSUME NEW k \in Key PROVE Digest(k) \in Seen
    <3>1. /\ manifest[k] \in Manifest \cup {None} /\ certified[k] \in SUBSET Validator
          /\ tree[k] \in Tree
      BY Values DEF IInv, CacheOK
    <3>2. QED
      BY <3>1 DEF Digest, Seen, Tree
  <2>2. QED
    BY <2>1
<1> DEFINE cs == {[key |-> k, digest |-> Digest(k)] : k \in object \ RootKeys(plan)}
<1>2. cs \in SUBSET [key : Key, digest : Seen]
  BY <1>1 DEF IInv, CacheOK
<1>3. gc' = [GcIdle EXCEPT !.at = "planned", !.candidates = cs] /\ UNCHANGED plan
  BY DEF GcPlans
<1> HIDE DEF cs
<1>4. gc' \in GcState /\ gc'.at = "planned"
  BY <1>2, <1>3, Values DEF GcState
<1>5. GcOK'
  BY <1>3, <1>4 DEF IInv, GcOK
<1>6. QED
  BY <1>5, GcQuiet DEF GcPlans

LEMMA StepGcApplies ==
  ASSUME IInv, GcApplies
  PROVE  IInv'
<1>1. gc' \in GcState /\ gc'.at = "apply" /\ UNCHANGED plan
  BY DEF GcApplies, IInv, GcOK, GcState
<1>2. GcOK'
  BY <1>1 DEF IInv, GcOK
<1>3. QED
  BY <1>2, GcQuiet DEF GcApplies

LEMMA GcIdleOK ==
  ASSUME IInv, gc' = GcIdle, UNCHANGED plan
  PROVE  GcOK'
  BY Values DEF IInv, GcOK

LEMMA StepGcEnds ==
  ASSUME IInv, GcEnds
  PROVE  IInv'
  BY GcIdleOK, GcQuiet DEF GcEnds

LEMMA StepGcTakes ==
  ASSUME IInv, NEW c \in gc.candidates, GcTakes(c)
  PROVE  IInv'
<1>1. UNCHANGED <<object, manifest, certified, lock, proc, plan, contested, disturbed>> /\ CacheOK
  BY DEF GcTakes, history, IInv
<1>2. c.key \in Key /\ gc \in GcState
  BY DEF IInv, GcOK, GcState
<1>3. PICK k \in Key : k = c.key
  BY <1>2
<1>4. CASE gc' = GcIdle /\ UNCHANGED tree
  <2>1. UNCHANGED <<cache, history>>
    BY <1>1, <1>4 DEF cache, history
  <2>2. QED
    BY <1>1, <1>4, <2>1, GcIdleOK, GcQuiet
<1>5. CASE /\ k \notin RootKeys(gc.recorded)
           /\ gc' = [gc EXCEPT !.at = "remove", !.removing = k,
                               !.candidates = gc.candidates \ {c}]
           /\ tree' = [tree EXCEPT ![k].writable = TRUE]
  <2>1. /\ tree' \in [Place -> Tree]
        /\ \A x \in Place : tree'[x].there = tree[x].there /\ tree'[x].content = tree[x].content
        /\ \A x \in Place \ {k} : tree'[x] = tree[x]
        /\ tree'[k].writable = TRUE
    BY <1>1, <1>5, Values, OnlyModes
  <2>2. TreesKept
    <3>1. \A x \in Key : Tearing(x) => Tearing(x)'
      BY <2>1, Values DEF Tearing
    <3>2. QED
      BY <1>1, <2>1, <3>1, Values DEF TreesKept, Unspoilt, TornOnly
  <2>3. CacheOK'
    <3>1. \A x \in Key \ object : Empty(x)'
      BY <1>1, <2>1, Values DEF CacheOK, Empty, Missing
    <3>2. QED
      BY <1>1, <2>1, <3>1 DEF CacheOK
  <2>4. /\ gc' \in GcState /\ gc'.at = "remove" /\ gc'.removing = k
        /\ gc'.recorded = gc.recorded
    BY <1>2, <1>5 DEF GcState
  <2>5. GcOK'
    BY <1>1, <1>5, <2>4 DEF IInv, GcOK, RootKeys
  <2>6. QED
    BY <1>1, <2>2, <2>3, <2>5, OnlyRemoves
<1>6. QED
  BY <1>3, <1>4, <1>5 DEF GcTakes

LEMMA StepGcRemovesPart ==
  ASSUME IInv, GcRemovesPart
  PROVE  IInv'
<1>1. /\ UNCHANGED <<object, lock, proc, plan, gc, contested>>
      /\ gc.at = "remove" /\ CacheOK
  BY DEF GcRemovesPart, IInv
<1>2. PICK k \in Key : k = gc.removing
  BY <1>1 DEF IInv, GcOK
<1>3. GcOK'
  BY <1>1 DEF IInv, GcOK, RootKeys
<1>4. CASE /\ tree[k].there /\ tree[k].writable
           /\ tree' = [tree EXCEPT ![k].content = Torn]
           /\ Disturbs(k) /\ UNCHANGED <<manifest, certified>>
  <2>1. tree[k] \in Tree /\ k \in Place /\ tree \in [Place -> Tree]
    BY <1>1, Values DEF CacheOK
  <2>2. PICK t : t = [tree[k] EXCEPT !.content = Torn]
    OBVIOUS
  <2>3. /\ t \in Tree /\ t.content = Torn /\ t.there = tree[k].there
        /\ t.writable = tree[k].writable
    BY <2>1, <2>2, Values DEF Tree
  <2>4. /\ tree' \in [Place -> Tree] /\ tree'[k] = t
        /\ \A x \in Place \ {k} : tree'[x] = tree[x]
    BY <1>4, <2>1, <2>2, <2>3
  <2>5. disturbed \subseteq disturbed' /\ (InUse(k) => k \in disturbed')
    BY <1>4 DEF Disturbs
  <2>6. Tearing(k)'
    BY <1>4, <2>3, <2>4 DEF Tearing
  <2>7. TreesKept
    <3>1. ASSUME NEW p \in Place, InUse(p), tree[p].there PROVE Unspoilt(p)
      BY <2>4, <2>5, <3>1 DEF Unspoilt
    <3>2. ASSUME NEW x \in Key, tree[x].there PROVE TornOnly(x)
      <4>1. CASE x = k
        BY <1>4, <2>3, <2>4, <2>6, <4>1 DEF TornOnly
      <4>2. CASE x # k
        BY <2>4, <3>2, <4>2, Values DEF TornOnly, Tearing
      <4>3. QED
        BY <4>1, <4>2
    <3>3. QED
      BY <2>5, <3>1, <3>2 DEF TreesKept
  <2>8. CacheOK'
    <3>1. \A x \in Key \ object : Empty(x)'
      BY <1>1, <1>4, <2>3, <2>4, Values DEF CacheOK, Empty, Missing
    <3>2. QED
      BY <1>1, <1>4, <2>4, <3>1 DEF CacheOK
  <2>9. QED
    BY <1>1, <1>3, <1>4, <2>7, <2>8, OnlyRemoves
<1>5. CASE /\ manifest' = [manifest EXCEPT ![k] = None]
           /\ UNCHANGED <<tree, certified, disturbed>>
  <2>1. \A x \in Key : manifest'[x] \in {None, manifest[x]}
    BY <1>1, <1>5 DEF CacheOK
  <2>2. CacheOK'
    BY <1>1, <1>5 DEF CacheOK, Empty, Missing
  <2>3. TreesKept
    BY <1>5 DEF TreesKept, Unspoilt, TornOnly, Tearing
  <2>4. QED
    BY <1>1, <1>3, <1>5, <2>1, <2>2, <2>3, OnlyRemoves
<1>6. CASE /\ certified' = [certified EXCEPT ![k] = {}]
           /\ UNCHANGED <<tree, manifest, disturbed>>
  <2>1. \A x \in Key : certified'[x] \subseteq certified[x]
    BY <1>1, <1>6 DEF CacheOK
  <2>2. CacheOK'
    BY <1>1, <1>6 DEF CacheOK, Empty, Missing
  <2>3. TreesKept
    BY <1>6 DEF TreesKept, Unspoilt, TornOnly, Tearing
  <2>4. QED
    BY <1>1, <1>3, <1>6, <2>1, <2>2, <2>3, OnlyRemoves
<1>7. QED
  BY <1>2, <1>4, <1>5, <1>6 DEF GcRemovesPart

LEMMA StepGcRemovesRest ==
  ASSUME IInv, GcRemovesRest
  PROVE  IInv'
<1>1. UNCHANGED <<lock, proc, plan, contested>> /\ gc.at = "remove" /\ CacheOK
  BY DEF GcRemovesRest, IInv
<1>2. PICK k \in Key : k = gc.removing
  BY <1>1 DEF IInv, GcOK
<1>3. CASE gc' = GcIdle /\ UNCHANGED <<cache, disturbed>>
  <2>1. UNCHANGED <<cache, history>>
    BY <1>1, <1>3 DEF history
  <2>2. QED
    BY <1>1, <1>3, <2>1, GcIdleOK, GcQuiet
<1>4. CASE /\ object' = object \ {k}
           /\ manifest' = [manifest EXCEPT ![k] = None]
           /\ certified' = [certified EXCEPT ![k] = {}]
           /\ tree' = [tree EXCEPT ![k] = NoTree]
           /\ Disturbs(k)
           /\ gc' = [gc EXCEPT !.at = "apply", !.removing = None]
  <2>1. /\ manifest'[k] = None /\ certified'[k] = {} /\ tree'[k] = NoTree
        /\ \A x \in Key \ {k} : manifest'[x] = manifest[x] /\ certified'[x] = certified[x]
        /\ \A x \in Place \ {k} : tree'[x] = tree[x]
    BY <1>1, <1>4, Values DEF CacheOK
  <2>2. disturbed \subseteq disturbed' /\ (InUse(k) => k \in disturbed')
    BY <1>4 DEF Disturbs
  <2>3. TreesKept
    <3>1. ASSUME NEW p \in Place, InUse(p), tree[p].there PROVE Unspoilt(p)
      BY <2>1, <2>2, <3>1 DEF Unspoilt
    <3>2. ASSUME NEW x \in Key, tree[x].there PROVE TornOnly(x)
      BY <2>1, <3>2, Values DEF TornOnly, Tearing
    <3>3. QED
      BY <2>2, <3>1, <3>2 DEF TreesKept
  <2>4. CacheOK'
    <3>1. /\ object' \subseteq Key /\ manifest' \in [Key -> Manifest \cup {None}]
          /\ tree' \in [Place -> Tree] /\ certified' \in [Key -> SUBSET Validator]
      BY <1>1, <1>4, Values DEF CacheOK
    <3>2. ASSUME NEW x \in Key \ object' PROVE Empty(x)'
      <4>1. CASE x = k
        BY <2>1, <4>1, Values DEF Empty, Missing
      <4>2. CASE x # k
        <5>1. Empty(x)
          BY <1>1, <1>4, <4>2 DEF CacheOK
        <5>2. QED
          BY <2>1, <4>2, <5>1, Values DEF Empty, Missing
      <4>3. QED
        BY <4>1, <4>2
    <3>3. QED
      BY <3>1, <3>2 DEF CacheOK
  <2>5. gc' \in GcState /\ gc'.at = "apply"
    BY <1>4 DEF IInv, GcOK, GcState
  <2>6. GcOK'
    BY <1>1, <2>5 DEF IInv, GcOK
  <2>7. \A x \in Key : manifest'[x] \in {None, manifest[x]} /\ certified'[x] \subseteq certified[x]
    BY <2>1
  <2>8. QED
    BY <1>1, <2>3, <2>4, <2>6, <2>7, OnlyRemoves
<1>5. QED
  BY <1>2, <1>3, <1>4 DEF GcRemovesRest

LEMMA StepOwnerEdits ==
  ASSUME IInv, NEW p \in Outside, OwnerEdits(p)
  PROVE  IInv'
<1>1. /\ UNCHANGED <<object, manifest, certified, lock, proc, plan, gc, contested>>
      /\ CacheOK /\ Disturbs(p)
  BY DEF OwnerEdits, IInv
<1>2. PICK c \in Content : tree' = [tree EXCEPT ![p].content = c]
  BY DEF OwnerEdits, Results
<1>3. p \in Place /\ p \notin Key /\ tree[p] \in Tree /\ tree \in [Place -> Tree]
  BY <1>1, Values, CacheAssumption DEF CacheOK
<1>4. [tree[p] EXCEPT !.content = c] \in Tree
  BY <1>3 DEF Tree
<1>5. tree' \in [Place -> Tree] /\ \A x \in Place \ {p} : tree'[x] = tree[x]
  BY <1>2, <1>3, <1>4
<1>6. disturbed \subseteq disturbed' /\ (InUse(p) => p \in disturbed')
  BY <1>1 DEF Disturbs
<1>7. \A k \in Key : tree'[k] = tree[k]
  BY <1>3, <1>5, Values
<1>8. TreesKept
  <2>1. ASSUME NEW x \in Place, InUse(x), tree[x].there PROVE Unspoilt(x)
    BY <1>5, <1>6, <2>1 DEF Unspoilt
  <2>2. ASSUME NEW x \in Key, tree[x].there PROVE TornOnly(x)
    BY <1>7, <2>2 DEF TornOnly, Tearing
  <2>3. QED
    BY <1>6, <2>1, <2>2 DEF TreesKept
<1>9. CacheOK'
  BY <1>1, <1>5, <1>7 DEF CacheOK, Empty, Missing
<1>10. GcOK'
  BY <1>1 DEF IInv, GcOK, RootKeys
<1>11. QED
  BY <1>1, <1>8, <1>9, <1>10, OnlyRemoves

-----------------------------------------------------------------------------
(* The theorems.                                                           *)

LEMMA InitIInv == Init => IInv
<1> SUFFICES ASSUME Init PROVE IInv
  OBVIOUS
<1>1. PICK old \in Key \ Planned, c \in Results, vs \in SUBSET Validator,
           aliases \in SUBSET Planned, d \in Results :
        /\ vs # {} /\ vs \subseteq c.passes
        /\ object = {old} \cup aliases
        /\ manifest = [k \in Key |-> CASE k = old -> Published(old, c)
                                       [] k \in aliases -> LegacyAlias(old, c)
                                       [] OTHER -> None]
        /\ tree = [p \in Place |-> CASE p = old -> Immutable(c)
                                     [] p \in Outside ->
                                          [there |-> TRUE, writable |-> TRUE, content |-> d]
                                     [] OTHER -> NoTree]
        /\ certified = [k \in Key |-> IF k \in object THEN vs ELSE {}]
        /\ plan = [k \in Planned |-> IF k \in aliases THEN old ELSE k]
  BY Zenon DEF Init
<1>2. /\ c \in Content /\ d \in Content /\ c # Torn /\ old \in Place
      /\ old \notin aliases /\ aliases \subseteq Key /\ old \notin Outside
  BY Values, CacheAssumption DEF Results, Torn
<1>3. /\ manifest[old] = Published(old, c)
      /\ \A k \in aliases : manifest[k] = LegacyAlias(old, c)
      /\ \A k \in Key \ object : manifest[k] = None
  BY <1>1, <1>2
<1>4. tree[old] = Immutable(c) /\ \A k \in Key \ {old} : tree[k] = NoTree
  <2>1. \A k \in Key : k \in Place /\ k \notin Outside
    BY Values, CacheAssumption
  <2>2. QED
    BY <1>1, <1>2, <2>1
<1>5. CacheOK
  <2>1. Published(old, c) \in Manifest /\ LegacyAlias(old, c) \in Manifest
    BY <1>2 DEF Published, LegacyAlias, Manifest
  <2>2. manifest \in [Key -> Manifest \cup {None}]
    BY <1>1, <2>1
  <2>3. tree \in [Place -> Tree]
    <3>1. [there |-> TRUE, writable |-> TRUE, content |-> d] \in Tree
      BY <1>2 DEF Tree
    <3>2. QED
      BY <1>1, <1>2, <3>1, Values
  <2>4. \A k \in Key \ object : Empty(k)
    BY <1>1, <1>3, <1>4, Values DEF Empty, Missing
  <2>5. QED
    BY <1>1, <1>2, <2>2, <2>3, <2>4 DEF CacheOK
<1>6. ProcOK
  BY Values DEF Init, ProcOK
<1>7. GcOK
  BY <1>1, <1>2, Values DEF Init, GcOK
<1>8. ManifestInv
  <2> SUFFICES ASSUME NEW k \in Key, manifest[k] # None PROVE Sound(k, manifest[k])
    BY DEF ManifestInv
  <2>1. Holds(old, c)
    BY <1>4 DEF Holds, Immutable
  <2>2. CASE k = old
    BY <1>3, <2>1, <2>2 DEF Sound, Published
  <2>3. CASE k \in aliases
    BY <1>2, <1>3, <2>1, <2>3 DEF Sound, LegacyAlias
  <2>4. QED
    BY <1>1, <1>3, <2>2, <2>3
<1>9. CertificateInv
  <2> SUFFICES ASSUME NEW k \in Key, NEW v \in certified[k] PROVE Vouched(k, v)
    BY DEF CertificateInv
  <2>1. k \in object /\ v \in c.passes
    BY <1>1
  <2>2. manifest[k].digest = c
    BY <1>1, <1>3, <2>1 DEF Published, LegacyAlias
  <2>3. QED
    BY <2>1, <2>2 DEF Vouched
<1>10. \A q \in Proc : Knows(q)
  BY Values DEF Init, Knows
<1>11. QED
  BY <1>5, <1>6, <1>7, <1>8, <1>9, <1>10 DEF IInv

LEMMA StepIInv == IInv /\ [Next]_vars => IInv'
<1> SUFFICES ASSUME IInv, [Next]_vars PROVE IInv'
  OBVIOUS
<1>1. CASE \E q \in Proc, k \in Key, v \in Validator :
             StartsRun(q, k, v) \/ \E p \in Place : StartsImport(q, k, v, p)
  BY <1>1, StepStartsRun, StepStartsImport
<1>2. ASSUME NEW q \in Proc, RunLocks(q) \/ Dies(q) PROVE IInv'
  BY <1>2, StepRunLocks, StepDies
<1>3. ASSUME NEW q \in Proc, RunStep(q) PROVE IInv'
  BY <1>3, StepRunLooks, StepRunCommand, StepRunValidates, StepRunPublishes, StepRunChecks
     DEF RunStep
<1>4. ASSUME NEW q \in Proc, ImportStep(q) PROVE IInv'
  BY <1>4, StepImportLooks, StepImportPromotes, StepImportValidates, StepImportMakesObject,
     StepImportSeals DEF ImportStep
<1>5. ASSUME NEW q \in Proc, Revalidates(q) \/ Certifies(q) PROVE IInv'
  BY <1>5, StepRevalidates, StepCertifies
<1>6. CASE Plans \/ GcPlans \/ GcEnds
  BY <1>6, StepPlans, StepGcPlans, StepGcEnds
<1>7. CASE GcStep
  BY <1>7, StepGcApplies, StepGcRemovesPart, StepGcRemovesRest, StepGcTakes DEF GcStep
<1>8. ASSUME NEW p \in Outside, OwnerEdits(p) PROVE IInv'
  BY <1>8, StepOwnerEdits
<1>9. CASE UNCHANGED vars
  <2>1. UNCHANGED <<cache, history, lock, proc>> /\ UNCHANGED <<plan, gc>>
    BY <1>9 DEF vars
  <2>2. GcOK'
    BY <2>1 DEF IInv, GcOK, RootKeys
  <2>3. QED
    BY <2>1, <2>2, GcQuiet
<1>10. QED
  BY <1>1, <1>2, <1>3, <1>4, <1>5, <1>6, <1>7, <1>8, <1>9 DEF Next, ProcStep

LEMMA InvariantIInv == Spec => []IInv
  BY InitIInv, StepIInv, PTL DEF Spec

\* Every variable keeps its type, and an object that does not exist leaves no
\* manifest, output or certificate behind, through deaths at any step.
THEOREM TypeCorrect == Spec => []TypeOK
<1>1. IInv => TypeOK
  BY TypesImply DEF IInv
<1>2. QED
  BY <1>1, InvariantIInv, PTL

\* A managed checkpoint that is accepted on the modes of its tree holds what
\* its digest says, unless the tree was collected while another key's
\* checkpoint named it, or changed while a process was at work on it.
THEOREM ModesSuffice == Spec => []MetadataSuffices
<1>1. IInv => MetadataSuffices
  <2> SUFFICES ASSUME IInv, NEW k \in Key, Cached(k)
               PROVE  \/ tree[manifest[k].output_dir].content = manifest[k].digest
                      \/ manifest[k].output_dir \in disturbed
    BY DEF MetadataSuffices
  <2>1. Sound(k, manifest[k]) /\ manifest[k] \in Manifest
    BY DEF IInv, ManifestInv, CacheOK, Cached, Missing
  <2>2. ~(manifest[k].output_dir = k /\ Tearing(k))
    BY <2>1 DEF Cached, Accepted, Tearing, Sound, Manifest
  <2>3. Outside \cap Key = {}
    BY CacheAssumption
  <2>4. QED
    BY <2>1, <2>2, <2>3 DEF Sound, Holds, Cached, Accepted, Manifest
<1>2. QED
  BY <1>1, InvariantIInv, PTL

\* A certificate means that its validator accepts the payload that will be
\* reused, for keys that are not contested (published over another object or
\* with two processes at work on them) and payloads that are not disturbed
\* (changed between a process's look and its certificate, or collected while
\* another key's checkpoint named them).
THEOREM CertificatesHold == Spec => []CertificateMeansValidated
<1>1. IInv => CertificateMeansValidated
  <2> SUFFICES ASSUME IInv, NEW k \in Key, Cached(k), k \notin contested,
                      manifest[k].output_dir \notin disturbed, NEW v \in certified[k]
               PROVE  v \in tree[manifest[k].output_dir].content.passes
    BY DEF CertificateMeansValidated
  <2>1. Sound(k, manifest[k]) /\ manifest[k] \in Manifest
    BY DEF IInv, ManifestInv, CacheOK, Cached, Missing
  <2>2. ~(manifest[k].output_dir = k /\ Tearing(k))
    BY <2>1 DEF Cached, Accepted, Tearing, Sound, Manifest
  <2>3. v \in manifest[k].digest.passes
    BY DEF IInv, CertificateInv, Vouched, Cached
  <2>4. Outside \cap Key = {}
    BY CacheAssumption
  <2>5. QED
    BY <2>1, <2>2, <2>3, <2>4 DEF Sound, Holds, Cached, Accepted, Manifest
<1>2. QED
  BY <1>1, InvariantIInv, PTL

LEMMA CollectorSpares ==
  ASSUME IInv, GcStep, NEW k \in Planned, Cached(k), gc.at \in {"apply", "remove"},
         gc.recorded[k] = manifest[k].output_dir
  PROVE  Cached(k)'
<1>1. /\ CacheOK /\ GcOK /\ k \in Key /\ k \in RootKeys(gc.recorded)
      /\ manifest[k] \in Manifest
  BY Values DEF IInv, CacheOK, RootKeys, Cached, Missing
<1>2. PICK o \in Place : o = manifest[k].output_dir
  BY <1>1 DEF Manifest
<1>3. o \in Key => o \in RootKeys(gc.recorded)
  BY <1>2 DEF RootKeys
<1>4. ASSUME NEW x \in Key \ RootKeys(gc.recorded) PROVE x # k /\ x # o
  BY <1>1, <1>3
<1>5. ASSUME manifest'[k] = manifest[k], tree'[o] = tree[o] PROVE Cached(k)'
  BY <1>2, <1>5 DEF Cached, Missing, Accepted
<1>6. ASSUME NEW c \in gc.candidates, GcTakes(c) PROVE Cached(k)'
  <2>1. manifest'[k] = manifest[k]
    BY <1>6 DEF GcTakes
  <2>2. c.key \in Key
    BY <1>1 DEF GcOK, GcState
  <2>3. tree'[o] = tree[o]
    <3>1. CASE UNCHANGED tree
      BY <3>1
    <3>2. CASE c.key \notin RootKeys(gc.recorded) /\ tree' = [tree EXCEPT ![c.key].writable = TRUE]
      BY <1>1, <1>4, <2>2, <3>2 DEF CacheOK
    <3>3. QED
      BY <1>6, <3>1, <3>2 DEF GcTakes
  <2>4. QED
    BY <1>5, <2>1, <2>3
<1>7. ASSUME gc.at = "remove" PROVE gc.removing \in Key /\ gc.removing # k /\ gc.removing # o
  BY <1>1, <1>4, <1>7 DEF GcOK
<1>8. CASE GcRemovesPart
  <2>1. gc.removing \in Key /\ gc.removing # k /\ gc.removing # o
    BY <1>7, <1>8 DEF GcRemovesPart
  <2>2. manifest'[k] = manifest[k] /\ tree'[o] = tree[o]
    BY <1>1, <1>8, <2>1 DEF GcRemovesPart, CacheOK
  <2>3. QED
    BY <1>5, <2>2
<1>9. CASE GcRemovesRest
  <2>1. gc.removing \in Key /\ gc.removing # k /\ gc.removing # o
    BY <1>7, <1>9 DEF GcRemovesRest
  <2>2. manifest'[k] = manifest[k] /\ tree'[o] = tree[o]
    BY <1>1, <1>9, <2>1 DEF GcRemovesRest, CacheOK, cache
  <2>3. QED
    BY <1>5, <2>2
<1>10. QED
  BY <1>6, <1>8, <1>9 DEF GcStep, GcApplies

\* The collector breaks no checkpoint of a root plan that had recorded where
\* its payload is when the collector read it, whatever runs, imports and edits
\* go on around it.
THEOREM CollectorKeepsRoots == Spec => RootsKept
<1>1. IInv /\ [Next]_vars =>
        [\A k \in Planned :
           GcStep /\ Cached(k) /\ gc.at \in {"apply", "remove"}
                  /\ gc.recorded[k] = manifest[k].output_dir
             => Cached(k)']_vars
  BY CollectorSpares
<1>2. QED
  BY <1>1, InvariantIInv, PTL DEF Spec, RootsKept
=============================================================================
