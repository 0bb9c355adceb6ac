-------------------------- MODULE ExperimentCache --------------------------
(***************************************************************************)
(* The experiment cache: objects/<key> directories that worker processes   *)
(* fill by executing a node (run_experiment_node, under a lock per key) or *)
(* by importing a finished result (import_experiment_checkpoint, without   *)
(* the lock), that plans record as roots, and that the garbage collector   *)
(* removes (plan_experiment_gc, apply_experiment_gc, without a lock).      *)
(*                                                                         *)
(* An object holds checkpoint.json, output/ and validations/.  The payload *)
(* of a checkpoint is its own output/, the output/ of another object (an   *)
(* alias) or a tree outside the cache.  Of a payload the model keeps which *)
(* validators accept it and whether it is whole.  Nodes have no            *)
(* dependencies here, and processes may die at every step.                 *)
(***************************************************************************)
EXTENDS Naturals, FiniteSets

CONSTANTS
  Key,         \* execution keys
  Outside,     \* result trees outside the cache
  Validator,   \* validators, named by their validation keys
  Planned,     \* the execution keys of the plan that is kept as GC root
  Proc,        \* processes that run or import nodes
  MaxOps,      \* bound: operations the processes start
  MaxGc,       \* bound: garbage collection plans
  None

ASSUME CacheAssumption ==
  /\ Planned \subseteq Key /\ Key \cap Outside = {}
  /\ MaxOps \in Nat /\ MaxGc \in Nat /\ None \notin Key \cup Outside \cup Proc

Place == Key \cup Outside

\* What an output tree holds.  Nothing accepts a tree that lost files.
Content == [whole : BOOLEAN, passes : SUBSET Validator]
Torn == [whole |-> FALSE, passes |-> {}]
Results == {c \in Content : c.whole}

Tree == [there : BOOLEAN, writable : BOOLEAN, content : Content]
NoTree == [there |-> FALSE, writable |-> TRUE, content |-> Torn]
Immutable(c) == [there |-> TRUE, writable |-> FALSE, content |-> c]

Manifest == [output_dir : Place, storage : {"managed", "external-validated"},
             digest : Content]

VARIABLES
  object,      \* the keys whose objects/<key> directory exists
  manifest,    \* objects/<key>/checkpoint.json, or None
  tree,        \* objects/<key>/output and the outside trees
  certified,   \* objects/<key>/validations
  lock,        \* locks/<key>.lock: the process that holds it, or None
  proc,        \* what each process is doing
  plan,        \* the root plan: the output_dir recorded for each key
  gc,          \* the collector
  ops, gcs,    \* how many operations and collections were started
  contested,   \* history: keys published while others worked on them
  disturbed    \* history: trees that changed while they were in use

cache == <<object, manifest, tree, certified>>
history == <<contested, disturbed>>
vars == <<cache, lock, proc, plan, gc, ops, gcs, history>>

Stages == {"idle", "lock", "look", "command", "validator", "publish",
           "check", "revalidate", "promote", "source", "object", "seal",
           "certify"}
Idle == [at |-> "idle", op |-> "run", key |-> None, validator |-> None,
         from |-> None, content |-> Torn, existing |-> None]

-----------------------------------------------------------------------------
(* Reading the cache.                                                      *)

\* As Accepted, when the modes of a managed tree are not looked at.
AcceptedUnseen(m) ==
  /\ tree[m.output_dir].there
  /\ m.storage = "managed" \/ tree[m.output_dir].content = m.digest

\* A managed checkpoint is judged by the modes of its tree, another one by
\* its digests.
Accepted(m) ==
  /\ tree[m.output_dir].there
  /\ IF m.storage = "managed" THEN ~tree[m.output_dir].writable
                              ELSE tree[m.output_dir].content = m.digest

\* _cached_checkpoint returns None, returns the checkpoint, or raises.
Missing(k) == manifest[k] = None
Cached(k) == ~Missing(k) /\ Accepted(manifest[k])
Broken(k) == ~Missing(k) /\ ~Accepted(manifest[k])

WorkingOn(k) == {q \in Proc : proc[q].key = k}

\* A process has looked at the tree and not yet said what it found, or, in the
\* cache, another key's checkpoint names it.
InUse(p) ==
  \/ \E q \in Proc : /\ proc[q].from = p
                     /\ proc[q].at \in {"revalidate", "promote", "object",
                                       "seal", "certify"}
  \/ p \in Key /\ \E k \in Key : k # p /\ ~Missing(k) /\ manifest[k].output_dir = p

Disturbs(p) == disturbed' = IF InUse(p) THEN disturbed \cup {p} ELSE disturbed

\* The object's directory holds nothing, or does not exist.
Empty(k) == Missing(k) /\ certified[k] = {} /\ ~tree[k].there

\* k is published over what is there, or while another process works on it.
Publishes(q, k) ==
  contested' = IF ~Empty(k) \/ WorkingOn(k) # {q} THEN contested \cup {k}
                                                  ELSE contested

-----------------------------------------------------------------------------
(* Processes.  Leaving the function, by return, exception or death, gives  *)
(* the lock back.                                                          *)

Unlocked(q) == [k \in Key |-> IF lock[k] = q THEN None ELSE lock[k]]

Leaves(q) == proc' = [proc EXCEPT ![q] = Idle] /\ lock' = Unlocked(q)
Goes(q, stage) == proc' = [proc EXCEPT ![q].at = stage] /\ UNCHANGED lock
GoesWith(q, stage, p) ==
  proc' = [proc EXCEPT ![q].at = stage, ![q].from = p] /\ UNCHANGED lock
KeepsCache == UNCHANGED <<cache, history>>
OutsideProc == <<plan, gc, gcs>>

StartsRun(q, k, v) ==
  /\ proc[q].at = "idle" /\ ops < MaxOps
  /\ proc' = [proc EXCEPT ![q] = [Idle EXCEPT !.at = "lock", !.key = k,
                                              !.validator = v]]
  /\ ops' = ops + 1
  /\ UNCHANGED lock /\ KeepsCache /\ UNCHANGED OutsideProc

StartsImport(q, k, v, p) ==
  /\ proc[q].at = "idle" /\ ops < MaxOps
  /\ proc' = [proc EXCEPT ![q] = [Idle EXCEPT !.at = "look", !.op = "import",
                        !.key = k, !.validator = v, !.from = p]]
  /\ ops' = ops + 1
  /\ UNCHANGED lock /\ KeepsCache /\ UNCHANGED OutsideProc

RunLocks(q) ==
  /\ proc[q].at = "lock" /\ lock[proc[q].key] = None
  /\ lock' = [lock EXCEPT ![proc[q].key] = q]
  /\ proc' = [proc EXCEPT ![q].at = "look"]
  /\ KeepsCache /\ UNCHANGED ops /\ UNCHANGED OutsideProc

\* An existing checkpoint is reused or revalidated; a broken one, and an
\* object without a checkpoint, are refused; otherwise the node is executed.
RunLooks(q) ==
  LET k == proc[q].key IN
  /\ proc[q].at = "look" /\ proc[q].op = "run"
  /\ \/ Broken(k) /\ Leaves(q)
     \/ Cached(k) /\ proc[q].validator \in certified[k] /\ Leaves(q)
     \/ /\ Cached(k) /\ proc[q].validator \notin certified[k]
        /\ GoesWith(q, "revalidate", manifest[k].output_dir)
     \/ Missing(k) /\ k \in object /\ Leaves(q)
     \/ Missing(k) /\ k \notin object /\ Goes(q, "command")
  /\ KeepsCache /\ UNCHANGED ops /\ UNCHANGED OutsideProc

\* The command writes into the process's staging directory.
RunCommand(q) ==
  /\ proc[q].at = "command"
  /\ \/ \E c \in Results :
          /\ proc' = [proc EXCEPT ![q].at = "validator", ![q].content = c]
          /\ UNCHANGED lock
     \/ Leaves(q)
  /\ KeepsCache /\ UNCHANGED ops /\ UNCHANGED OutsideProc

RunValidates(q) ==
  /\ proc[q].at = "validator"
  /\ IF proc[q].validator \in proc[q].content.passes THEN Goes(q, "publish")
                                                     ELSE Leaves(q)
  /\ KeepsCache /\ UNCHANGED ops /\ UNCHANGED OutsideProc

InPlace(q, k) ==
  /\ object' = object \cup {k}
  /\ manifest' = [manifest EXCEPT ![k] =
       [output_dir |-> k, storage |-> "managed", digest |-> proc[q].content]]
  /\ tree' = [tree EXCEPT ![k] = Immutable(proc[q].content)]
  /\ UNCHANGED certified /\ Publishes(q, k) /\ UNCHANGED disturbed

\* Manifest and immutable output are ready in staging: one rename publishes
\* them.  It takes the place of no directory or of an empty one, and raises
\* when the object has come to be.
RunPublishes(q) ==
  LET k == proc[q].key IN
  /\ proc[q].at = "publish"
  /\ \/ Empty(k) /\ InPlace(q, k) /\ Goes(q, "check")
     \/ ~Empty(k) /\ KeepsCache /\ Leaves(q)
  /\ UNCHANGED ops /\ UNCHANGED OutsideProc

RunChecks(q) ==
  /\ proc[q].at = "check"
  /\ IF Cached(proc[q].key) THEN Goes(q, "certify") ELSE Leaves(q)
  /\ KeepsCache /\ UNCHANGED ops /\ UNCHANGED OutsideProc

\* As Revalidates, with the validator's exit code ignored.
RevalidatesBlindly(q) ==
  /\ proc[q].at = "revalidate" /\ Goes(q, "certify")
  /\ KeepsCache /\ UNCHANGED ops /\ UNCHANGED OutsideProc

\* The validator over the payload that was found, for both operations.
Revalidates(q) ==
  LET t == tree[proc[q].from] IN
  /\ proc[q].at = "revalidate"
  /\ IF t.there /\ proc[q].validator \in t.content.passes
     THEN Goes(q, "certify") ELSE Leaves(q)
  /\ KeepsCache /\ UNCHANGED ops /\ UNCHANGED OutsideProc

\* _seal_validation makes the directories it needs; then the report.
Certifies(q) ==
  LET k == proc[q].key IN
  /\ proc[q].at = "certify"
  /\ object' = object \cup {k}
  /\ certified' = [certified EXCEPT ![k] = @ \cup {proc[q].validator}]
  /\ Leaves(q)
  /\ UNCHANGED <<manifest, tree, history, ops>> /\ UNCHANGED OutsideProc

-----------------------------------------------------------------------------
(* import_experiment_checkpoint.                                           *)

\* An external checkpoint of a tree inside the cache is promoted first.
ImportLooks(q) ==
  LET k == proc[q].key IN
  /\ proc[q].at = "look" /\ proc[q].op = "import"
  /\ \/ Broken(k) /\ Leaves(q)
     \/ /\ Cached(k) /\ manifest[k].storage = "external-validated"
        /\ manifest[k].output_dir \in Key
        /\ proc' = [proc EXCEPT ![q].at = "promote", ![q].existing = manifest[k],
                                ![q].from = manifest[k].output_dir]
        /\ UNCHANGED lock
     \/ /\ Cached(k)
        /\ manifest[k].storage = "managed" \/ manifest[k].output_dir \in Outside
        /\ IF proc[q].validator \in certified[k] THEN Leaves(q)
           ELSE GoesWith(q, "revalidate", manifest[k].output_dir)
     \/ Missing(k) /\ Goes(q, "source")
  /\ KeepsCache /\ UNCHANGED ops /\ UNCHANGED OutsideProc

\* The tree is made immutable and the manifest that was read is written back
\* as a managed one, which is then checked.
ImportPromotes(q) ==
  LET k == proc[q].key
      p == proc[q].from
  IN
  /\ proc[q].at = "promote"
  /\ \/ /\ tree[p].there /\ ~Missing(k)
        /\ tree' = [tree EXCEPT ![p].writable = FALSE]
        /\ manifest' = [manifest EXCEPT ![k] =
                          [proc[q].existing EXCEPT !.storage = "managed"]]
        /\ IF proc[q].validator \in certified[k] THEN Leaves(q)
                                                 ELSE Goes(q, "revalidate")
        /\ UNCHANGED <<object, certified, history>>
     \/ (~tree[p].there \/ Missing(k)) /\ KeepsCache /\ Leaves(q)
  /\ UNCHANGED ops /\ UNCHANGED OutsideProc

ImportValidates(q) ==
  LET t == tree[proc[q].from] IN
  /\ proc[q].at = "source"
  /\ IF t.there /\ proc[q].validator \in t.content.passes
     THEN Goes(q, "object") ELSE Leaves(q)
  /\ KeepsCache /\ UNCHANGED ops /\ UNCHANGED OutsideProc

\* A tree inside the cache is made immutable; the object's directory is made.
ImportMakesObject(q) ==
  LET p == proc[q].from IN
  /\ proc[q].at = "object"
  /\ IF p \in Key /\ ~tree[p].there
     THEN KeepsCache /\ Leaves(q)
     ELSE /\ object' = object \cup {proc[q].key}
          /\ Publishes(q, proc[q].key)
          /\ tree' = IF p \in Key THEN [tree EXCEPT ![p].writable = FALSE] ELSE tree
          /\ Goes(q, "seal") /\ UNCHANGED <<manifest, certified, disturbed>>
  /\ UNCHANGED ops /\ UNCHANGED OutsideProc

\* Digests, manifest and its check; whatever manifest is there is replaced.
ImportSeals(q) ==
  LET p == proc[q].from
      m == [output_dir |-> p, digest |-> tree[p].content,
            storage |-> IF p \in Key THEN "managed" ELSE "external-validated"]
  IN
  /\ proc[q].at = "seal"
  /\ IF ~tree[p].there THEN KeepsCache /\ Leaves(q)
     ELSE /\ object' = object \cup {proc[q].key}
          /\ manifest' = [manifest EXCEPT ![proc[q].key] = m]
          /\ Publishes(q, proc[q].key)
          /\ IF Accepted(m) THEN Goes(q, "certify") ELSE Leaves(q)
          /\ UNCHANGED <<tree, certified, disturbed>>
  /\ UNCHANGED ops /\ UNCHANGED OutsideProc

Dies(q) ==
  /\ proc[q].at # "idle" /\ Leaves(q)
  /\ KeepsCache /\ UNCHANGED ops /\ UNCHANGED OutsideProc

-----------------------------------------------------------------------------
(* Plans and garbage collection.                                           *)

\* A broken checkpoint makes plan_experiment raise.
Plans ==
  /\ \A k \in Planned : ~Broken(k)
  /\ plan' = [k \in Planned |-> IF Cached(k) THEN manifest[k].output_dir ELSE k]
  /\ UNCHANGED <<cache, lock, proc, gc, ops, gcs, history>>

\* As RootKeys, with the payloads of aliases forgotten.
ExecutionKeys(recorded) == Planned

\* The keys of the plan, and the objects in which it saw their payloads.
RootKeys(recorded) == Planned \cup (Key \cap {recorded[k] : k \in Planned})

\* What the digest of objects/<key> covers: names and bytes, no modes.
Digest(k) == [manifest |-> manifest[k], certified |-> certified[k],
              output |-> [there |-> tree[k].there, content |-> tree[k].content]]

GcIdle == [at |-> "idle", candidates |-> {}, removing |-> None,
           recorded |-> [k \in Planned |-> k]]

GcPlans ==
  /\ gc.at = "idle" /\ gcs < MaxGc
  /\ gc' = [GcIdle EXCEPT !.at = "planned",
       !.candidates = {[key |-> k, digest |-> Digest(k)] :
                         k \in object \ RootKeys(plan)}]
  /\ gcs' = gcs + 1
  /\ UNCHANGED <<cache, lock, proc, plan, ops, history>>

\* The approved plan is applied: the root plans are read again.
GcApplies ==
  /\ gc.at = "planned"
  /\ gc' = [gc EXCEPT !.at = "apply", !.recorded = plan]
  /\ UNCHANGED <<cache, lock, proc, plan, ops, gcs, history>>

\* A candidate that is referenced now or has changed stops the collection;
\* another one is made writable.
GcTakes(c) ==
  /\ gc.at = "apply" /\ c \in gc.candidates
  /\ IF c.key \in RootKeys(gc.recorded) \/ c.digest # Digest(c.key)
     THEN gc' = GcIdle /\ UNCHANGED tree
     ELSE /\ gc' = [gc EXCEPT !.at = "remove", !.removing = c.key,
                              !.candidates = @ \ {c}]
          /\ tree' = [tree EXCEPT ![c.key].writable = TRUE]
  /\ UNCHANGED <<object, manifest, certified, lock, proc, plan, ops, gcs, history>>

\* rmtree has removed a part, whichever comes first.
GcRemovesPart ==
  LET k == gc.removing IN
  /\ gc.at = "remove"
  /\ \/ /\ tree[k].there /\ tree[k].writable /\ tree[k].content # Torn
        /\ tree' = [tree EXCEPT ![k].content = Torn]
        /\ Disturbs(k) /\ UNCHANGED <<manifest, certified>>
     \/ /\ ~Missing(k) /\ manifest' = [manifest EXCEPT ![k] = None]
        /\ UNCHANGED <<tree, certified, disturbed>>
     \/ /\ certified[k] # {} /\ certified' = [certified EXCEPT ![k] = {}]
        /\ UNCHANGED <<tree, manifest, disturbed>>
  /\ UNCHANGED <<object, lock, proc, plan, gc, ops, gcs, contested>>

\* As GcRemovesRest, with the validations left behind.
GcKeepsValidations ==
  /\ gc.at = "remove"
  /\ object' = object \ {gc.removing}
  /\ manifest' = [manifest EXCEPT ![gc.removing] = None]
  /\ tree' = [tree EXCEPT ![gc.removing] = NoTree]
  /\ gc' = [gc EXCEPT !.at = "apply", !.removing = None]
  /\ Disturbs(gc.removing)
  /\ UNCHANGED <<certified, lock, proc, plan, ops, gcs, contested>>

\* The rest goes, unless the output has been made immutable again.
GcRemovesRest ==
  LET k == gc.removing IN
  /\ gc.at = "remove"
  /\ IF tree[k].there /\ ~tree[k].writable
     THEN gc' = GcIdle /\ UNCHANGED <<cache, disturbed>>
     ELSE /\ object' = object \ {k}
          /\ manifest' = [manifest EXCEPT ![k] = None]
          /\ certified' = [certified EXCEPT ![k] = {}]
          /\ tree' = [tree EXCEPT ![k] = NoTree]
          /\ Disturbs(k)
          /\ gc' = [gc EXCEPT !.at = "apply", !.removing = None]
  /\ UNCHANGED <<lock, proc, plan, ops, gcs, contested>>

\* The receipt is written, or the collector dies.
GcEnds ==
  /\ gc.at # "idle" /\ gc' = GcIdle
  /\ UNCHANGED <<cache, lock, proc, plan, ops, gcs, history>>

\* The owner of a tree outside the cache rewrites it.
OwnerEdits(p) ==
  /\ \E c \in Results \ {tree[p].content} :
       tree' = [tree EXCEPT ![p].content = c]
  /\ Disturbs(p)
  /\ UNCHANGED <<object, manifest, certified, lock, proc, plan, gc, ops, gcs, contested>>

-----------------------------------------------------------------------------
\* One checkpoint of an earlier experiment, certified by some validators that
\* accept it; the other keys are absent or, from before promotion was
\* introduced, external aliases of it.
Published(k, c) == [output_dir |-> k, storage |-> "managed", digest |-> c]
LegacyAlias(k, c) == [output_dir |-> k, storage |-> "external-validated",
                      digest |-> c]

Init ==
  /\ \E old \in Key \ Planned, c \in Results, vs \in SUBSET Validator,
        aliases \in SUBSET Planned, d \in Results :
       /\ vs # {} /\ vs \subseteq c.passes
       /\ object = {old} \cup aliases
       /\ manifest = [k \in Key |-> CASE k = old -> Published(old, c)
                                      [] k \in aliases -> LegacyAlias(old, c)
                                      [] OTHER -> None]
       /\ tree = [p \in Place |-> CASE p = old -> Immutable(c)
                                    [] p \in Outside ->
                                         [there |-> TRUE, writable |-> TRUE,
                                          content |-> d]
                                    [] OTHER -> NoTree]
       /\ certified = [k \in Key |-> IF k \in object THEN vs ELSE {}]
       /\ plan = [k \in Planned |-> IF k \in aliases THEN old ELSE k]
  /\ lock = [k \in Key |-> None]
  /\ proc = [q \in Proc |-> Idle]
  /\ gc = GcIdle
  /\ ops = 0 /\ gcs = 0
  /\ contested = {} /\ disturbed = {}

RunStep(q) ==
  \/ RunLooks(q) \/ RunCommand(q) \/ RunValidates(q) \/ RunPublishes(q)
  \/ RunChecks(q)

ImportStep(q) ==
  \/ ImportLooks(q) \/ ImportPromotes(q) \/ ImportValidates(q)
  \/ ImportMakesObject(q) \/ ImportSeals(q)

ProcStep(q) == RunStep(q) \/ ImportStep(q) \/ Revalidates(q) \/ Certifies(q)

GcStep ==
  \/ GcApplies \/ GcRemovesPart \/ GcRemovesRest
  \/ \E c \in gc.candidates : GcTakes(c)

Next ==
  \/ \E q \in Proc, k \in Key, v \in Validator :
       StartsRun(q, k, v) \/ \E p \in Place : StartsImport(q, k, v, p)
  \/ \E q \in Proc : RunLocks(q) \/ ProcStep(q) \/ Dies(q)
  \/ Plans
  \/ GcPlans \/ GcStep \/ GcEnds
  \/ \E p \in Outside : OwnerEdits(p)

Spec == Init /\ [][Next]_vars

-----------------------------------------------------------------------------
(* Properties.                                                             *)

\* Types.  What an object that does not exist holds is gone with it: the
\* collector's rmtree leaves no manifest, output or certificate behind.
TypeOK ==
  /\ object \subseteq Key
  /\ manifest \in [Key -> Manifest \cup {None}]
  /\ tree \in [Place -> Tree]
  /\ certified \in [Key -> SUBSET Validator]
  /\ lock \in [Key -> Proc \cup {None}]
  /\ \A q \in Proc : /\ proc[q].at \in Stages
                     /\ proc[q].key \in Key \cup {None}
                     /\ proc[q].from \in Place \cup {None}
                     /\ proc[q].content \in Content
                     /\ proc[q].existing \in Manifest \cup {None}
  /\ plan \in [Planned -> Place]
  /\ gc.at \in {"idle", "planned", "apply", "remove"}
  /\ \A k \in Key \ object : Empty(k)

\* Managed checkpoints are accepted on the modes of their trees, with no look
\* at the bytes.  What is accepted is nevertheless what was sealed, through
\* crashes and interrupted collections.  Two cases are left out: a tree that
\* was collected while another key's checkpoint named it, and one that was
\* edited or collected while a process was at work on it.
MetadataSuffices ==
  \A k \in Key : Cached(k) =>
    \/ tree[manifest[k].output_dir].content = manifest[k].digest
    \/ manifest[k].output_dir \in disturbed

\* A certificate means that its validator accepts the payload that will be
\* reused, through crashes, revalidation, promotion and edits of an outside
\* tree after it was sealed.  Left out are contested keys, published over
\* another object or by one of two processes at work on them, and disturbed
\* payloads: edited or collected between a process's look at them and its
\* certificate, or collected while another key's checkpoint named them.  The
\* code promises nothing of those, as it takes no lock there.
CertificateMeansValidated ==
  \A k \in Key : Cached(k) =>
    \/ certified[k] \subseteq tree[manifest[k].output_dir].content.passes
    \/ k \in contested
    \/ manifest[k].output_dir \in disturbed

\* The collector breaks no checkpoint of a root plan that recorded where its
\* payload is, with runs, imports and edits going on around it.  The record
\* counts as the collector read it when it began to apply: a plan made later
\* does not protect its payload.
RootsKept ==
  [][\A k \in Planned :
       GcStep /\ Cached(k) /\ gc.at \in {"apply", "remove"}
              /\ gc.recorded[k] = manifest[k].output_dir
         => Cached(k)']_vars

\* "Both names are live roots": the collector leaves every checkpoint of a
\* root plan usable.
BothNamesLive ==
  [][\A k \in Planned : GcStep /\ gc.at \in {"apply", "remove"} /\ Cached(k)
       => Cached(k)']_vars
=============================================================================
