----------------------- MODULE ValidationFarm_proofs ------------------------
(***************************************************************************)
(* The validation farm is safe for any number of tasks, launchers,         *)
(* reconcilers, workers and slots.  Launch and retirement exclude each     *)
(* other by launch.lock (LockInv), the workers at their commands by the    *)
(* slot locks (SlotInv, CommandInv), and attempts by the attempt           *)
(* directories (PidInv, DirInv); as long as SSH has not failed, a state    *)
(* file that permits a retry of the newest attempt names a task that no    *)
(* worker has (RetryInv).                                                  *)
(***************************************************************************)
EXTENDS ValidationFarm, FiniteSetTheorems, TLAPS

\* Who holds launch.lock, and what the retirement has done under it.
LockInv ==
  /\ \A l \in Launcher : launch[l] \in {"locked", "submitting"} => launch_lock = l
  /\ retire \in {"locked", "marked"} => launch_lock = Retirer
  /\ retirement_marker <=> retire \in {"marked", "released"}
  /\ \A l \in Launcher : launch[l] = "submitting" => ~retirement_marker
  /\ \A l \in Launcher : \A t \in Task :
       submission[l][t].at # "done" => launch[l] = "submitting"

\* A worker has a slot from the moment it gets one until it ends, and no two
\* workers have the same.
SlotInv ==
  /\ \A p \in Pid : worker[p].at \in {"holding", "running", "ended", "reported"}
                      => worker[p].slot # 0
  /\ \A p, q \in Pid : p # q /\ worker[p].slot # 0 => worker[p].slot # worker[q].slot

\* A command runs under its worker or has lost it.
CommandInv == \A p \in Pid : worker[p].command => worker[p].at \in {"running", "gone"}

\* Pids are given out in order.
PidInv == \E n \in 0..MaxWorkers : \A p \in Pid : worker[p].at # "unborn" <=> p <= n

\* The attempt directories of t, if they exist up to number a.
Newest(t, a) == a + 1 \notin attempt_dirs[t]
Made(t, a) == a \in {0} \cup attempt_dirs[t]

\* The attempt directories of a task are numbered from one without holes and
\* each was made by a worker of its own; every attempt number that is written
\* down anywhere is that of a directory.
DirInv ==
  /\ \A t \in Task : \E m \in 0..MaxWorkers : attempt_dirs[t] = 1..m
  /\ \A p \in Pid : Ran(p) => /\ worker[p].task \in Task
                              /\ worker[p].attempt \in attempt_dirs[worker[p].task]
  /\ \A t \in Task : \A a \in attempt_dirs[t] :
       \E p \in Pid : worker[p].task = t /\ worker[p].attempt = a
  /\ \A p \in Pid : /\ worker[p].at \in {"unborn", "starting"} => ~Ran(p)
                    /\ worker[p].at \notin {"unborn", "starting", "gone"} => Ran(p)
                    /\ worker[p].at # "unborn" => worker[p].task \in Task
                    /\ worker[p].beating => Ran(p)
                    /\ worker[p].at = "ended" => worker[p].result # "none"
  /\ \A t \in Task : Made(t, state[t].attempt)
  /\ \A l \in Launcher : \A t \in Task : Made(t, submission[l][t].previous.attempt)
  /\ \A r \in Reconciler : Made(reconcile[r].task, reconcile[r].read.attempt)

\* A leased state names the worker of its attempt.
Owns(p, t, a) == p \in Pid /\ worker[p].task = t /\ worker[p].attempt = a /\ Ran(p)

LeaseInv ==
  /\ \A t \in Task : state[t].status \in {"waiting_for_slot", "running"}
                       => Owns(state[t].pid, t, state[t].attempt)
  /\ \A r \in Reconciler : reconcile[r].at # "idle"
       => Owns(reconcile[r].read.pid, reconcile[r].task, reconcile[r].read.attempt)

\* A retry of attempt a of t disturbs nobody.
Safe(t, a) == Newest(t, a) => \A p \in Pid : Working(p) => worker[p].task # t

\* The statuses from which a worker may start, at once or after a launch.
Open == {"prepared", "blocked_storage", "submitting", "submit_failed", "retryable"}

RetryInv ==
  /\ \A p \in Pid : Working(p) => Newest(worker[p].task, worker[p].attempt)
  /\ \A t \in Task : state[t].status \in Open => Safe(t, state[t].attempt)
  /\ \A l \in Launcher : \A t \in Task :
       submission[l][t].at \notin {"done", "todo"}
         => Safe(t, submission[l][t].previous.attempt)
  /\ \A r \in Reconciler : reconcile[r].at = "absent"
       => Safe(reconcile[r].task, reconcile[r].read.attempt)

IInv ==
  /\ TypeOK
  /\ LockInv
  /\ SlotInv
  /\ CommandInv
  /\ PidInv
  /\ DirInv
  /\ AttemptDirOwned
  /\ LeaseInv
  /\ ssh_failures = 0 => RetryInv

-----------------------------------------------------------------------------
(* Launch and retirement.                                                  *)

LaunchVars == <<launch_lock, launch, retire, retirement_marker, submission>>

LEMMA LaunchLockInv ==
  ASSUME TypeOK, LockInv, NEW l \in Launcher, LaunchStep(l) \/ LaunchCrash(l)
  PROVE  LockInv'
<1> USE FarmAssumption DEF LockInv
<1>1. CASE LaunchCheck(l)
  BY <1>1 DEF LaunchCheck, TypeOK
<1>2. CASE LaunchLock(l)
  BY <1>2 DEF LaunchLock, TypeOK
<1>3. CASE LaunchRefused(l)
  BY <1>3 DEF LaunchRefused, TypeOK
<1>4. CASE LaunchBlocked(l)
  BY <1>4 DEF LaunchBlocked, TypeOK
<1>5. CASE LaunchSubmits(l)
  BY <1>5 DEF LaunchSubmits, TypeOK
<1>6. CASE LaunchDone(l)
  BY <1>6 DEF LaunchDone, TypeOK
<1>7. CASE LaunchCrash(l)
  BY <1>7 DEF LaunchCrash, TypeOK, NotSubmitting
<1>8. QED
  BY <1>1, <1>2, <1>3, <1>4, <1>5, <1>6, <1>7 DEF LaunchStep

\* A thread of a launcher that is not submitting takes no step.
LEMMA SubmitLockInv ==
  ASSUME TypeOK, LockInv, NEW l \in Launcher, NEW t \in Task, SubmitStep(l, t)
  PROVE  LockInv'
<1>1. launch[l] = "submitting"
  BY DEF LockInv, SubmitStep, At, SubmitRead, SubmitClaim, SubmitWrite, SshStarts,
         SshFails, SubmitFailed
<1>2. /\ UNCHANGED <<launch_lock, launch, retire, retirement_marker>>
      /\ \A m \in Launcher : m # l => submission'[m] = submission[m]
  BY DEF SubmitStep, SubmitRead, SubmitClaim, SubmitWrite, SshStarts, SshFails,
         SubmitFailed, Goto, Finished, TypeOK
<1>3. QED
  BY <1>1, <1>2 DEF LockInv

LEMMA RetireLockInv ==
  ASSUME TypeOK, LockInv, RetireLocks \/ RetireMarks \/ RetireReleases
  PROVE  LockInv'
<1> USE FarmAssumption DEF LockInv, OutsideRetire
<1>1. CASE RetireLocks
  BY <1>1 DEF RetireLocks
<1>2. CASE RetireMarks
  BY <1>2 DEF RetireMarks
<1>3. CASE RetireReleases
  BY <1>3 DEF RetireReleases
<1>4. QED
  BY <1>1, <1>2, <1>3

\* Workers, reconcilers and time leave the launch and the retirement alone.
OtherStep ==
  \/ \E p \in Pid : \/ WorkerStep(p) \/ WorkerKilled(p) \/ OrphanEnds(p)
                    \/ HeartbeatDue(p) \/ HeartbeatWrites(p)
  \/ \E t \in Task : LeaseExpires(t)
  \/ \E r \in Reconciler, t \in Task : ReconcileReads(r, t)
  \/ \E r \in Reconciler :
       ProbeAnswers(r) \/ ProbeFails(r) \/ ReconcileWrites(r)

LEMMA OtherLockInv ==
  ASSUME LockInv, OtherStep \/ UNCHANGED vars
  PROVE  LockInv'
<1>1. UNCHANGED LaunchVars
  BY DEF OtherStep, LaunchVars, WorkerStep, WorkerKilled, OrphanEnds, HeartbeatDue,
         HeartbeatWrites, WorkerStarts, WorkerWaits, AcquireSlot, WorkerRuns,
         CommandEnds, WorkerReports, WorkerExits, LeaseExpires, ReconcileReads,
         ProbeAnswers, ProbeFails, ReconcileWrites, OutsideWorker,
         OutsideReconcile, vars
<1>2. QED
  BY <1>1 DEF LockInv, LaunchVars

LEMMA StepLockInv == TypeOK /\ LockInv /\ [Next]_vars => LockInv'
  BY LaunchLockInv, SubmitLockInv, RetireLockInv, OtherLockInv
     DEF Next, OtherStep

-----------------------------------------------------------------------------
(* Pids, slots and attempt directories.                                    *)

\* A new worker takes a pid that no worker had.
LEMMA FreshPid ==
  ASSUME TypeOK, PidInv, CanStart
  PROVE  /\ NextPid \in Pid /\ worker[NextPid].at = "unborn"
         /\ \E n \in 1..MaxWorkers :
              \A p \in Pid : worker[p].at # "unborn" \/ p = NextPid <=> p <= n
<1>1. PICK n \in 0..MaxWorkers : \A p \in Pid : worker[p].at # "unborn" <=> p <= n
  BY DEF PidInv
<1>2. {p \in Pid : worker[p].at # "unborn"} = 1..n
  BY <1>1, FarmAssumption DEF Pid
<1>3. Cardinality(1..n) = n
  BY FS_Interval
<1>4. NextPid = n + 1
  BY <1>2, <1>3 DEF NextPid
<1>5. NextPid \in Pid
  BY DEF CanStart
<1>6. n + 1 \in 1..MaxWorkers
  BY <1>4, <1>5 DEF Pid
<1>7. ~(NextPid <= n)
  BY <1>4
<1>8. \A p \in Pid : worker[p].at # "unborn" \/ p = NextPid <=> p <= n + 1
  BY <1>1, <1>4, FarmAssumption DEF Pid
<1>9. QED
  BY <1>1, <1>5, <1>6, <1>7, <1>8

\* The effect of a step on the workers: nothing, a new worker, or a change of
\* one worker that exists.
WorkersKept == worker' = worker
WorkerAdded == CanStart /\ \E t \in Task : worker' = Started(t)

LEMMA LaunchWorkers ==
  ASSUME NEW l \in Launcher, LaunchStep(l) \/ LaunchCrash(l)
  PROVE  WorkersKept
  BY DEF LaunchStep, LaunchCrash, LaunchCheck, LaunchLock, LaunchRefused,
         LaunchBlocked, LaunchSubmits, LaunchDone, WorkersKept

LEMMA SubmitWorkers ==
  ASSUME NEW l \in Launcher, NEW t \in Task, SubmitStep(l, t)
  PROVE  WorkersKept \/ WorkerAdded
  BY DEF SubmitStep, SubmitRead, SubmitClaim, SubmitWrite, SshStarts, SshFails,
         SubmitFailed, WorkersKept, WorkerAdded

LEMMA OutsideWorkers ==
  ASSUME \/ \E t \in Task : LeaseExpires(t)
         \/ \E r \in Reconciler, t \in Task : ReconcileReads(r, t)
         \/ \E r \in Reconciler :
              ProbeAnswers(r) \/ ProbeFails(r) \/ ReconcileWrites(r)
         \/ RetireLocks \/ RetireMarks \/ RetireReleases
         \/ UNCHANGED vars
  PROVE  WorkersKept
  BY DEF LeaseExpires, ReconcileReads, ProbeAnswers, ProbeFails, ReconcileWrites,
         RetireLocks, RetireMarks, RetireReleases, OutsideReconcile,
         OutsideRetire, vars, WorkersKept

\* Every step of worker p, its death, its heartbeat and the end of a command
\* that outlived it.
OneWorker(p) ==
  \/ WorkerStep(p) \/ WorkerKilled(p) \/ OrphanEnds(p)
  \/ HeartbeatDue(p) \/ HeartbeatWrites(p)

LEMMA WorkerEffects ==
  ASSUME [Next]_vars
  PROVE  WorkersKept \/ WorkerAdded \/ \E p \in Pid : OneWorker(p)
  BY LaunchWorkers, SubmitWorkers, OutsideWorkers DEF Next, OneWorker

\* Worker p makes its attempt directory.
Makes(p, w) ==
  /\ worker[p].at = "starting"
  /\ MayRun(worker[p].task)
  /\ Newest(worker[p].task, state[worker[p].task].attempt)
  /\ w = [worker[p] EXCEPT !.at = "made",
                           !.attempt = state[worker[p].task].attempt + 1]

\* Worker p ends, with or without its command.
Dies(p, w) ==
  Alive(p) /\ w \in {Dead(p), [Dead(p) EXCEPT !.command = worker[p].command]}

\* What a step of p makes of its record.
Changed(p, w) ==
  \/ Dies(p, w)
  \/ worker[p].at = "gone" /\ w = [worker[p] EXCEPT !.command = FALSE]
  \/ Makes(p, w)
  \/ worker[p].at = "made" /\ w = [worker[p] EXCEPT !.at = "waiting"]
  \/ /\ worker[p].at = "waiting"
     /\ \E s \in FreeSlots : w = [worker[p] EXCEPT !.at = "holding", !.slot = s]
  \/ /\ worker[p].at = "holding"
     /\ w = [worker[p] EXCEPT !.at = "running", !.command = TRUE]
  \/ worker[p].at = "running" /\ w = [worker[p] EXCEPT !.beating = TRUE]
  \/ worker[p].beating /\ w = [worker[p] EXCEPT !.beating = FALSE]
  \/ /\ worker[p].at = "running"
     /\ \E result \in {"pass", "failed"} :
          w = [worker[p] EXCEPT !.at = "ended", !.result = result, !.command = FALSE]
  \/ worker[p].at = "ended" /\ w = [worker[p] EXCEPT !.at = "reported"]

LEMMA WorkerChange ==
  ASSUME TypeOK, NEW p \in Pid, OneWorker(p)
  PROVE  \E w : Changed(p, w) /\ worker' = [worker EXCEPT ![p] = w]
<1> USE DEF Changed
<1>1. CASE WorkerStarts(p)
  <2> DEFINE a == state[worker[p].task].attempt + 1
             w == [worker[p] EXCEPT !.at = "made", !.attempt = a]
  <2>1. CASE MayRun(worker[p].task) /\ a \notin attempt_dirs[worker[p].task]
    <3>1. worker' = [worker EXCEPT ![p] = w]
      BY <1>1, <2>1 DEF WorkerStarts, TypeOK
    <3>2. Changed(p, w)
      BY <1>1, <2>1 DEF WorkerStarts, Newest, Makes
    <3>3. QED
      BY <3>1, <3>2
  <2>2. CASE ~(MayRun(worker[p].task) /\ a \notin attempt_dirs[worker[p].task])
    <3>1. worker' = [worker EXCEPT ![p] = Dead(p)] /\ Alive(p)
      BY <1>1, <2>2 DEF WorkerStarts, Alive
    <3>2. Dies(p, Dead(p))
      BY <3>1 DEF Dies
    <3>3. QED
      BY <3>1, <3>2
  <2>3. QED
    BY <2>1, <2>2
<1>2. CASE WorkerWaits(p)
  BY <1>2 DEF WorkerWaits, TypeOK
<1>3. CASE AcquireSlot(p)
  <2>1. PICK s \in FreeSlots :
          worker' = [worker EXCEPT ![p].at = "holding", ![p].slot = s]
    BY <1>3 DEF AcquireSlot
  <2> DEFINE w == [worker[p] EXCEPT !.at = "holding", !.slot = s]
  <2>2. worker' = [worker EXCEPT ![p] = w]
    BY <2>1 DEF TypeOK
  <2>3. Changed(p, w)
    BY <1>3 DEF AcquireSlot
  <2>4. QED
    BY <2>2, <2>3
<1>4. CASE WorkerRuns(p)
  BY <1>4 DEF WorkerRuns, TypeOK
<1>5. CASE CommandEnds(p)
  <2>1. PICK r \in {"pass", "failed"} :
          worker' = [worker EXCEPT ![p].at = "ended", ![p].result = r,
                                   ![p].command = FALSE]
    BY <1>5 DEF CommandEnds
  <2> DEFINE w == [worker[p] EXCEPT !.at = "ended", !.result = r, !.command = FALSE]
  <2>2. worker' = [worker EXCEPT ![p] = w]
    BY <2>1 DEF TypeOK
  <2>3. Changed(p, w)
    BY <1>5 DEF CommandEnds
  <2>4. QED
    BY <2>2, <2>3
<1>6. CASE WorkerReports(p)
  BY <1>6 DEF WorkerReports, TypeOK
<1>7. CASE WorkerExits(p)
  <2>1. worker' = [worker EXCEPT ![p] = Dead(p)] /\ Alive(p)
    BY <1>7 DEF WorkerExits, Alive
  <2>2. Dies(p, Dead(p))
    BY <2>1 DEF Dies
  <2>3. QED
    BY <2>1, <2>2
<1>8. CASE WorkerKilled(p)
  <2> DEFINE w == [Dead(p) EXCEPT !.command = worker[p].command]
  <2>1. worker' = [worker EXCEPT ![p] = w] /\ Dies(p, w)
    BY <1>8 DEF WorkerKilled, Dies
  <2>2. QED
    BY <2>1
<1>9. CASE HeartbeatDue(p)
  BY <1>9 DEF HeartbeatDue, TypeOK
<1>10. CASE HeartbeatWrites(p)
  BY <1>10 DEF HeartbeatWrites, TypeOK
<1>11. CASE OrphanEnds(p)
  BY <1>11 DEF OrphanEnds, TypeOK
<1>12. QED
  BY <1>1, <1>2, <1>3, <1>4, <1>5, <1>6, <1>7, <1>8, <1>9, <1>10, <1>11
     DEF OneWorker, WorkerStep

\* A worker record.
WorkerRec == [at : Stages, task : Task \cup {Nobody}, attempt : {0} \cup Pid,
              slot : 0..Slots, result : {"none", "pass", "failed"},
              beating : BOOLEAN, command : BOOLEAN]

Holding == {"holding", "running", "ended", "reported"}
Acting == {"made", "waiting", "holding", "running"}

\* The fields of a record after a change.
LEMMA ChangedFields ==
  ASSUME TypeOK, NEW p \in Pid, NEW w, Changed(p, w)
  PROVE  /\ Makes(p, w) /\ state[worker[p].task].attempt + 1 \in Pid => w \in WorkerRec
         /\ ~Makes(p, w) => w \in WorkerRec
         /\ w.task = worker[p].task
         /\ w.at = "unborn" <=> worker[p].at = "unborn"
         /\ w.slot \in {0, worker[p].slot} \cup FreeSlots
         /\ w.at \in Holding => \/ worker[p].at \in Holding /\ w.slot = worker[p].slot
                                \/ w.slot \in FreeSlots
         /\ w.command => \/ w.at \in {"running", "gone"}
                         \/ worker[p].command /\ worker[p].at \notin {"running", "gone"}
         /\ \/ Makes(p, w)
            \/ /\ w.attempt = worker[p].attempt
               /\ w.at \in Acting => worker[p].at \in Acting
               /\ w.at \in {"unborn", "starting"} => w.at = worker[p].at
               /\ w.at \notin {"unborn", "starting", "gone"} =>
                    worker[p].at \notin {"unborn", "starting", "gone"}
               /\ w.beating => worker[p].beating \/ worker[p].at = "running"
               /\ w.at = "ended" =>
                    w.result # "none" \/ (worker[p].at = "ended" /\ w.result = worker[p].result)
<1>0. worker[p] \in WorkerRec
  BY DEF TypeOK, WorkerRec
<1>1. CASE Dies(p, w)
  <2>1. PICK c \in BOOLEAN :
          w = [at |-> "gone", task |-> worker[p].task, attempt |-> worker[p].attempt,
               slot |-> 0, result |-> "none", beating |-> FALSE, command |-> c]
    <3>1. CASE w = Dead(p)
      BY <3>1 DEF Dead, Unborn
    <3>2. CASE w = [Dead(p) EXCEPT !.command = worker[p].command]
      BY <1>0, <3>2 DEF Dead, Unborn, WorkerRec
    <3>3. QED
      BY <1>1, <3>1, <3>2 DEF Dies
  <2>2. worker[p].at # "unborn"
    BY <1>1 DEF Dies, Alive
  <2>3. QED
    BY <1>0, <2>1, <2>2, FarmAssumption DEF WorkerRec, Stages, Holding, Acting
<1>2. CASE Makes(p, w)
  BY <1>0, <1>2 DEF WorkerRec, Stages, FreeSlots, Holding, Acting, Makes
<1>3. CASE worker[p].at = "made" /\ w = [worker[p] EXCEPT !.at = "waiting"]
  BY <1>0, <1>3 DEF WorkerRec, Stages, FreeSlots, Holding, Acting, Makes
<1>4. CASE /\ worker[p].at = "waiting"
            /\ \E s \in FreeSlots : w = [worker[p] EXCEPT !.at = "holding", !.slot = s]
  <2>1. PICK s \in FreeSlots : w = [worker[p] EXCEPT !.at = "holding", !.slot = s]
    BY <1>4
  <2>2. s \in 0..Slots
    BY FarmAssumption DEF FreeSlots
  <2>3. /\ w \in WorkerRec /\ w.at = "holding" /\ w.task = worker[p].task
        /\ w.slot = s /\ w.attempt = worker[p].attempt
        /\ w.beating = worker[p].beating /\ w.command = worker[p].command
        /\ w.at # "ended"
    BY <1>0, <2>1, <2>2 DEF WorkerRec, Stages
  <2>4. QED
    BY <1>4, <2>3 DEF Acting
<1>5. CASE /\ worker[p].at = "holding"
            /\ w = [worker[p] EXCEPT !.at = "running", !.command = TRUE]
  BY <1>0, <1>5 DEF WorkerRec, Stages, FreeSlots, Holding, Acting, Makes
<1>6. CASE worker[p].at = "running" /\ w = [worker[p] EXCEPT !.beating = TRUE]
  BY <1>0, <1>6 DEF WorkerRec, Stages, FreeSlots, Holding, Acting, Makes
<1>7. CASE worker[p].beating /\ w = [worker[p] EXCEPT !.beating = FALSE]
  BY <1>0, <1>7 DEF WorkerRec, Stages, FreeSlots, Holding, Acting, Makes
<1>8. CASE /\ worker[p].at = "running"
            /\ \E result \in {"pass", "failed"} :
                 w = [worker[p] EXCEPT !.at = "ended", !.result = result,
                                       !.command = FALSE]
  <2>1. PICK result \in {"pass", "failed"} :
          w = [worker[p] EXCEPT !.at = "ended", !.result = result, !.command = FALSE]
    BY <1>8
  <2>2. /\ w \in WorkerRec /\ w.at = "ended" /\ w.task = worker[p].task
        /\ w.slot = worker[p].slot /\ w.attempt = worker[p].attempt
        /\ w.beating = worker[p].beating /\ w.result # "none" /\ ~w.command
    BY <1>0, <2>1 DEF WorkerRec, Stages
  <2>3. QED
    BY <1>8, <2>2 DEF Acting, Holding
<1>9. CASE worker[p].at = "ended" /\ w = [worker[p] EXCEPT !.at = "reported"]
  BY <1>0, <1>9 DEF WorkerRec, Stages, FreeSlots, Holding, Acting, Makes
<1>10. CASE worker[p].at = "gone" /\ w = [worker[p] EXCEPT !.command = FALSE]
  BY <1>0, <1>10 DEF WorkerRec, Stages, FreeSlots, Holding, Acting, Makes
<1>11. QED
  BY <1>1, <1>2, <1>3, <1>4, <1>5, <1>6, <1>7, <1>8, <1>9, <1>10 DEF Changed

LEMMA StepSlotInv == TypeOK /\ SlotInv /\ [Next]_vars => SlotInv'
<1> SUFFICES ASSUME TypeOK, SlotInv, [Next]_vars PROVE SlotInv'
  OBVIOUS
<1>1. CASE WorkersKept
  BY <1>1 DEF WorkersKept, SlotInv
<1>2. CASE WorkerAdded
  <2>1. PICK t \in Task : worker' = Started(t)
    BY <1>2 DEF WorkerAdded
  <2>2. /\ NextPid \in Pid
        /\ worker'[NextPid].slot = 0 /\ worker'[NextPid].at = "starting"
        /\ \A q \in Pid : q # NextPid => worker'[q] = worker[q]
    BY <1>2, <2>1 DEF WorkerAdded, CanStart, Started, Unborn, TypeOK
  <2>3. QED
    BY <2>2 DEF SlotInv
<1>3. CASE \E p \in Pid : OneWorker(p)
  <2>1. PICK p \in Pid : OneWorker(p)
    BY <1>3
  <2>2. PICK w : Changed(p, w) /\ worker' = [worker EXCEPT ![p] = w]
    BY <2>1, WorkerChange
  <2>3. worker'[p] = w /\ \A q \in Pid : q # p => worker'[q] = worker[q]
    BY <2>2 DEF TypeOK
  <2>4. /\ w.slot \in {0, worker[p].slot} \cup FreeSlots
        /\ w.at \in Holding => \/ worker[p].at \in Holding /\ w.slot = worker[p].slot
                               \/ w.slot \in FreeSlots
    BY <2>2, ChangedFields
  <2>5. \A s \in FreeSlots : s # 0 /\ \A q \in Pid : worker[q].slot # s
    BY FarmAssumption DEF FreeSlots
  <2>6. w.at \in Holding => w.slot # 0
    BY <2>4, <2>5 DEF SlotInv, Holding
  <2>7. \A q \in Pid : q # p /\ w.slot # 0 => w.slot # worker[q].slot
    BY <2>4, <2>5 DEF SlotInv
  <2>8. QED
    BY <2>3, <2>6, <2>7 DEF SlotInv, Holding
<1>4. QED
  BY <1>1, <1>2, <1>3, WorkerEffects

LEMMA StepCommandInv == TypeOK /\ CommandInv /\ [Next]_vars => CommandInv'
<1> SUFFICES ASSUME TypeOK, CommandInv, [Next]_vars PROVE CommandInv'
  OBVIOUS
<1>1. CASE WorkersKept
  BY <1>1 DEF WorkersKept, CommandInv
<1>2. CASE WorkerAdded
  <2>1. PICK t \in Task : worker' = Started(t)
    BY <1>2 DEF WorkerAdded
  <2>2. /\ ~worker'[NextPid].command
        /\ \A q \in Pid : q # NextPid => worker'[q] = worker[q]
    BY <1>2, <2>1 DEF WorkerAdded, CanStart, Started, Unborn, TypeOK
  <2>3. QED
    BY <2>2 DEF CommandInv
<1>3. CASE \E p \in Pid : OneWorker(p)
  <2>1. PICK p \in Pid : OneWorker(p)
    BY <1>3
  <2>2. PICK w : Changed(p, w) /\ worker' = [worker EXCEPT ![p] = w]
    BY <2>1, WorkerChange
  <2>3. worker'[p] = w /\ \A q \in Pid : q # p => worker'[q] = worker[q]
    BY <2>2 DEF TypeOK
  <2>4. w.command => \/ w.at \in {"running", "gone"}
                     \/ worker[p].command /\ worker[p].at \notin {"running", "gone"}
    BY <2>2, ChangedFields
  <2>5. QED
    BY <2>3, <2>4 DEF CommandInv
<1>4. QED
  BY <1>1, <1>2, <1>3, WorkerEffects

LEMMA StepPidInv == TypeOK /\ PidInv /\ [Next]_vars => PidInv'
<1> SUFFICES ASSUME TypeOK, PidInv, [Next]_vars PROVE PidInv'
  OBVIOUS
<1>1. CASE WorkersKept
  BY <1>1 DEF WorkersKept, PidInv
<1>2. CASE WorkerAdded
  <2>1. PICK t \in Task : worker' = Started(t)
    BY <1>2 DEF WorkerAdded
  <2>2. /\ worker'[NextPid].at = "starting"
        /\ \A q \in Pid : q # NextPid => worker'[q] = worker[q]
    BY <1>2, <2>1 DEF WorkerAdded, CanStart, Started, Unborn, TypeOK
  <2>3. PICK n \in 1..MaxWorkers :
          \A p \in Pid : worker[p].at # "unborn" \/ p = NextPid <=> p <= n
    BY <1>2, FreshPid DEF WorkerAdded
  <2>4. QED
    BY <2>2, <2>3 DEF PidInv
<1>3. CASE \E p \in Pid : OneWorker(p)
  <2>1. PICK p \in Pid : OneWorker(p)
    BY <1>3
  <2>2. PICK w : Changed(p, w) /\ worker' = [worker EXCEPT ![p] = w]
    BY <2>1, WorkerChange
  <2>3. worker'[p] = w /\ \A q \in Pid : q # p => worker'[q] = worker[q]
    BY <2>2 DEF TypeOK
  <2>4. w.at = "unborn" <=> worker[p].at = "unborn"
    BY <2>2, ChangedFields
  <2>5. QED
    BY <2>3, <2>4 DEF PidInv
<1>4. QED
  BY <1>1, <1>2, <1>3, WorkerEffects

\* A worker that starts leaves room for the number of its attempt: the
\* directories that exist belong to as many other workers.
LEMMA AttemptFits ==
  ASSUME TypeOK, DirInv, NEW p \in Pid, worker[p].at = "starting",
         NEW t \in Task, t = worker[p].task, Newest(t, state[t].attempt)
  PROVE  /\ state[t].attempt + 1 \in Pid
         /\ attempt_dirs[t] = 1..state[t].attempt
<1>1. PICK m \in 0..MaxWorkers : attempt_dirs[t] = 1..m
  BY DEF DirInv
<1>2. state[t].attempt = m
  <2>1. state[t].attempt \in 0..MaxWorkers
    BY DEF TypeOK, State
  <2>2. state[t].attempt \in {0} \cup (1..m) /\ state[t].attempt + 1 \notin 1..m
    BY <1>1 DEF DirInv, Made, Newest
  <2>3. QED
    BY <2>1, <2>2, FarmAssumption
<1> DEFINE Other == Pid \ {p}
           f == [a \in 1..m |-> CHOOSE q \in Pid : worker[q].task = t /\ worker[q].attempt = a]
<1>3. ASSUME NEW a \in 1..m PROVE f[a] \in Other /\ worker[f[a]].attempt = a
  <2>0. \A b \in attempt_dirs[t] :
          \E q \in Pid : worker[q].task = t /\ worker[q].attempt = b
    BY DEF DirInv
  <2>1. \E q \in Pid : worker[q].task = t /\ worker[q].attempt = a
    BY <1>1, <2>0
  <2>2. f[a] \in Pid /\ worker[f[a]].attempt = a
    BY <2>1
  <2>3. worker[p].attempt = 0
    BY DEF DirInv, Ran
  <2>4. a # 0
    OBVIOUS
  <2> HIDE DEF f
  <2>5. f[a] # p
    BY <2>2, <2>3, <2>4
  <2>6. QED
    BY <2>2, <2>5
<1>4. f \in Injection(1..m, Other)
  <2>1. f \in [1..m -> Other]
    BY <1>3
  <2>2. \A a, b \in 1..m : f[a] = f[b] => a = b
    BY <1>3
  <2> HIDE DEF f, Other
  <2>3. QED
    BY <2>1, <2>2 DEF Injection, IsInjective
<1>5. IsFiniteSet(Pid) /\ Cardinality(Pid) = MaxWorkers
  BY FS_Interval, FarmAssumption DEF Pid
<1>6. IsFiniteSet(Other) /\ Cardinality(Other) = MaxWorkers - 1
  BY <1>5, FS_RemoveElement
<1>7. Cardinality(1..m) = m
  BY FS_Interval
<1>8. m <= MaxWorkers - 1
  <2> HIDE DEF f, Other
  <2>1. Cardinality(1..m) <= Cardinality(Other)
    BY <1>4, <1>6, FS_Injection
  <2>2. QED
    BY <1>6, <1>7, <2>1
<1>9. QED
  BY <1>1, <1>2, <1>8, FarmAssumption DEF Pid

-----------------------------------------------------------------------------
(* What a step writes into the state files and into the memory of the      *)
(* processes.                                                              *)

StateWrite(t, new) ==
  \/ new = state[t]
  \/ \E status \in {"prepared", "blocked_storage", "submit_failed"} :
       new = Unleased(status, 0)
  \/ \E l \in Launcher :
       /\ submission[l][t].at = "claimed"
       /\ new = Unleased("submitting", submission[l][t].previous.attempt)
  \/ \E p \in Pid : \E status \in {"waiting_for_slot", "running"} :
       /\ worker[p].task = t /\ (worker[p].at \in {"made", "holding"} \/ worker[p].beating)
       /\ new = Leased(p, status)
  \/ \E p \in Pid :
       /\ worker[p].task = t /\ worker[p].at = "ended"
       /\ new = [Unleased(worker[p].result, worker[p].attempt) EXCEPT !.pid = p]
  \/ new = [state[t] EXCEPT !.lease = "expired"]
  \/ \E r \in Reconciler :
       /\ reconcile[r].at = "absent" /\ reconcile[r].task = t
       /\ new = [reconcile[r].read EXCEPT !.status = "retryable"]

StateWrites ==
  /\ state' = [t \in Task |-> state'[t]]
  /\ \A t \in Task : StateWrite(t, state'[t])

LEMMA StateKept ==
  ASSUME TypeOK, state' = state
  PROVE  StateWrites
  BY DEF TypeOK, StateWrites, StateWrite

\* A step that writes one state file.
LEMMA StateWritten ==
  ASSUME TypeOK, NEW t \in Task, NEW new, StateWrite(t, new), state' = Written(t, new)
  PROVE  StateWrites
<1>1. /\ state' = [u \in Task |-> state'[u]]
      /\ state'[t] = new
      /\ \A u \in Task : u # t => state'[u] = state[u]
  BY DEF TypeOK, Written
<1>2. \A u \in Task : u # t => StateWrite(u, state'[u])
  BY <1>1 DEF StateWrite
<1>3. QED
  BY <1>1, <1>2 DEF StateWrites

LEMMA LaunchState ==
  ASSUME TypeOK, NEW l \in Launcher, LaunchStep(l) \/ LaunchCrash(l)
  PROVE  StateWrites
<1>1. CASE LaunchBlocked(l)
  BY <1>1 DEF LaunchBlocked, StateWrites, StateWrite
<1>2. CASE LaunchSubmits(l)
  BY <1>2 DEF LaunchSubmits, StateWrites, StateWrite
<1>3. CASE state' = state
  BY <1>3, StateKept
<1>4. QED
  BY <1>1, <1>2, <1>3 DEF LaunchStep, LaunchCheck, LaunchLock, LaunchRefused,
     LaunchDone, LaunchCrash

LEMMA SubmitState ==
  ASSUME TypeOK, NEW l \in Launcher, NEW t \in Task, SubmitStep(l, t)
  PROVE  StateWrites
<1>1. CASE SubmitWrite(l, t)
  <2>1. StateWrite(t, Unleased("submitting", submission[l][t].previous.attempt))
    BY <1>1 DEF SubmitWrite, At, StateWrite
  <2>2. QED
    BY <1>1, <2>1, StateWritten DEF SubmitWrite
<1>2. CASE SubmitFailed(l, t)
  <2>1. StateWrite(t, Unleased("submit_failed", 0))
    BY DEF StateWrite
  <2>2. QED
    BY <1>2, <2>1, StateWritten DEF SubmitFailed
<1>3. CASE state' = state
  BY <1>3, StateKept
<1>4. QED
  BY <1>1, <1>2, <1>3 DEF SubmitStep, SubmitRead, SubmitClaim, SshStarts, SshFails

LEMMA WorkerState ==
  ASSUME TypeOK, DirInv, NEW p \in Pid, OneWorker(p)
  PROVE  StateWrites
<1> DEFINE t == worker[p].task
<1>1. CASE WorkerWaits(p)
  <2>1. t \in Task /\ StateWrite(t, Leased(p, "waiting_for_slot"))
    BY <1>1 DEF WorkerWaits, DirInv, StateWrite
  <2>2. QED
    BY <1>1, <2>1, StateWritten DEF WorkerWaits
<1>2. CASE WorkerRuns(p)
  <2>1. t \in Task /\ StateWrite(t, Leased(p, "running"))
    BY <1>2 DEF WorkerRuns, DirInv, StateWrite
  <2>2. QED
    BY <1>2, <2>1, StateWritten DEF WorkerRuns
<1>3. CASE HeartbeatWrites(p)
  <2>1. t \in Task /\ StateWrite(t, Leased(p, "running"))
    BY <1>3 DEF HeartbeatWrites, DirInv, StateWrite
  <2>2. QED
    BY <1>3, <2>1, StateWritten DEF HeartbeatWrites
<1>4. CASE WorkerReports(p)
  <2> DEFINE new == [Unleased(worker[p].result, worker[p].attempt) EXCEPT !.pid = p]
  <2>1. t \in Task /\ StateWrite(t, new)
    BY <1>4 DEF WorkerReports, DirInv, StateWrite
  <2> HIDE DEF new
  <2>2. QED
    BY <1>4, <2>1, StateWritten DEF WorkerReports, new
<1>5. CASE state' = state
  BY <1>5, StateKept
<1>6. QED
  BY <1>1, <1>2, <1>3, <1>4, <1>5 DEF OneWorker, WorkerStep, WorkerKilled,
     OrphanEnds, HeartbeatDue, WorkerStarts, AcquireSlot, CommandEnds, WorkerExits

LEMMA OutsideState ==
  ASSUME TypeOK,
         \/ \E t \in Task : LeaseExpires(t)
         \/ \E r \in Reconciler, t \in Task : ReconcileReads(r, t)
         \/ \E r \in Reconciler :
              ProbeAnswers(r) \/ ProbeFails(r) \/ ReconcileWrites(r)
         \/ RetireLocks \/ RetireMarks \/ RetireReleases
         \/ UNCHANGED vars
  PROVE  StateWrites
<1>1. ASSUME NEW t \in Task, LeaseExpires(t) PROVE StateWrites
  <2>1. state' = Written(t, [state[t] EXCEPT !.lease = "expired"])
    BY <1>1 DEF LeaseExpires, Written, TypeOK
  <2>2. StateWrite(t, [state[t] EXCEPT !.lease = "expired"])
    BY DEF StateWrite
  <2>3. QED
    BY <2>1, <2>2, StateWritten
<1>2. ASSUME NEW r \in Reconciler, ReconcileWrites(r) PROVE StateWrites
  <2> DEFINE t == reconcile[r].task
             new == [reconcile[r].read EXCEPT !.status = "retryable"]
  <2>1. t \in Task /\ StateWrite(t, new)
    BY <1>2 DEF ReconcileWrites, StateWrite, TypeOK
  <2>2. state' = Written(t, new)
    BY <1>2 DEF ReconcileWrites
  <2> HIDE DEF t, new
  <2>3. QED
    BY <2>1, <2>2, StateWritten
<1>3. CASE state' = state
  BY <1>3, StateKept
<1>4. QED
  BY <1>1, <1>2, <1>3 DEF ReconcileReads, ProbeAnswers, ProbeFails, RetireLocks,
     RetireMarks, RetireReleases, OutsideRetire, vars

LEMMA StepState == TypeOK /\ DirInv /\ [Next]_vars => StateWrites
  BY LaunchState, SubmitState, WorkerState, OutsideState DEF Next, OneWorker

\* What a step makes of submit(t) of launcher l.
SubmissionChange(l, t, new) ==
  \/ new = submission[l][t]
  \/ new \in {NotSubmitting, [NotSubmitting EXCEPT !.at = "todo"]}
  \/ /\ state[t].status \in Open
     /\ new = [at |-> "read", previous |-> state[t]]
  \/ /\ submission[l][t].at \notin {"done", "todo"}
     /\ \E stage \in {"claimed", "ssh", "failed"} :
          new = [submission[l][t] EXCEPT !.at = stage]

SubmissionChanges ==
  /\ submission' = [l \in Launcher |-> submission'[l]]
  /\ \A l \in Launcher :
       /\ submission'[l] = [t \in Task |-> submission'[l][t]]
       /\ \A t \in Task : SubmissionChange(l, t, submission'[l][t])

LEMMA StepSubmission == TypeOK /\ [Next]_vars => SubmissionChanges
<1> SUFFICES ASSUME TypeOK, [Next]_vars PROVE SubmissionChanges
  OBVIOUS
<1> USE DEF SubmissionChanges, SubmissionChange
<1>1. CASE submission' = submission
  BY <1>1 DEF TypeOK
<1>2. ASSUME NEW l \in Launcher, LaunchSubmits(l) \/ LaunchCrash(l)
      PROVE  SubmissionChanges
  <2>1. PICK new \in {NotSubmitting, [NotSubmitting EXCEPT !.at = "todo"]} :
          submission' = [submission EXCEPT ![l] = [t \in Task |-> new]]
    BY <1>2 DEF LaunchSubmits, LaunchCrash
  <2>2. /\ submission' = [m \in Launcher |-> submission'[m]]
        /\ submission'[l] = [t \in Task |-> new]
        /\ \A m \in Launcher : m # l => submission'[m] = submission[m]
    BY <2>1 DEF TypeOK
  <2>3. \A m \in Launcher : submission[m] = [t \in Task |-> submission[m][t]]
    BY DEF TypeOK
  <2>4. QED
    BY <2>2, <2>3
<1>3. ASSUME NEW l \in Launcher, NEW t \in Task, NEW new,
             submission' = [submission EXCEPT ![l][t] = new],
             SubmissionChange(l, t, new)
      PROVE  SubmissionChanges
  BY <1>3 DEF TypeOK
<1>4. ASSUME NEW l \in Launcher, NEW t \in Task, SubmitStep(l, t)
      PROVE  SubmissionChanges
  <2>1. CASE Finished(l, t)
    BY <1>3, <2>1 DEF Finished
  <2>2. CASE SubmitRead(l, t) /\ ~Finished(l, t)
    <3>1. /\ state[t].status \in Open
          /\ submission' = [submission EXCEPT ![l][t] =
                              [at |-> "read", previous |-> state[t]]]
      BY <2>2 DEF SubmitRead, Open
    <3>2. QED
      BY <1>3, <3>1
  <2>3. ASSUME NEW stage \in {"claimed", "ssh", "failed"}, Goto(l, t, stage),
               submission[l][t].at \notin {"done", "todo"}
        PROVE  SubmissionChanges
    <3>1. submission' = [submission EXCEPT ![l][t] =
                           [submission[l][t] EXCEPT !.at = stage]]
      BY <2>3 DEF Goto, TypeOK
    <3>2. QED
      BY <1>3, <2>3, <3>1
  <2>4. QED
    BY <1>4, <2>1, <2>2, <2>3 DEF SubmitStep, SubmitClaim, SubmitWrite, SshStarts,
       SshFails, SubmitFailed, At
<1>5. ASSUME OtherStep \/ RetireLocks \/ RetireMarks \/ RetireReleases \/ UNCHANGED vars
      PROVE  submission' = submission
  BY <1>5 DEF OtherStep, WorkerStep, WorkerKilled, OrphanEnds, HeartbeatDue,
         HeartbeatWrites, WorkerStarts, WorkerWaits, AcquireSlot, WorkerRuns,
         CommandEnds, WorkerReports, WorkerExits, LeaseExpires, ReconcileReads,
         ProbeAnswers, ProbeFails, ReconcileWrites, OutsideWorker,
         OutsideReconcile, RetireLocks, RetireMarks, RetireReleases,
         OutsideRetire, vars
<1>6. ASSUME NEW l \in Launcher, LaunchStep(l), ~LaunchSubmits(l)
      PROVE  submission' = submission
  BY <1>6 DEF LaunchStep, LaunchCheck, LaunchLock, LaunchRefused, LaunchBlocked,
              LaunchDone
<1>7. QED
  BY <1>1, <1>2, <1>4, <1>5, <1>6 DEF Next, OtherStep

\* What a step makes of reconciler r.
ReconcileChange(r, new) ==
  \/ new = reconcile[r]
  \/ new = NotReconciling(reconcile[r].task)
  \/ \E t \in Task : /\ state[t].status \in {"running", "waiting_for_slot"}
                     /\ new = [at |-> "read", task |-> t, read |-> state[t]]
  \/ /\ reconcile[r].at = "read"
     /\ ssh_failures' = 0 => ~Alive(reconcile[r].read.pid)
     /\ new = [reconcile[r] EXCEPT !.at = "absent"]

ReconcileChanges ==
  /\ reconcile' = [r \in Reconciler |-> reconcile'[r]]
  /\ \A r \in Reconciler : ReconcileChange(r, reconcile'[r])

LEMMA StepReconcile == TypeOK /\ [Next]_vars => ReconcileChanges
<1> SUFFICES ASSUME TypeOK, [Next]_vars PROVE ReconcileChanges
  OBVIOUS
<1>1. ASSUME NEW r \in Reconciler, NEW new, ReconcileChange(r, new),
             reconcile' = [reconcile EXCEPT ![r] = new]
      PROVE  ReconcileChanges
  BY <1>1 DEF TypeOK, ReconcileChanges, ReconcileChange
<1>2. CASE reconcile' = reconcile
  BY <1>2 DEF TypeOK, ReconcileChanges, ReconcileChange
<1>3. ASSUME NEW r \in Reconciler, NEW t \in Task, ReconcileReads(r, t)
      PROVE  ReconcileChanges
  BY <1>1, <1>3 DEF ReconcileReads, ReconcileChange
<1>4. ASSUME NEW r \in Reconciler,
             ProbeAnswers(r) \/ ProbeFails(r) \/ ReconcileWrites(r)
      PROVE  ReconcileChanges
  <2>1. CASE reconcile' = [reconcile EXCEPT ![r] = NotReconciling(@.task)]
    <3>1. ReconcileChange(r, NotReconciling(reconcile[r].task))
      BY DEF ReconcileChange
    <3>2. QED
      BY <1>1, <2>1, <3>1
  <2>2. CASE /\ reconcile[r].at = "read"
             /\ ssh_failures' = 0 => ~Alive(reconcile[r].read.pid)
             /\ reconcile' = [reconcile EXCEPT ![r].at = "absent"]
    <3>1. reconcile' = [reconcile EXCEPT ![r] = [reconcile[r] EXCEPT !.at = "absent"]]
      BY <2>2 DEF TypeOK
    <3>2. ReconcileChange(r, [reconcile[r] EXCEPT !.at = "absent"])
      BY <2>2 DEF ReconcileChange
    <3>3. QED
      BY <1>1, <3>1, <3>2
  <2>3. ProbeFails(r) => ssh_failures' # 0
    BY DEF ProbeFails, TypeOK
  <2>4. QED
    BY <1>4, <2>1, <2>2, <2>3 DEF ProbeAnswers, ProbeFails, ReconcileWrites
<1>5. ASSUME NEW l \in Launcher, NEW t \in Task,
             LaunchStep(l) \/ LaunchCrash(l) \/ SubmitStep(l, t)
      PROVE  reconcile' = reconcile
  BY <1>5 DEF LaunchStep, LaunchCrash, LaunchCheck, LaunchLock, LaunchRefused,
         LaunchBlocked, LaunchSubmits, LaunchDone, SubmitStep, SubmitRead,
         SubmitClaim, SubmitWrite, SshStarts, SshFails, SubmitFailed
<1>6. ASSUME \/ \E p \in Pid : OneWorker(p)
             \/ \E t \in Task : LeaseExpires(t)
             \/ RetireLocks \/ RetireMarks \/ RetireReleases \/ UNCHANGED vars
      PROVE  reconcile' = reconcile
  BY <1>6 DEF OneWorker, WorkerStep, WorkerKilled, OrphanEnds, HeartbeatDue, HeartbeatWrites,
         WorkerStarts, WorkerWaits, AcquireSlot, WorkerRuns, CommandEnds,
         WorkerReports, WorkerExits, LeaseExpires, OutsideWorker, RetireLocks,
         RetireMarks, RetireReleases, OutsideRetire, vars
<1>7. QED
  BY <1>2, <1>3, <1>4, <1>5, <1>6, FarmAssumption DEF Next, OneWorker

-----------------------------------------------------------------------------
(* Attempt directories and what is written down about attempts.            *)

DirsKept == attempt_dirs' = attempt_dirs
DirMade(p, w) ==
  attempt_dirs' = [attempt_dirs EXCEPT ![worker[p].task] = @ \cup {w.attempt}]

\* Only a worker that starts makes a directory.
LEMMA DirChange ==
  ASSUME TypeOK, NEW p \in Pid, OneWorker(p)
  PROVE  \E w : /\ Changed(p, w) /\ worker' = [worker EXCEPT ![p] = w]
                /\ Makes(p, w) => DirMade(p, w)
                /\ ~Makes(p, w) => DirsKept
<1>1. PICK w : Changed(p, w) /\ worker' = [worker EXCEPT ![p] = w]
  BY WorkerChange
<1>2. w = worker'[p]
  BY <1>1 DEF TypeOK
<1>3. CASE WorkerStarts(p)
  <2> DEFINE a == state[worker[p].task].attempt + 1
  <2>1. CASE MayRun(worker[p].task) /\ a \notin attempt_dirs[worker[p].task]
    <3>1. w = [worker[p] EXCEPT !.at = "made", !.attempt = a]
      BY <1>2, <1>3, <2>1 DEF WorkerStarts, TypeOK
    <3>2. Makes(p, w) /\ w.attempt = a
      BY <1>3, <2>1, <3>1 DEF WorkerStarts, Makes, Newest, TypeOK
    <3>3. DirMade(p, w)
      BY <1>3, <2>1, <3>2 DEF WorkerStarts, DirMade
    <3>4. QED
      BY <1>1, <3>2, <3>3
  <2>2. CASE ~(MayRun(worker[p].task) /\ a \notin attempt_dirs[worker[p].task])
    <3>1. DirsKept
      BY <1>3, <2>2 DEF WorkerStarts, DirsKept
    <3>2. ~Makes(p, w)
      BY <2>2 DEF Makes, Newest
    <3>3. QED
      BY <1>1, <3>1, <3>2
  <2>3. QED
    BY <2>1, <2>2
<1>4. CASE ~WorkerStarts(p)
  <2>1. DirsKept
    BY <1>4 DEF OneWorker, WorkerStep, WorkerKilled, OrphanEnds, HeartbeatDue, HeartbeatWrites,
       WorkerWaits, AcquireSlot, WorkerRuns, CommandEnds, WorkerReports,
       WorkerExits, DirsKept
  <2>2. CASE WorkerKilled(p)
    <3>1. w.at # "made"
      <4>1. w = [Dead(p) EXCEPT !.command = worker[p].command]
        BY <1>2, <2>2 DEF WorkerKilled, TypeOK
      <4>2. QED
        BY <4>1 DEF Dead, Unborn
    <3>2. ~Makes(p, w)
      BY <3>1 DEF Makes, TypeOK
    <3>3. QED
      BY <1>1, <2>1, <3>2
  <2>3. CASE HeartbeatWrites(p)
    <3>1. w.at = worker[p].at
      BY <1>2, <2>3 DEF HeartbeatWrites, TypeOK
    <3>2. ~Makes(p, w)
      BY <3>1 DEF Makes, TypeOK
    <3>3. QED
      BY <1>1, <2>1, <3>2
  <2>4. CASE worker[p].at # "starting"
    BY <1>1, <2>1, <2>4 DEF Makes
  <2>5. QED
    BY <1>4, <2>2, <2>3, <2>4 DEF OneWorker, WorkerStep, OrphanEnds, HeartbeatDue,
       WorkerWaits, AcquireSlot, WorkerRuns, CommandEnds, WorkerReports, WorkerExits
<1>5. QED
  BY <1>3, <1>4

\* What a step does to the workers and the directories.
Effect ==
  \/ WorkersKept /\ DirsKept
  \/ WorkerAdded /\ DirsKept
  \/ \E p \in Pid : \E w : /\ Changed(p, w) /\ worker' = [worker EXCEPT ![p] = w]
                           /\ Makes(p, w) => DirMade(p, w)
                           /\ ~Makes(p, w) => DirsKept

LEMMA StepEffect == TypeOK /\ [Next]_vars => Effect
<1> SUFFICES ASSUME TypeOK, [Next]_vars PROVE Effect
  OBVIOUS
<1>1. CASE \E p \in Pid : OneWorker(p)
  BY <1>1, DirChange DEF Effect
<1>2. CASE ~ \E p \in Pid : OneWorker(p)
  <2>1. WorkersKept \/ WorkerAdded
    BY <1>2, WorkerEffects
  <2>2. ASSUME NEW l \in Launcher, NEW t \in Task,
               LaunchStep(l) \/ LaunchCrash(l) \/ SubmitStep(l, t)
        PROVE  DirsKept
    BY <2>2 DEF LaunchStep, LaunchCrash, LaunchCheck, LaunchLock, LaunchRefused,
       LaunchBlocked, LaunchSubmits, LaunchDone, SubmitStep, SubmitRead,
       SubmitClaim, SubmitWrite, SshStarts, SshFails, SubmitFailed, DirsKept
  <2>3. ASSUME \/ \E t \in Task : LeaseExpires(t)
               \/ \E r \in Reconciler, t \in Task : ReconcileReads(r, t)
               \/ \E r \in Reconciler :
                    ProbeAnswers(r) \/ ProbeFails(r) \/ ReconcileWrites(r)
               \/ RetireLocks \/ RetireMarks \/ RetireReleases \/ UNCHANGED vars
        PROVE  DirsKept
    BY <2>3 DEF LeaseExpires, ReconcileReads, ProbeAnswers, ProbeFails,
       ReconcileWrites, RetireLocks, RetireMarks, RetireReleases,
       OutsideReconcile, OutsideRetire, vars, DirsKept
  <2>4. QED
    BY <1>2, <2>1, <2>2, <2>3, FarmAssumption DEF Next, OneWorker, Effect
<1>3. QED
  BY <1>1, <1>2

\* A step either leaves the directories and the attempts of all workers alone,
\* and makes nobody work, or worker p makes the next directory of its task.
Quiet ==
  /\ DirsKept
  /\ \A q \in Pid : /\ worker'[q].attempt = worker[q].attempt
                    /\ worker[q].at # "unborn" => worker'[q].task = worker[q].task
                    /\ Working(q)' => Working(q)

Making(p) ==
  LET t == worker[p].task
      a == state[t].attempt
  IN /\ t \in Task /\ worker[p].at = "starting" /\ MayRun(t)
     /\ a + 1 \in Pid /\ attempt_dirs[t] = 1..a
     /\ worker'[p] = [worker[p] EXCEPT !.at = "made", !.attempt = a + 1]
     /\ \A q \in Pid : q # p => worker'[q] = worker[q]
     /\ DOMAIN attempt_dirs' = Task
     /\ attempt_dirs'[t] = 1..(a + 1)
     /\ \A u \in Task : u # t => attempt_dirs'[u] = attempt_dirs[u]

LEMMA MakesIsMaking ==
  ASSUME TypeOK, DirInv, NEW p \in Pid, NEW w, Makes(p, w),
         worker' = [worker EXCEPT ![p] = w], DirMade(p, w)
  PROVE  Making(p)
<1> DEFINE t == worker[p].task
           a == state[t].attempt
<1>1. t \in Task /\ worker[p].at = "starting" /\ MayRun(t) /\ Newest(t, a)
  BY DEF Makes, DirInv
<1>2. a + 1 \in Pid /\ attempt_dirs[t] = 1..a
  BY <1>1, AttemptFits
<1>3. /\ w = [worker[p] EXCEPT !.at = "made", !.attempt = a + 1]
      /\ w.attempt = a + 1
  BY DEF Makes, TypeOK
<1>4. worker'[p] = w /\ \A q \in Pid : q # p => worker'[q] = worker[q]
  BY DEF TypeOK
<1>5. a \in Nat
  BY <1>1, FarmAssumption DEF TypeOK, State
<1>6. 1..a \cup {a + 1} = 1..(a + 1)
  BY <1>5
<1>7. /\ DOMAIN attempt_dirs' = Task
      /\ attempt_dirs'[t] = attempt_dirs[t] \cup {a + 1}
      /\ \A u \in Task : u # t => attempt_dirs'[u] = attempt_dirs[u]
  BY <1>1, <1>3 DEF DirMade, TypeOK
<1>8. QED
  BY <1>1, <1>2, <1>3, <1>4, <1>6, <1>7 DEF Making

LEMMA QuietOrMaking ==
  ASSUME TypeOK, PidInv, DirInv, [Next]_vars
  PROVE  Quiet \/ \E p \in Pid : Making(p)
<1>1. CASE WorkersKept /\ DirsKept
  BY <1>1 DEF WorkersKept, Quiet, Working
<1>2. CASE WorkerAdded /\ DirsKept
  <2>1. PICK t \in Task : worker' = Started(t)
    BY <1>2 DEF WorkerAdded
  <2>2. NextPid \in Pid /\ worker[NextPid].at = "unborn"
    BY <1>2, FreshPid DEF WorkerAdded
  <2>3. worker[NextPid].attempt = 0
    BY <2>2 DEF DirInv, Ran
  <2>4. /\ worker'[NextPid].at = "starting" /\ worker'[NextPid].attempt = 0
        /\ \A q \in Pid : q # NextPid => worker'[q] = worker[q]
    BY <2>1, <2>2 DEF Started, Unborn, TypeOK
  <2>5. QED
    BY <1>2, <2>2, <2>3, <2>4 DEF Quiet, Working
<1>3. ASSUME NEW p \in Pid, NEW w, Changed(p, w), worker' = [worker EXCEPT ![p] = w],
             ~Makes(p, w), DirsKept
      PROVE  Quiet
  <2>1. worker'[p] = w /\ \A q \in Pid : q # p => worker'[q] = worker[q]
    BY <1>3 DEF TypeOK
  <2>2. /\ w.task = worker[p].task /\ w.attempt = worker[p].attempt
        /\ w.at \in Acting => worker[p].at \in Acting
    BY <1>3, ChangedFields
  <2>3. QED
    BY <1>3, <2>1, <2>2 DEF Quiet, Working, Acting
<1>4. QED
  BY <1>1, <1>2, <1>3, StepEffect, MakesIsMaking DEF Effect

\* Directories are never removed.
LEMMA DirsGrow ==
  ASSUME TypeOK, PidInv, DirInv, [Next]_vars
  PROVE  \A t \in Task : attempt_dirs[t] \subseteq attempt_dirs'[t]
<1>1. CASE Quiet
  BY <1>1 DEF Quiet, DirsKept
<1>2. ASSUME NEW p \in Pid, Making(p)
      PROVE  \A t \in Task : attempt_dirs[t] \subseteq attempt_dirs'[t]
  <2>1. state[worker[p].task].attempt \in Nat
    BY <1>2, FarmAssumption DEF Making, TypeOK, State
  <2>2. QED
    BY <1>2, <2>1 DEF Making
<1>3. QED
  BY <1>1, <1>2, QuietOrMaking

\* The attempt of a worker that has one, and its owner, stay.
LEMMA OwnsKept ==
  ASSUME TypeOK, PidInv, DirInv, [Next]_vars, NEW p, NEW t, NEW a, Owns(p, t, a)
  PROVE  Owns(p, t, a)'
<1>1. p \in Pid /\ worker[p].at \notin {"unborn", "starting"}
  BY DEF Owns, DirInv
<1>2. CASE Quiet
  BY <1>1, <1>2 DEF Quiet, Owns, Ran
<1>3. ASSUME NEW q \in Pid, Making(q) PROVE Owns(p, t, a)'
  BY <1>1, <1>3 DEF Making, Owns, Ran
<1>4. QED
  BY <1>2, <1>3, QuietOrMaking

-----------------------------------------------------------------------------
(* DirInv and AttemptDirOwned.                                             *)

LEMMA StepContiguous ==
  ASSUME TypeOK, PidInv, DirInv, [Next]_vars
  PROVE  \A t \in Task : \E m \in 0..MaxWorkers : attempt_dirs'[t] = 1..m
<1>1. CASE Quiet
  BY <1>1 DEF Quiet, DirsKept, DirInv
<1>2. ASSUME NEW p \in Pid, Making(p), NEW t \in Task
      PROVE  \E m \in 0..MaxWorkers : attempt_dirs'[t] = 1..m
  <2>1. CASE t = worker[p].task
    <3>1. state[t].attempt + 1 \in 0..MaxWorkers
      BY <1>2, <2>1, FarmAssumption DEF Making, Pid
    <3>2. attempt_dirs'[t] = 1..(state[t].attempt + 1)
      BY <1>2, <2>1 DEF Making
    <3>3. QED
      BY <3>1, <3>2
  <2>2. CASE t # worker[p].task
    BY <1>2, <2>2 DEF Making, DirInv
  <2>3. QED
    BY <2>1, <2>2
<1>3. QED
  BY <1>1, <1>2, QuietOrMaking

LEMMA StepRanHasDir ==
  ASSUME TypeOK, PidInv, DirInv, [Next]_vars, NEW p \in Pid, Ran(p)'
  PROVE  worker'[p].task \in Task /\ worker'[p].attempt \in attempt_dirs'[worker'[p].task]
<1>1. CASE Quiet
  BY <1>1 DEF Quiet, DirsKept, DirInv, Ran
<1>2. ASSUME NEW q \in Pid, Making(q)
      PROVE  worker'[p].task \in Task /\ worker'[p].attempt \in attempt_dirs'[worker'[p].task]
  <2>1. state[worker[q].task].attempt \in Nat
    BY <1>2, FarmAssumption DEF Making, TypeOK, State
  <2>2. CASE p = q
    <3>1. worker'[q].task = worker[q].task
          /\ worker'[q].attempt = state[worker[q].task].attempt + 1
      BY <1>2 DEF Making, TypeOK
    <3>2. /\ worker[q].task \in Task
          /\ attempt_dirs'[worker[q].task] = 1..(state[worker[q].task].attempt + 1)
      BY <1>2 DEF Making
    <3>3. QED
      BY <2>1, <2>2, <3>1, <3>2
  <2>3. CASE p # q
    <3>1. worker'[p] = worker[p]
      BY <1>2, <2>3 DEF Making
    <3>2. worker[p].task \in Task /\ worker[p].attempt \in attempt_dirs[worker[p].task]
      BY <3>1 DEF DirInv, Ran
    <3>3. QED
      BY <3>1, <3>2, DirsGrow
  <2>4. QED
    BY <2>2, <2>3
<1>3. QED
  BY <1>1, <1>2, QuietOrMaking

LEMMA StepDirHasOwner ==
  ASSUME TypeOK, PidInv, DirInv, [Next]_vars, NEW t \in Task, NEW a \in attempt_dirs'[t]
  PROVE  \E p \in Pid : worker'[p].task = t /\ worker'[p].attempt = a
<1>1. ASSUME a \in attempt_dirs[t]
      PROVE  \E p \in Pid : worker'[p].task = t /\ worker'[p].attempt = a
  <2>1. PICK p \in Pid : worker[p].task = t /\ worker[p].attempt = a
    BY <1>1 DEF DirInv
  <2>2. PICK m \in 0..MaxWorkers : attempt_dirs[t] = 1..m
    BY DEF DirInv
  <2>3. a # 0
    BY <1>1, <2>2
  <2>4. Owns(p, t, a)
    BY <2>1, <2>3 DEF Owns, Ran
  <2>5. Owns(p, t, a)'
    BY <2>4, OwnsKept
  <2>6. QED
    BY <2>5 DEF Owns
<1>2. ASSUME NEW p \in Pid, Making(p), a \notin attempt_dirs[t]
      PROVE  worker'[p].task = t /\ worker'[p].attempt = a
  <2>1. state[worker[p].task].attempt \in Nat
    BY <1>2, FarmAssumption DEF Making, TypeOK, State
  <2>2. t = worker[p].task /\ a = state[t].attempt + 1
    BY <1>2, <2>1 DEF Making
  <2>3. QED
    BY <1>2, <2>2 DEF Making, TypeOK
<1>3. QED
  BY <1>1, <1>2, QuietOrMaking DEF Quiet, DirsKept

\* The stage of a worker tells whether it has an attempt.
Staged(w) ==
  /\ w.at \in {"unborn", "starting"} => w.attempt = 0
  /\ w.at \notin {"unborn", "starting", "gone"} => w.attempt # 0
  /\ w.at # "unborn" => w.task \in Task
  /\ w.beating => w.attempt # 0
  /\ w.at = "ended" => w.result # "none"

LEMMA StepStaged ==
  ASSUME TypeOK, PidInv, DirInv, [Next]_vars
  PROVE  \A p \in Pid : Staged(worker'[p])
<1>0. \A p \in Pid : Staged(worker[p])
  BY DEF DirInv, Staged, Ran
<1>1. CASE WorkersKept
  BY <1>0, <1>1 DEF WorkersKept
<1>2. CASE WorkerAdded
  <2>1. PICK t \in Task : worker' = Started(t)
    BY <1>2 DEF WorkerAdded
  <2>2. NextPid \in Pid
    BY <1>2 DEF WorkerAdded, CanStart
  <2>3. /\ worker'[NextPid] = [Unborn EXCEPT !.at = "starting", !.task = t]
        /\ \A q \in Pid : q # NextPid => worker'[q] = worker[q]
    BY <2>1, <2>2 DEF Started, TypeOK
  <2>4. Staged(worker'[NextPid])
    BY <2>3 DEF Unborn, Staged
  <2>5. QED
    BY <1>0, <2>3, <2>4
<1>3. ASSUME NEW p \in Pid, Making(p)
      PROVE  \A q \in Pid : Staged(worker'[q])
  <2>1. state[worker[p].task].attempt \in Nat
    BY <1>3, FarmAssumption DEF Making, TypeOK, State
  <2>2. /\ worker'[p].at = "made" /\ worker'[p].task = worker[p].task
        /\ worker'[p].attempt = state[worker[p].task].attempt + 1
    BY <1>3 DEF Making, TypeOK
  <2>3. Staged(worker'[p])
    BY <1>3, <2>1, <2>2 DEF Staged, Making
  <2>4. QED
    BY <1>0, <1>3, <2>3 DEF Making
<1>4. ASSUME NEW p \in Pid, NEW w, Changed(p, w), worker' = [worker EXCEPT ![p] = w],
             ~Makes(p, w)
      PROVE  \A q \in Pid : Staged(worker'[q])
  <2>1. worker'[p] = w /\ \A q \in Pid : q # p => worker'[q] = worker[q]
    BY <1>4 DEF TypeOK
  <2>2. /\ w.task = worker[p].task /\ w.attempt = worker[p].attempt
        /\ w.at = "unborn" <=> worker[p].at = "unborn"
        /\ w.at \in {"unborn", "starting"} => w.at = worker[p].at
        /\ w.at \notin {"unborn", "starting", "gone"} =>
             worker[p].at \notin {"unborn", "starting", "gone"}
        /\ w.beating => worker[p].beating \/ worker[p].at = "running"
        /\ w.at = "ended" =>
             w.result # "none" \/ (worker[p].at = "ended" /\ w.result = worker[p].result)
    BY <1>4, ChangedFields
  <2>3. Staged(w)
    BY <1>0, <2>2 DEF Staged
  <2>4. QED
    BY <1>0, <2>1, <2>3
<1>5. QED
  BY <1>1, <1>2, <1>3, <1>4, StepEffect, MakesIsMaking DEF Effect

\* A worker with an attempt can write it down.
LEMMA RanMade ==
  ASSUME DirInv, NEW p \in Pid, worker[p].at \notin {"unborn", "starting", "gone"} \/ worker[p].beating
  PROVE  worker[p].task \in Task /\ Ran(p) /\ Made(worker[p].task, worker[p].attempt)
  BY DEF DirInv, Made

LEMMA StateWriteMade ==
  ASSUME TypeOK, DirInv, NEW t \in Task, NEW new, StateWrite(t, new)
  PROVE  Made(t, new.attempt)
<1>1. Made(t, state[t].attempt) /\ Made(t, 0)
  BY DEF DirInv, Made
<1>2. state[t] \in State
  BY DEF TypeOK
<1>3. CASE new = state[t] \/ new = [state[t] EXCEPT !.lease = "expired"]
  <2>1. new.attempt = state[t].attempt
    BY <1>2, <1>3 DEF State
  <2>2. QED
    BY <1>1, <2>1
<1>4. CASE \E status \in {"prepared", "blocked_storage", "submit_failed"} :
             new = Unleased(status, 0)
  BY <1>1, <1>4 DEF Unleased
<1>5. CASE \E l \in Launcher :
             /\ submission[l][t].at = "claimed"
             /\ new = Unleased("submitting", submission[l][t].previous.attempt)
  BY <1>5 DEF Unleased, DirInv
<1>6. CASE \E p \in Pid : \E status \in {"waiting_for_slot", "running"} :
             /\ worker[p].task = t /\ (worker[p].at \in {"made", "holding"} \/ worker[p].beating)
             /\ new = Leased(p, status)
  BY <1>6, RanMade DEF Leased
<1>7. CASE \E p \in Pid :
             /\ worker[p].task = t /\ worker[p].at = "ended"
             /\ new = [Unleased(worker[p].result, worker[p].attempt) EXCEPT !.pid = p]
  BY <1>7, RanMade DEF Unleased
<1>8. ASSUME NEW r \in Reconciler, reconcile[r].task = t,
             new = [reconcile[r].read EXCEPT !.status = "retryable"]
      PROVE  Made(t, new.attempt)
  <2>1. new.attempt = reconcile[r].read.attempt
    BY <1>8 DEF TypeOK, State
  <2>2. QED
    BY <1>8, <2>1 DEF DirInv
<1>9. QED
  BY <1>3, <1>4, <1>5, <1>6, <1>7, <1>8 DEF StateWrite

LEMMA SubmissionMade ==
  ASSUME TypeOK, DirInv, NEW l \in Launcher, NEW t \in Task, NEW new,
         SubmissionChange(l, t, new)
  PROVE  Made(t, new.previous.attempt)
<1>1. /\ Made(t, state[t].attempt) /\ Made(t, 0)
      /\ Made(t, submission[l][t].previous.attempt)
  BY DEF DirInv, Made
<1>2. NotSubmitting.previous.attempt = 0
  BY DEF NotSubmitting, Unleased
<1>3. [NotSubmitting EXCEPT !.at = "todo"].previous.attempt = 0
  BY DEF NotSubmitting, Unleased
<1>4. \A stage : [submission[l][t] EXCEPT !.at = stage].previous = submission[l][t].previous
  BY DEF TypeOK
<1>5. CASE new = submission[l][t]
  BY <1>1, <1>5
<1>6. CASE new \in {NotSubmitting, [NotSubmitting EXCEPT !.at = "todo"]}
  BY <1>1, <1>2, <1>3, <1>6
<1>7. CASE new = [at |-> "read", previous |-> state[t]]
  BY <1>1, <1>7
<1>8. ASSUME NEW stage, new = [submission[l][t] EXCEPT !.at = stage]
      PROVE  Made(t, new.previous.attempt)
  BY <1>1, <1>4, <1>8
<1>9. QED
  BY <1>5, <1>6, <1>7, <1>8 DEF SubmissionChange

LEMMA ReconcileMade ==
  ASSUME TypeOK, DirInv, NEW r \in Reconciler, NEW new, ReconcileChange(r, new)
  PROVE  new.task \in Task /\ Made(new.task, new.read.attempt)
<1>1. \A t \in Task : Made(t, state[t].attempt) /\ Made(t, 0)
  BY DEF DirInv, Made
<1>2. reconcile[r].task \in Task /\ Made(reconcile[r].task, reconcile[r].read.attempt)
  BY DEF DirInv, TypeOK
<1>3. \A t : NotReconciling(t).task = t /\ NotReconciling(t).read.attempt = 0
  BY DEF NotReconciling, Unleased
<1>4. /\ [reconcile[r] EXCEPT !.at = "absent"].task = reconcile[r].task
      /\ [reconcile[r] EXCEPT !.at = "absent"].read = reconcile[r].read
  BY DEF TypeOK
<1>5. CASE new = reconcile[r]
  BY <1>2, <1>5
<1>6. CASE new = NotReconciling(reconcile[r].task)
  BY <1>1, <1>2, <1>3, <1>6
<1>7. ASSUME NEW t \in Task, new = [at |-> "read", task |-> t, read |-> state[t]]
      PROVE  new.task \in Task /\ Made(new.task, new.read.attempt)
  BY <1>1, <1>7
<1>8. CASE new = [reconcile[r] EXCEPT !.at = "absent"]
  BY <1>2, <1>4, <1>8
<1>9. QED
  BY <1>5, <1>6, <1>7, <1>8 DEF ReconcileChange

LEMMA StepDirInv == TypeOK /\ PidInv /\ DirInv /\ [Next]_vars => DirInv'
<1> SUFFICES ASSUME TypeOK, PidInv, DirInv, [Next]_vars PROVE DirInv'
  OBVIOUS
<1>1. \A p \in Pid : Staged(worker'[p])
  BY StepStaged
<1>2. \A t \in Task : Made(t, state[t].attempt)'
  <2>1. \A t \in Task : StateWrite(t, state'[t])
    BY StepState DEF StateWrites
  <2>2. \A t \in Task : Made(t, state'[t].attempt)
    BY <2>1, StateWriteMade
  <2>3. QED
    BY <2>2, DirsGrow DEF Made
<1>3. \A l \in Launcher : \A t \in Task : Made(t, submission[l][t].previous.attempt)'
  <2>1. \A l \in Launcher : \A t \in Task : SubmissionChange(l, t, submission'[l][t])
    BY StepSubmission DEF SubmissionChanges
  <2>2. \A l \in Launcher : \A t \in Task : Made(t, submission'[l][t].previous.attempt)
    BY <2>1, SubmissionMade
  <2>3. QED
    BY <2>2, DirsGrow DEF Made
<1>4. \A r \in Reconciler : Made(reconcile[r].task, reconcile[r].read.attempt)'
  <2>1. \A r \in Reconciler : ReconcileChange(r, reconcile'[r])
    BY StepReconcile DEF ReconcileChanges
  <2>2. \A r \in Reconciler : /\ reconcile'[r].task \in Task
                              /\ Made(reconcile'[r].task, reconcile'[r].read.attempt)
    BY <2>1, ReconcileMade
  <2>3. QED
    BY <2>2, DirsGrow DEF Made
<1>5. \A p \in Pid : Ran(p)' => /\ worker'[p].task \in Task
                                /\ worker'[p].attempt \in attempt_dirs'[worker'[p].task]
  BY StepRanHasDir
<1>6. \A t \in Task : \A a \in attempt_dirs'[t] :
        \E p \in Pid : worker'[p].task = t /\ worker'[p].attempt = a
  BY StepDirHasOwner
<1>7. \A t \in Task : \E m \in 0..MaxWorkers : attempt_dirs'[t] = 1..m
  BY StepContiguous
<1>8. QED
  BY <1>1, <1>2, <1>3, <1>4, <1>5, <1>6, <1>7 DEF DirInv, Staged, Ran

LEMMA StepDirOwned ==
  TypeOK /\ PidInv /\ DirInv /\ AttemptDirOwned /\ [Next]_vars => AttemptDirOwned'
<1> SUFFICES ASSUME TypeOK, PidInv, DirInv, AttemptDirOwned, [Next]_vars
             PROVE  AttemptDirOwned'
  OBVIOUS
<1>1. CASE Quiet
  BY <1>1 DEF Quiet, AttemptDirOwned, Ran, DirInv
<1>2. ASSUME NEW p \in Pid, Making(p) PROVE AttemptDirOwned'
  <2> DEFINE t == worker[p].task
             a == state[t].attempt
  <2>1. a \in Nat /\ attempt_dirs[t] = 1..a
    BY <1>2, FarmAssumption DEF Making, TypeOK, State
  <2>2. \A q \in Pid : Ran(q) /\ worker[q].task = t => worker[q].attempt # a + 1
    BY <2>1 DEF DirInv
  <2>3. /\ worker'[p].task = t /\ worker'[p].attempt = a + 1
        /\ \A q \in Pid : q # p => worker'[q] = worker[q]
    BY <1>2 DEF Making, TypeOK
  <2>4. QED
    BY <2>2, <2>3 DEF AttemptDirOwned, Ran
<1>3. QED
  BY <1>1, <1>2, QuietOrMaking

-----------------------------------------------------------------------------
(* Leases.                                                                 *)

LEMMA StateWriteOwned ==
  ASSUME TypeOK, DirInv, LeaseInv, NEW t \in Task, NEW new, StateWrite(t, new),
         new.status \in {"waiting_for_slot", "running"}
  PROVE  Owns(new.pid, t, new.attempt)
<1>1. state[t] \in State
  BY DEF TypeOK
<1>2. CASE new = state[t] \/ new = [state[t] EXCEPT !.lease = "expired"]
  <2>1. /\ new.attempt = state[t].attempt /\ new.pid = state[t].pid
        /\ new.status = state[t].status
    BY <1>1, <1>2 DEF State
  <2>2. QED
    BY <2>1 DEF LeaseInv
<1>3. CASE \E status \in {"prepared", "blocked_storage", "submit_failed"} :
             new = Unleased(status, 0)
  BY <1>3 DEF Unleased
<1>4. CASE \E l \in Launcher :
             new = Unleased("submitting", submission[l][t].previous.attempt)
  BY <1>4 DEF Unleased
<1>5. CASE \E p \in Pid : \E status \in {"waiting_for_slot", "running"} :
             /\ worker[p].task = t /\ (worker[p].at \in {"made", "holding"} \/ worker[p].beating)
             /\ new = Leased(p, status)
  BY <1>5, RanMade DEF Leased, Owns
<1>6. ASSUME NEW p \in Pid,
             new = [Unleased(worker[p].result, worker[p].attempt) EXCEPT !.pid = p]
      PROVE  FALSE
  <2>1. new.status = worker[p].result
    BY <1>6 DEF Unleased
  <2>2. QED
    BY <2>1 DEF TypeOK
<1>7. ASSUME NEW r \in Reconciler,
             new = [reconcile[r].read EXCEPT !.status = "retryable"]
      PROVE  FALSE
  BY <1>7 DEF TypeOK, State
<1>8. QED
  BY <1>2, <1>3, <1>4, <1>5, <1>6, <1>7 DEF StateWrite

LEMMA ReconcileOwned ==
  ASSUME TypeOK, LeaseInv, NEW r \in Reconciler, NEW new, ReconcileChange(r, new),
         new.at # "idle"
  PROVE  Owns(new.read.pid, new.task, new.read.attempt)
<1>1. CASE new = reconcile[r]
  BY <1>1 DEF LeaseInv
<1>2. CASE new = NotReconciling(reconcile[r].task)
  BY <1>2 DEF NotReconciling
<1>3. ASSUME NEW t \in Task, state[t].status \in {"running", "waiting_for_slot"},
             new = [at |-> "read", task |-> t, read |-> state[t]]
      PROVE  Owns(new.read.pid, new.task, new.read.attempt)
  BY <1>3 DEF LeaseInv
<1>4. CASE reconcile[r].at = "read" /\ new = [reconcile[r] EXCEPT !.at = "absent"]
  <2>1. new.task = reconcile[r].task /\ new.read = reconcile[r].read
    BY <1>4 DEF TypeOK
  <2>2. QED
    BY <1>4, <2>1 DEF LeaseInv
<1>5. QED
  BY <1>1, <1>2, <1>3, <1>4 DEF ReconcileChange

LEMMA StepLeaseInv ==
  TypeOK /\ PidInv /\ DirInv /\ LeaseInv /\ [Next]_vars => LeaseInv'
<1> SUFFICES ASSUME TypeOK, PidInv, DirInv, LeaseInv, [Next]_vars PROVE LeaseInv'
  OBVIOUS
<1>1. ASSUME NEW t \in Task, state'[t].status \in {"waiting_for_slot", "running"}
      PROVE  Owns(state[t].pid, t, state[t].attempt)'
  <2>1. StateWrite(t, state'[t])
    BY StepState DEF StateWrites
  <2>2. Owns(state'[t].pid, t, state'[t].attempt)
    BY <1>1, <2>1, StateWriteOwned
  <2>3. \A p, a : Owns(p, t, a) => p \in Pid /\ worker'[p].task = t
                                   /\ worker'[p].attempt = a /\ a # 0
    BY OwnsKept DEF Owns, Ran
  <2>4. QED
    BY <2>2, <2>3 DEF Owns, Ran
<1>2. ASSUME NEW r \in Reconciler, reconcile'[r].at # "idle"
      PROVE  Owns(reconcile[r].read.pid, reconcile[r].task, reconcile[r].read.attempt)'
  <2>1. ReconcileChange(r, reconcile'[r])
    BY StepReconcile DEF ReconcileChanges
  <2>2. Owns(reconcile'[r].read.pid, reconcile'[r].task, reconcile'[r].read.attempt)
    BY <1>2, <2>1, ReconcileOwned
  <2>3. \A p, t, a : Owns(p, t, a) => p \in Pid /\ worker'[p].task = t
                                      /\ worker'[p].attempt = a /\ a # 0
    BY OwnsKept DEF Owns, Ran
  <2>4. QED
    BY <2>2, <2>3 DEF Owns, Ran
<1>3. QED
  BY <1>1, <1>2 DEF LeaseInv

-----------------------------------------------------------------------------
(* Retries.                                                                *)

LEMMA SshFailuresCounted ==
  ASSUME TypeOK, [Next]_vars, ssh_failures' = 0
  PROVE  ssh_failures = 0
<1>1. ssh_failures \in Nat
  BY FarmAssumption DEF TypeOK
<1>2. ASSUME NEW l \in Launcher, NEW t \in Task,
             LaunchStep(l) \/ LaunchCrash(l) \/ SubmitStep(l, t)
      PROVE  ssh_failures' \in {ssh_failures, ssh_failures + 1}
  BY <1>2 DEF LaunchStep, LaunchCrash, LaunchCheck, LaunchLock, LaunchRefused,
     LaunchBlocked, LaunchSubmits, LaunchDone, SubmitStep, SubmitRead,
     SubmitClaim, SubmitWrite, SshStarts, SshFails, SubmitFailed
<1>3. ASSUME OtherStep PROVE ssh_failures' \in {ssh_failures, ssh_failures + 1}
  BY <1>3 DEF OtherStep, WorkerStep, WorkerKilled, OrphanEnds, HeartbeatDue, HeartbeatWrites,
     WorkerStarts, WorkerWaits, AcquireSlot, WorkerRuns, CommandEnds,
     WorkerReports, WorkerExits, LeaseExpires, ReconcileReads, ProbeAnswers,
     ProbeFails, ReconcileWrites, OutsideWorker
<1>4. ASSUME RetireLocks \/ RetireMarks \/ RetireReleases \/ UNCHANGED vars
      PROVE  ssh_failures' = ssh_failures
  BY <1>4 DEF RetireLocks, RetireMarks, RetireReleases, OutsideRetire, vars
<1>5. ssh_failures' \in {ssh_failures, ssh_failures + 1}
  BY <1>2, <1>3, <1>4, FarmAssumption DEF Next, OtherStep
<1>6. QED
  BY <1>1, <1>5

\* A retry that disturbs nobody stays one: when the next attempt of the task
\* begins, its directory exists and the retry can not make it again.
LEMMA SafeKept ==
  ASSUME TypeOK, PidInv, DirInv, [Next]_vars, NEW t \in Task, NEW a, Made(t, a), Safe(t, a)
  PROVE  Safe(t, a)'
<1>1. CASE Quiet
  <2>1. ASSUME NEW p \in Pid, Working(p)' PROVE Working(p) /\ worker'[p].task = worker[p].task
    BY <1>1, <2>1 DEF Quiet, Working
  <2>2. QED
    BY <1>1, <2>1 DEF Quiet, DirsKept, Safe, Newest
<1>2. ASSUME NEW p \in Pid, Making(p) PROVE Safe(t, a)'
  <2> DEFINE s == state[worker[p].task].attempt
  <2>1. s \in Nat
    BY <1>2, FarmAssumption DEF Making, TypeOK, State
  <2>2. CASE t = worker[p].task
    <3>1. a \in 0..s
      BY <1>2, <2>1, <2>2 DEF Making, Made
    <3>2. attempt_dirs'[t] = 1..(s + 1)
      BY <1>2, <2>2 DEF Making
    <3>3. a + 1 \in attempt_dirs'[t]
      BY <2>1, <3>1, <3>2
    <3>4. QED
      BY <3>3 DEF Safe, Newest
  <2>3. CASE t # worker[p].task
    <3>1. /\ attempt_dirs'[t] = attempt_dirs[t]
          /\ worker'[p].task # t
          /\ \A q \in Pid : q # p => worker'[q] = worker[q]
      BY <1>2, <2>3 DEF Making, TypeOK
    <3>2. QED
      BY <3>1 DEF Safe, Newest, Working
  <2>4. QED
    BY <2>2, <2>3
<1>3. QED
  BY <1>1, <1>2, QuietOrMaking

\* A task without attempt directories has no worker with an attempt.
LEMMA SafeZero ==
  ASSUME DirInv, NEW t \in Task
  PROVE  Safe(t, 0)
<1>1. PICK m \in 0..MaxWorkers : attempt_dirs[t] = 1..m
  BY DEF DirInv
<1>2. CASE m = 0
  <2>1. attempt_dirs[t] = {}
    BY <1>1, <1>2
  <2>2. ASSUME NEW p \in Pid, Working(p) PROVE worker[p].task # t
    BY <2>1, <2>2 DEF DirInv, Working
  <2>3. QED
    BY <2>2 DEF Safe
<1>3. CASE m # 0
  BY <1>1, <1>3 DEF Safe, Newest
<1>4. QED
  BY <1>2, <1>3

LEMMA StateWriteSafe ==
  ASSUME TypeOK, DirInv, RetryInv, NEW t \in Task, NEW new, StateWrite(t, new),
         new.status \in Open
  PROVE  Safe(t, new.attempt)
<1>1. state[t] \in State
  BY DEF TypeOK
<1>2. CASE new = state[t] \/ new = [state[t] EXCEPT !.lease = "expired"]
  <2>1. new.attempt = state[t].attempt /\ new.status = state[t].status
    BY <1>1, <1>2 DEF State
  <2>2. QED
    BY <2>1 DEF RetryInv
<1>3. CASE \E status \in {"prepared", "blocked_storage", "submit_failed"} :
             new = Unleased(status, 0)
  BY <1>3, SafeZero DEF Unleased
<1>4. ASSUME NEW l \in Launcher, submission[l][t].at = "claimed",
             new = Unleased("submitting", submission[l][t].previous.attempt)
      PROVE  Safe(t, new.attempt)
  BY <1>4 DEF Unleased, RetryInv
<1>5. ASSUME NEW p \in Pid, NEW status \in {"waiting_for_slot", "running"},
             new = Leased(p, status)
      PROVE  FALSE
  BY <1>5 DEF Leased, Open
<1>6. ASSUME NEW p \in Pid,
             new = [Unleased(worker[p].result, worker[p].attempt) EXCEPT !.pid = p]
      PROVE  FALSE
  <2>1. new.status = worker[p].result
    BY <1>6 DEF Unleased
  <2>2. QED
    BY <2>1 DEF TypeOK, Open
<1>7. ASSUME NEW r \in Reconciler, reconcile[r].at = "absent", reconcile[r].task = t,
             new = [reconcile[r].read EXCEPT !.status = "retryable"]
      PROVE  Safe(t, new.attempt)
  <2>1. new.attempt = reconcile[r].read.attempt
    BY <1>7 DEF TypeOK, State
  <2>2. QED
    BY <1>7, <2>1 DEF RetryInv
<1>8. QED
  BY <1>2, <1>3, <1>4, <1>5, <1>6, <1>7 DEF StateWrite

LEMMA SubmissionSafe ==
  ASSUME TypeOK, RetryInv, NEW l \in Launcher, NEW t \in Task, NEW new,
         SubmissionChange(l, t, new), new.at \notin {"done", "todo"}
  PROVE  Safe(t, new.previous.attempt)
<1>1. CASE new = submission[l][t]
  BY <1>1 DEF RetryInv
<1>2. CASE new \in {NotSubmitting, [NotSubmitting EXCEPT !.at = "todo"]}
  BY <1>2 DEF NotSubmitting
<1>3. CASE state[t].status \in Open /\ new = [at |-> "read", previous |-> state[t]]
  BY <1>3 DEF RetryInv
<1>4. ASSUME NEW stage, submission[l][t].at \notin {"done", "todo"},
             new = [submission[l][t] EXCEPT !.at = stage]
      PROVE  Safe(t, new.previous.attempt)
  <2>1. new.previous = submission[l][t].previous
    BY <1>4 DEF TypeOK
  <2>2. QED
    BY <1>4, <2>1 DEF RetryInv
<1>5. QED
  BY <1>1, <1>2, <1>3, <1>4 DEF SubmissionChange

\* A worker that is gone, of the newest attempt, is the last of its task:
\* another one would have an attempt of its own, hence a newer directory.
LEMMA GoneIsSafe ==
  ASSUME DirInv, AttemptDirOwned, RetryInv, NEW t \in Task, NEW a, NEW p,
         Owns(p, t, a), ~Alive(p)
  PROVE  Safe(t, a)
<1> SUFFICES ASSUME Newest(t, a), NEW q \in Pid, Working(q), worker[q].task = t
             PROVE  FALSE
  BY DEF Safe
<1>1. PICK m \in 0..MaxWorkers : attempt_dirs[t] = 1..m
  BY DEF DirInv
<1>2. a \in attempt_dirs[t] /\ a + 1 \notin attempt_dirs[t]
  BY DEF Owns, DirInv, Newest
<1>3. Ran(q) /\ worker[q].attempt \in attempt_dirs[t]
  BY DEF Working, DirInv
<1>4. worker[q].attempt + 1 \notin attempt_dirs[t]
  BY DEF RetryInv, Newest
<1>5. worker[q].attempt = a
  BY <1>1, <1>2, <1>3, <1>4
<1>6. p = q
  BY <1>3, <1>5 DEF AttemptDirOwned, Owns
<1>7. QED
  BY <1>6 DEF Alive, Working

LEMMA ReconcileSafe ==
  ASSUME TypeOK, DirInv, AttemptDirOwned, LeaseInv, RetryInv, ssh_failures' = 0,
         NEW r \in Reconciler, NEW new, ReconcileChange(r, new), new.at = "absent"
  PROVE  Safe(new.task, new.read.attempt)
<1>1. CASE new = reconcile[r]
  BY <1>1 DEF RetryInv
<1>2. CASE new = NotReconciling(reconcile[r].task)
  BY <1>2 DEF NotReconciling
<1>3. ASSUME NEW t \in Task, new = [at |-> "read", task |-> t, read |-> state[t]]
      PROVE  FALSE
  BY <1>3
<1>4. CASE /\ reconcile[r].at = "read" /\ ~Alive(reconcile[r].read.pid)
           /\ new = [reconcile[r] EXCEPT !.at = "absent"]
  <2>1. new.task = reconcile[r].task /\ new.read = reconcile[r].read
    BY <1>4 DEF TypeOK
  <2>2. reconcile[r].task \in Task
    BY DEF TypeOK
  <2>3. Owns(reconcile[r].read.pid, reconcile[r].task, reconcile[r].read.attempt)
    BY <1>4 DEF LeaseInv
  <2>4. QED
    BY <1>4, <2>1, <2>2, <2>3, GoneIsSafe
<1>5. QED
  BY <1>1, <1>2, <1>3, <1>4 DEF ReconcileChange

\* A worker that begins an attempt finds nobody at work on its task.
LEMMA StepWorkingNewest ==
  ASSUME TypeOK, PidInv, DirInv, RetryInv, [Next]_vars, NEW p \in Pid, Working(p)'
  PROVE  Newest(worker[p].task, worker[p].attempt)'
<1>1. CASE Quiet
  <2>1. Working(p) /\ worker'[p].task = worker[p].task /\ worker'[p].attempt = worker[p].attempt
    BY <1>1 DEF Quiet, Working
  <2>2. QED
    BY <1>1, <2>1 DEF Quiet, DirsKept, RetryInv, Newest
<1>2. ASSUME NEW q \in Pid, Making(q)
      PROVE  Newest(worker[p].task, worker[p].attempt)'
  <2> DEFINE t == worker[q].task
             s == state[t].attempt
  <2>1. s \in Nat /\ t \in Task /\ attempt_dirs[t] = 1..s /\ attempt_dirs'[t] = 1..(s + 1)
    BY <1>2, FarmAssumption DEF Making, TypeOK, State
  <2>2. CASE p = q
    <3>1. worker'[q].task = t /\ worker'[q].attempt = s + 1
      BY <1>2 DEF Making, TypeOK
    <3>2. QED
      BY <2>1, <2>2, <3>1 DEF Newest
  <2>3. CASE p # q
    <3>1. worker'[p] = worker[p]
      BY <1>2, <2>3 DEF Making
    <3>2. Working(p)
      BY <3>1 DEF Working
    <3>3. Safe(t, s)
      BY <1>2, <2>1 DEF Making, MayRun, Open, RetryInv
    <3>4. Newest(t, s)
      BY <2>1 DEF Newest
    <3>5. worker[p].task # t
      BY <3>2, <3>3, <3>4 DEF Safe
    <3>6. worker[p].task \in Task
      BY <3>2 DEF DirInv, Working
    <3>7. attempt_dirs'[worker[p].task] = attempt_dirs[worker[p].task]
      BY <1>2, <3>5, <3>6 DEF Making
    <3>8. Newest(worker[p].task, worker[p].attempt)
      BY <3>2 DEF RetryInv
    <3>9. QED
      BY <3>1, <3>7, <3>8 DEF Newest
  <2>4. QED
    BY <2>2, <2>3
<1>3. QED
  BY <1>1, <1>2, QuietOrMaking

LEMMA StepRetryInv ==
  ASSUME TypeOK, PidInv, DirInv, AttemptDirOwned, LeaseInv, RetryInv, [Next]_vars,
         ssh_failures' = 0
  PROVE  RetryInv'
<1>0. \A t \in Task : \A a : Made(t, a) /\ Safe(t, a) =>
        (a + 1 \notin attempt_dirs'[t] => \A p \in Pid : Working(p)' => worker'[p].task # t)
  BY SafeKept DEF Safe, Newest
<1>1. ASSUME NEW t \in Task, state'[t].status \in Open
      PROVE  Safe(t, state[t].attempt)'
  <2>1. StateWrite(t, state'[t])
    BY StepState DEF StateWrites
  <2>2. Safe(t, state'[t].attempt) /\ Made(t, state'[t].attempt)
    BY <1>1, <2>1, StateWriteSafe, StateWriteMade
  <2>3. QED
    BY <1>0, <2>2 DEF Safe, Newest
<1>2. ASSUME NEW l \in Launcher, NEW t \in Task, submission'[l][t].at \notin {"done", "todo"}
      PROVE  Safe(t, submission[l][t].previous.attempt)'
  <2>1. SubmissionChange(l, t, submission'[l][t])
    BY StepSubmission DEF SubmissionChanges
  <2>2. /\ Safe(t, submission'[l][t].previous.attempt)
        /\ Made(t, submission'[l][t].previous.attempt)
    BY <1>2, <2>1, SubmissionSafe, SubmissionMade
  <2>3. QED
    BY <1>0, <2>2 DEF Safe, Newest
<1>3. ASSUME NEW r \in Reconciler, reconcile'[r].at = "absent"
      PROVE  Safe(reconcile[r].task, reconcile[r].read.attempt)'
  <2>1. ReconcileChange(r, reconcile'[r])
    BY StepReconcile DEF ReconcileChanges
  <2>2. reconcile'[r].task \in Task /\ Made(reconcile'[r].task, reconcile'[r].read.attempt)
    BY <2>1, ReconcileMade
  <2>3. Safe(reconcile'[r].task, reconcile'[r].read.attempt)
    BY <1>3, <2>1, ReconcileSafe
  <2>4. QED
    BY <1>0, <2>2, <2>3 DEF Safe, Newest
<1>4. \A p \in Pid : Working(p)' => Newest(worker[p].task, worker[p].attempt)'
  BY StepWorkingNewest
<1>5. QED
  BY <1>1, <1>2, <1>3, <1>4 DEF RetryInv

-----------------------------------------------------------------------------
(* Types.                                                                  *)

LEMMA StateWriteType ==
  ASSUME TypeOK, DirInv, NEW t \in Task, NEW new, StateWrite(t, new)
  PROVE  new \in State
<1> USE FarmAssumption DEF State, Status
<1>1. state[t] \in State
  BY DEF TypeOK
<1>2. CASE new = state[t] \/ new = [state[t] EXCEPT !.lease = "expired"]
  BY <1>1, <1>2
<1>3. CASE \E status \in {"prepared", "blocked_storage", "submit_failed"} :
             new = Unleased(status, 0)
  BY <1>3 DEF Unleased
<1>4. ASSUME NEW l \in Launcher,
             new = Unleased("submitting", submission[l][t].previous.attempt)
      PROVE  new \in State
  <2>1. submission[l][t].previous.attempt \in 0..MaxWorkers
    BY DEF TypeOK
  <2>2. QED
    BY <1>4, <2>1 DEF Unleased
<1>5. ASSUME NEW p \in Pid, NEW status \in {"waiting_for_slot", "running"},
             new = Leased(p, status)
      PROVE  new \in State
  <2>1. worker[p].attempt \in 0..MaxWorkers
    BY DEF TypeOK, Pid
  <2>2. QED
    BY <1>5, <2>1 DEF Leased
<1>6. ASSUME NEW p \in Pid, worker[p].at = "ended",
             new = [Unleased(worker[p].result, worker[p].attempt) EXCEPT !.pid = p]
      PROVE  new \in State
  <2>1. worker[p].attempt \in 0..MaxWorkers
    BY DEF TypeOK, Pid
  <2>2. worker[p].result \in {"pass", "failed"}
    BY <1>6 DEF TypeOK, DirInv
  <2>3. QED
    BY <1>6, <2>1, <2>2 DEF Unleased
<1>7. ASSUME NEW r \in Reconciler,
             new = [reconcile[r].read EXCEPT !.status = "retryable"]
      PROVE  new \in State
  <2>1. reconcile[r].read \in State
    BY DEF TypeOK
  <2>2. QED
    BY <1>7, <2>1
<1>8. QED
  BY <1>2, <1>3, <1>4, <1>5, <1>6, <1>7 DEF StateWrite

Submission == [at : {"done", "todo", "read", "claimed", "ssh", "failed"}, previous : State]
Reconcile == [at : {"idle", "read", "absent"}, task : Task, read : State]

LEMMA SubmissionType ==
  ASSUME TypeOK, NEW l \in Launcher, NEW t \in Task, NEW new, SubmissionChange(l, t, new)
  PROVE  new \in Submission
<1>1. submission[l][t] \in Submission /\ state[t] \in State
  BY DEF TypeOK, Submission
<1>2. NotSubmitting \in Submission
  BY FarmAssumption DEF NotSubmitting, Submission, Unleased, State, Status
<1>3. \A stage \in {"todo", "claimed", "ssh", "failed"} : \A s \in Submission :
        [s EXCEPT !.at = stage] \in Submission
  BY DEF Submission
<1>4. [at |-> "read", previous |-> state[t]] \in Submission
  BY <1>1 DEF Submission
<1>5. QED
  BY <1>1, <1>2, <1>3, <1>4 DEF SubmissionChange

LEMMA ReconcileType ==
  ASSUME TypeOK, NEW r \in Reconciler, NEW new, ReconcileChange(r, new)
  PROVE  new \in Reconcile
<1>1. reconcile[r] \in Reconcile /\ state \in [Task -> State]
  BY DEF TypeOK, Reconcile
<1>2. \A t \in Task : NotReconciling(t) \in Reconcile
  BY FarmAssumption DEF NotReconciling, Reconcile, Unleased, State, Status
<1>3. \A t \in Task : [at |-> "read", task |-> t, read |-> state[t]] \in Reconcile
  BY <1>1 DEF Reconcile
<1>4. [reconcile[r] EXCEPT !.at = "absent"] \in Reconcile
  BY <1>1 DEF Reconcile
<1>5. reconcile[r].task \in Task
  BY <1>1 DEF Reconcile
<1>6. QED
  BY <1>1, <1>2, <1>3, <1>4, <1>5 DEF ReconcileChange

LEMMA StepWorkerType ==
  ASSUME TypeOK, PidInv, DirInv, [Next]_vars
  PROVE  worker' \in [Pid -> WorkerRec]
<1>0. worker \in [Pid -> WorkerRec]
  BY DEF TypeOK, WorkerRec
<1>1. CASE WorkersKept
  BY <1>0, <1>1 DEF WorkersKept
<1>2. CASE WorkerAdded
  <2>1. PICK t \in Task : worker' = Started(t)
    BY <1>2 DEF WorkerAdded
  <2>2. NextPid \in Pid
    BY <1>2 DEF WorkerAdded, CanStart
  <2>3. Unborn \in WorkerRec
    BY FarmAssumption DEF Unborn, WorkerRec, Stages
  <2>4. \A u \in WorkerRec : [u EXCEPT !.at = "starting", !.task = t] \in WorkerRec
    BY DEF WorkerRec, Stages
  <2>5. QED
    BY <1>0, <2>1, <2>2, <2>3, <2>4 DEF Started
<1>3. ASSUME NEW p \in Pid, NEW w, Changed(p, w), worker' = [worker EXCEPT ![p] = w],
             Makes(p, w) => Making(p)
      PROVE  worker' \in [Pid -> WorkerRec]
  <2>1. w \in WorkerRec
    BY <1>3, ChangedFields DEF Making
  <2>2. QED
    BY <1>0, <1>3, <2>1
<1>4. QED
  BY <1>1, <1>2, <1>3, StepEffect, MakesIsMaking DEF Effect

\* claim, the launch and the retirement are written by few steps.
LEMMA StepRestType ==
  ASSUME TypeOK, [Next]_vars
  PROVE  /\ claim' \subseteq Task
         /\ retirement_marker' \in BOOLEAN
         /\ launch_lock' \in Launcher \cup {Retirer, Nobody}
         /\ launch' \in [Launcher -> {"idle", "checked", "locked", "submitting"}]
         /\ retire' \in {"idle", "locked", "marked", "released"}
         /\ ssh_failures' \in 0..MaxSshFailures
<1> USE FarmAssumption DEF TypeOK
<1>1. CASE \E l \in Launcher : LaunchStep(l) \/ LaunchCrash(l)
  BY <1>1 DEF LaunchStep, LaunchCrash, LaunchCheck, LaunchLock, LaunchRefused,
     LaunchBlocked, LaunchSubmits, LaunchDone
<1>2. CASE \E l \in Launcher, t \in Task : SubmitStep(l, t)
  BY <1>2 DEF SubmitStep, SubmitRead, SubmitClaim, SubmitWrite, SshStarts, SshFails,
     SubmitFailed
<1>3. CASE OtherStep
  <2>1. UNCHANGED <<claim, retirement_marker, launch_lock, launch, retire>>
    BY <1>3 DEF OtherStep, WorkerStep, WorkerKilled, OrphanEnds, HeartbeatDue, HeartbeatWrites,
       WorkerStarts, WorkerWaits, AcquireSlot, WorkerRuns, CommandEnds,
       WorkerReports, WorkerExits, LeaseExpires, ReconcileReads, ProbeAnswers,
       ProbeFails, ReconcileWrites, OutsideWorker, OutsideReconcile
  <2>2. \/ ssh_failures' = ssh_failures
        \/ ssh_failures < MaxSshFailures /\ ssh_failures' = ssh_failures + 1
    BY <1>3 DEF OtherStep, WorkerStep, WorkerKilled, OrphanEnds, HeartbeatDue, HeartbeatWrites,
       WorkerStarts, WorkerWaits, AcquireSlot, WorkerRuns, CommandEnds,
       WorkerReports, WorkerExits, LeaseExpires, ReconcileReads, ProbeAnswers,
       ProbeFails, ReconcileWrites, OutsideWorker
  <2>3. QED
    BY <2>1, <2>2
<1>4. CASE RetireLocks \/ RetireMarks \/ RetireReleases \/ UNCHANGED vars
  BY <1>4 DEF RetireLocks, RetireMarks, RetireReleases, OutsideRetire, vars
<1>5. QED
  BY <1>1, <1>2, <1>3, <1>4 DEF Next, OtherStep

LEMMA StepTypeOK == TypeOK /\ PidInv /\ DirInv /\ [Next]_vars => TypeOK'
<1> SUFFICES ASSUME TypeOK, PidInv, DirInv, [Next]_vars PROVE TypeOK'
  OBVIOUS
<1>1. state' \in [Task -> State]
  <2>1. /\ state' = [t \in Task |-> state'[t]]
        /\ \A t \in Task : state'[t] \in State
    BY StepState, StateWriteType DEF StateWrites
  <2>2. QED
    BY <2>1
<1>2. submission' \in [Launcher -> [Task -> Submission]]
  <2>1. /\ submission' = [l \in Launcher |-> submission'[l]]
        /\ \A l \in Launcher : /\ submission'[l] = [t \in Task |-> submission'[l][t]]
                               /\ \A t \in Task : submission'[l][t] \in Submission
    BY StepSubmission, SubmissionType DEF SubmissionChanges
  <2>2. \A l \in Launcher : submission'[l] \in [Task -> Submission]
    BY <2>1
  <2>3. QED
    BY <2>1, <2>2
<1>3. reconcile' \in [Reconciler -> Reconcile]
  <2>1. /\ reconcile' = [r \in Reconciler |-> reconcile'[r]]
        /\ \A r \in Reconciler : reconcile'[r] \in Reconcile
    BY StepReconcile, ReconcileType DEF ReconcileChanges
  <2>2. QED
    BY <2>1
<1>4. DOMAIN attempt_dirs' = Task
  BY QuietOrMaking DEF Quiet, DirsKept, Making, TypeOK
<1>5. \A t \in Task : attempt_dirs'[t] \subseteq Pid
  BY StepContiguous, FarmAssumption DEF Pid
<1>6. worker' \in [Pid -> WorkerRec]
  BY StepWorkerType
<1>7. QED
  BY <1>1, <1>2, <1>3, <1>4, <1>5, <1>6, StepRestType
     DEF TypeOK, Submission, Reconcile, WorkerRec

-----------------------------------------------------------------------------
(* The theorems.                                                           *)

LEMMA InitIInv == Init => IInv
<1> SUFFICES ASSUME Init PROVE IInv
  OBVIOUS
<1> USE FarmAssumption DEF Init, Unborn
<1>0. \A status \in Status : Unleased(status, 0) \in State
  BY DEF Unleased, State
<1>1. TypeOK
  <2>1. state \in [Task -> State]
    BY <1>0 DEF Status
  <2>2. submission \in [Launcher -> [Task -> Submission]]
    BY <1>0 DEF NotSubmitting, Submission, Status
  <2>3. reconcile \in [Reconciler -> Reconcile]
    BY <1>0 DEF NotReconciling, Reconcile, Status
  <2>4. worker \in [Pid -> WorkerRec]
    BY DEF WorkerRec, Stages
  <2>5. /\ claim \subseteq Task /\ retirement_marker \in BOOLEAN
        /\ DOMAIN attempt_dirs = Task /\ \A t \in Task : attempt_dirs[t] \subseteq Pid
        /\ launch_lock \in Launcher \cup {Retirer, Nobody}
        /\ launch \in [Launcher -> {"idle", "checked", "locked", "submitting"}]
        /\ retire \in {"idle", "locked", "marked", "released"}
    OBVIOUS
  <2>6. ssh_failures \in 0..MaxSshFailures
    OBVIOUS
  <2> HIDE DEF Init
  <2>7. QED
    BY <2>1, <2>2, <2>3, <2>4, <2>5, <2>6 DEF TypeOK, Submission, Reconcile, WorkerRec
<1>2. LockInv
  BY DEF LockInv, NotSubmitting
<1>3. SlotInv
  BY DEF SlotInv
<1>4. PidInv
  <2>1. \A p \in Pid : worker[p].at # "unborn" <=> p <= 0
    BY DEF Pid
  <2>2. QED
    BY <2>1 DEF PidInv
<1>5. DirInv
  <2>1. \A t \in Task : attempt_dirs[t] = 1..0
    OBVIOUS
  <2>2. \A p \in Pid : Staged(worker[p]) /\ ~Ran(p)
    BY DEF Staged, Ran
  <2>3. /\ \A t \in Task : state[t].attempt = 0
        /\ \A l \in Launcher : \A t \in Task : submission[l][t].previous.attempt = 0
        /\ \A r \in Reconciler : reconcile[r].read.attempt = 0
    BY DEF Unleased, NotSubmitting, NotReconciling
  <2>4. \A t : Made(t, 0)
    BY DEF Made
  <2>5. 0 \in 0..MaxWorkers /\ 1..0 = {}
    OBVIOUS
  <2> HIDE DEF Init
  <2>6. QED
    BY <2>1, <2>2, <2>3, <2>4, <2>5 DEF DirInv, Staged, Ran
<1>6. AttemptDirOwned
  BY DEF AttemptDirOwned, Ran
<1>7. LeaseInv
  BY DEF LeaseInv, Unleased, NotReconciling
<1>8. RetryInv
  BY DEF RetryInv, Safe, Working, NotSubmitting, NotReconciling
<1>9. CommandInv
  BY DEF CommandInv
<1>10. QED
  BY <1>1, <1>2, <1>3, <1>4, <1>5, <1>6, <1>7, <1>8, <1>9 DEF IInv

LEMMA StepIInv == IInv /\ [Next]_vars => IInv'
<1> SUFFICES ASSUME IInv, [Next]_vars PROVE IInv'
  OBVIOUS
<1>1. ssh_failures' = 0 => RetryInv'
  BY StepRetryInv, SshFailuresCounted DEF IInv
<1>2. QED
  BY <1>1, StepTypeOK, StepLockInv, StepSlotInv, StepCommandInv, StepPidInv,
     StepDirInv, StepDirOwned, StepLeaseInv DEF IInv

LEMMA Invariance == Spec => []IInv
  BY InitIInv, StepIInv, PTL DEF Spec

\* Types.  No attempt number passes the number of workers that ran: a worker
\* that starts leaves room for its own attempt (AttemptFits).
THEOREM TypeCorrect == Spec => []TypeOK
  BY Invariance, PTL DEF IInv

\* Launch and retirement exclude each other through launch.lock: once the
\* retirement marker is written no launcher has a submission left, whatever
\* its check before the lock saw.
THEOREM RetirementExcludesLaunch == Spec => []NoSubmissionAfterRetirement
<1>1. IInv => NoSubmissionAfterRetirement
  BY DEF IInv, LockInv, NoSubmissionAfterRetirement
<1>2. QED
  BY <1>1, Invariance, PTL

\* The slot locks bound the workers between lock and unlock, whose slots are
\* different numbers of 1..Slots, and with them the commands that still have
\* their worker: a command runs outside of a slot only after its worker was
\* killed under it.
THEOREM SlotsBoundCommands == Spec => []SlotsRespected
<1>1. ASSUME IInv PROVE SlotsRespected
  <2> DEFINE H == InSlot
             f == [p \in H |-> worker[p].slot]
  <2>1. \A p \in H : worker[p].slot \in 1..Slots
    BY <1>1, FarmAssumption DEF IInv, TypeOK, SlotInv, InSlot
  <2>2. \A p, q \in H : worker[p].slot = worker[q].slot => p = q
    BY <1>1 DEF IInv, SlotInv, InSlot
  <2>3. f \in Injection(H, 1..Slots)
    BY <2>1, <2>2 DEF Injection, IsInjective
  <2>4. IsFiniteSet(1..Slots) /\ Cardinality(1..Slots) = Slots
    BY FS_Interval, FarmAssumption
  <2> HIDE DEF H, f
  <2>5. Cardinality(H) <= Cardinality(1..Slots)
    BY <2>3, <2>4, FS_Injection
  <2>6. Commands \subseteq InSlot \cup Orphans
    BY <1>1 DEF IInv, CommandInv, Commands, InSlot, Orphans, Alive
  <2>7. QED
    BY <2>4, <2>5, <2>6 DEF H, SlotsRespected
<1>2. QED
  BY <1>1, Invariance, PTL

\* No two workers ever write into the same attempt directory, whatever is
\* resubmitted, reconciled or killed, and whether SSH fails or not.
THEOREM AttemptsAreSeparate == Spec => []AttemptDirOwned
  BY Invariance, PTL DEF IInv

\* As long as SSH has not failed no task has two workers with an attempt: each
\* would have the newest directory of the task, and directories are not shared.
THEOREM TasksAreExclusive == Spec => []OneWorkerPerTask
<1>1. ASSUME IInv, ssh_failures = 0, NEW p \in Pid, NEW q \in Pid, p # q,
             Working(p), Working(q), worker[p].task = worker[q].task
      PROVE  FALSE
  <2> DEFINE t == worker[p].task
  <2>1. /\ t \in Task /\ Ran(p) /\ Ran(q)
        /\ worker[p].attempt \in attempt_dirs[t] /\ worker[q].attempt \in attempt_dirs[t]
    BY <1>1 DEF IInv, DirInv, Working
  <2>2. PICK m \in 0..MaxWorkers : attempt_dirs[t] = 1..m
    BY <1>1, <2>1 DEF IInv, DirInv
  <2>3. /\ worker[p].attempt + 1 \notin attempt_dirs[t]
        /\ worker[q].attempt + 1 \notin attempt_dirs[t]
    BY <1>1 DEF IInv, RetryInv, Newest
  <2>4. worker[p].attempt = worker[q].attempt
    BY <2>1, <2>2, <2>3
  <2>5. QED
    BY <1>1, <2>1, <2>4 DEF IInv, AttemptDirOwned
<1>2. IInv => OneWorkerPerTask
  BY <1>1 DEF OneWorkerPerTask
<1>3. QED
  BY <1>2, Invariance, PTL
=============================================================================
