--------------------------- MODULE ValidationFarm ---------------------------
(***************************************************************************)
(* The validation farm: launchers submit the tasks of a farm to their node *)
(* over SSH, a worker per submission runs the task's command under a slot  *)
(* lock of the node and reports through the task's state.json, reconcilers *)
(* make the tasks of dead workers retryable, and the retirement of old run *)
(* trees removes a farm.  They share files only: launch.lock and the slot  *)
(* locks (flock, released by the kernel when the holder dies), one state   *)
(* file and one submission.claim per task, the attempt directories and the *)
(* retirement marker.  A state file is replaced as a whole (write_json     *)
(* renames a temporary), so reads and writes of it are atomic.             *)
(***************************************************************************)
EXTENDS Naturals, FiniteSets

CONSTANTS
  Task,
  Launcher, Reconciler, \* processes that run the launch and reconcile commands
  MaxWorkers,           \* bound: workers ever started
  Slots,                \* slots_per_node
  MaxSshFailures        \* bound: SSH calls that exit nonzero on their own

Retirer == "retirement"
Nobody == "nobody"
Pid == 1..MaxWorkers
NoPid == 0

ASSUME FarmAssumption ==
  /\ Task # {}
  /\ MaxWorkers \in Nat /\ Slots \in Nat \ {0} /\ MaxSshFailures \in Nat
  /\ Retirer \notin Launcher /\ Nobody \notin Launcher \cup {Retirer}

VARIABLES
  state,                \* state[t]: the task's state.json
  claim,                \* tasks with a submission.claim file
  attempt_dirs,         \* attempt_dirs[t]: numbers of the attempt directories
  retirement_marker,    \* FARM_RETIREMENT_MARKER exists
  launch_lock,          \* holder of launch.lock
  launch,               \* launch[l]: where launcher l is
  submission,           \* submission[l][t]: where l's submit(t) is, what it read
  worker,               \* worker[p]: the worker process of pid p
  reconcile,            \* reconcile[r]: where r is, the task and state it read
  retire,               \* where the retirement is
  ssh_failures          \* SSH calls that failed so far

vars == <<state, claim, attempt_dirs, retirement_marker, launch_lock, launch,
          submission, worker, reconcile, retire, ssh_failures>>

-----------------------------------------------------------------------------
(* State files.  An absent attempt, pid or lease is 0, NoPid or "none".    *)

Status == {"prepared", "blocked_storage", "submitting", "submit_failed",
           "waiting_for_slot", "running", "pass", "failed", "retryable"}
State == [status : Status, attempt : 0..MaxWorkers, pid : {NoPid} \cup Pid,
          lease : {"none", "valid", "expired"}]

Unleased(status, attempt) ==
  [status |-> status, attempt |-> attempt, pid |-> NoPid, lease |-> "none"]

Written(t, s) == [state EXCEPT ![t] = s]

-----------------------------------------------------------------------------
(* Worker processes.                                                       *)

Stages == {"unborn", "starting", "made", "waiting", "holding", "running",
           "ended", "reported", "gone"}
Unborn == [at |-> "unborn", task |-> Nobody, attempt |-> 0, slot |-> 0,
           result |-> "none", beating |-> FALSE, command |-> FALSE]

Alive(p) == worker[p].at \notin {"unborn", "gone"}
Dead(p) == [Unborn EXCEPT !.at = "gone", !.task = worker[p].task,
                          !.attempt = worker[p].attempt]

\* nohup setsid worker: the next pid of the node.
NextPid == Cardinality({p \in Pid : worker[p].at # "unborn"}) + 1
CanStart == NextPid \in Pid
Started(t) == [worker EXCEPT ![NextPid] = [Unborn EXCEPT !.at = "starting", !.task = t]]

\* The state a worker writes while it lives.
Leased(p, status) ==
  [status |-> status, attempt |-> worker[p].attempt, pid |-> p, lease |-> "valid"]

-----------------------------------------------------------------------------
NotSubmitting == [at |-> "done", previous |-> Unleased("prepared", 0)]
NotReconciling(t) == [at |-> "idle", task |-> t, read |-> Unleased("prepared", 0)]

\* prepare_validation_farm: the preflight decides for all tasks at once.
Init ==
  /\ \E status \in {"prepared", "blocked_storage"} :
       state = [t \in Task |-> Unleased(status, 0)]
  /\ claim = {}
  /\ attempt_dirs = [t \in Task |-> {}]
  /\ retirement_marker = FALSE
  /\ launch_lock = Nobody
  /\ launch = [l \in Launcher |-> "idle"]
  /\ submission = [l \in Launcher |-> [t \in Task |-> NotSubmitting]]
  /\ worker = [p \in Pid |-> Unborn]
  /\ reconcile = [r \in Reconciler |-> NotReconciling(CHOOSE t \in Task : TRUE)]
  /\ retire = "idle"
  /\ ssh_failures = 0

-----------------------------------------------------------------------------
(* launch_validation_farm.                                                 *)

LaunchCheck(l) ==
  /\ launch[l] = "idle"
  /\ ~retirement_marker
  /\ launch' = [launch EXCEPT ![l] = "checked"]
  /\ UNCHANGED <<state, claim, attempt_dirs, retirement_marker, launch_lock,
                 submission, worker, reconcile, retire, ssh_failures>>

\* flock(LOCK_EX | LOCK_NB) on launch.lock, or "already in progress".
LaunchLock(l) ==
  /\ launch[l] = "checked"
  /\ \/ /\ launch_lock = Nobody
        /\ launch_lock' = l
        /\ launch' = [launch EXCEPT ![l] = "locked"]
     \/ /\ launch_lock # Nobody
        /\ launch' = [launch EXCEPT ![l] = "idle"]
        /\ UNCHANGED launch_lock
  /\ UNCHANGED <<state, claim, attempt_dirs, retirement_marker, submission,
                 worker, reconcile, retire, ssh_failures>>

\* The marker is looked for again under the lock.
LaunchRefused(l) ==
  /\ launch[l] = "locked"
  /\ retirement_marker
  /\ launch_lock' = Nobody
  /\ launch' = [launch EXCEPT ![l] = "idle"]
  /\ UNCHANGED <<state, claim, attempt_dirs, retirement_marker, submission,
                 worker, reconcile, retire, ssh_failures>>

\* The storage preflight fails: nothing is submitted.
LaunchBlocked(l) ==
  /\ launch[l] = "locked"
  /\ ~retirement_marker
  /\ state' = [t \in Task |->
       IF state[t].status \in {"prepared", "submit_failed", "blocked_storage"}
       THEN Unleased("blocked_storage", 0) ELSE state[t]]
  /\ launch_lock' = Nobody
  /\ launch' = [launch EXCEPT ![l] = "idle"]
  /\ UNCHANGED <<claim, attempt_dirs, retirement_marker, submission, worker,
                 reconcile, retire, ssh_failures>>

\* Faulty variant: the marker is only looked for before the lock is taken.
SubmitsUnchecked(l) ==
  /\ launch[l] = "locked"
  /\ launch' = [launch EXCEPT ![l] = "submitting"]
  /\ submission' = [submission EXCEPT ![l] =
       [t \in Task |-> [NotSubmitting EXCEPT !.at = "todo"]]]
  /\ UNCHANGED <<state, claim, attempt_dirs, retirement_marker, launch_lock,
                 worker, reconcile, retire, ssh_failures>>

\* It passes: blocked tasks are prepared again and every task gets a submit.
LaunchSubmits(l) ==
  /\ launch[l] = "locked"
  /\ ~retirement_marker
  /\ state' = [t \in Task |->
       IF state[t].status = "blocked_storage"
       THEN Unleased("prepared", 0) ELSE state[t]]
  /\ launch' = [launch EXCEPT ![l] = "submitting"]
  /\ submission' = [submission EXCEPT ![l] =
       [t \in Task |-> [NotSubmitting EXCEPT !.at = "todo"]]]
  /\ UNCHANGED <<claim, attempt_dirs, retirement_marker, launch_lock, worker,
                 reconcile, retire, ssh_failures>>

LaunchDone(l) ==
  /\ launch[l] = "submitting"
  /\ \A t \in Task : submission[l][t].at = "done"
  /\ launch_lock' = Nobody
  /\ launch' = [launch EXCEPT ![l] = "idle"]
  /\ UNCHANGED <<state, claim, attempt_dirs, retirement_marker, submission,
                 worker, reconcile, retire, ssh_failures>>

\* The launcher is killed; the kernel drops its lock.
LaunchCrash(l) ==
  /\ launch[l] \in {"locked", "submitting"}
  /\ launch_lock' = Nobody
  /\ launch' = [launch EXCEPT ![l] = "idle"]
  /\ submission' = [submission EXCEPT ![l] = [t \in Task |-> NotSubmitting]]
  /\ UNCHANGED <<state, claim, attempt_dirs, retirement_marker, worker,
                 reconcile, retire, ssh_failures>>

-----------------------------------------------------------------------------
(* submit, one thread of the pool per task.                                *)

At(l, t, stage) == submission[l][t].at = stage
Goto(l, t, stage) == submission' = [submission EXCEPT ![l][t].at = stage]
Finished(l, t) == submission' = [submission EXCEPT ![l][t] = NotSubmitting]

SubmitRead(l, t) ==
  /\ At(l, t, "todo")
  /\ IF state[t].status \in {"prepared", "submit_failed", "retryable"}
     THEN submission' = [submission EXCEPT ![l][t] =
            [at |-> "read", previous |-> state[t]]]
     ELSE Finished(l, t)
  /\ UNCHANGED <<state, claim, attempt_dirs, retirement_marker, launch_lock,
                 launch, worker, reconcile, retire, ssh_failures>>

\* A retry drops the old claim first; O_EXCL refuses a claim that is there.
SubmitClaim(l, t) ==
  /\ At(l, t, "read")
  /\ IF submission[l][t].previous.status = "prepared" /\ t \in claim
     THEN Finished(l, t) /\ UNCHANGED claim
     ELSE Goto(l, t, "claimed") /\ claim' = claim \cup {t}
  /\ UNCHANGED <<state, attempt_dirs, retirement_marker, launch_lock, launch,
                 worker, reconcile, retire, ssh_failures>>

\* Faulty variant: the submission already counts the attempt.
SubmitCountsAttempt(l, t) ==
  /\ At(l, t, "claimed")
  /\ state' = Written(t, Unleased("submitting", submission[l][t].previous.attempt + 1))
  /\ Goto(l, t, "ssh")
  /\ UNCHANGED <<claim, attempt_dirs, retirement_marker, launch_lock, launch,
                 worker, reconcile, retire, ssh_failures>>

SubmitWrite(l, t) ==
  /\ At(l, t, "claimed")
  /\ state' = Written(t, Unleased("submitting", submission[l][t].previous.attempt))
  /\ Goto(l, t, "ssh")
  /\ UNCHANGED <<claim, attempt_dirs, retirement_marker, launch_lock, launch,
                 worker, reconcile, retire, ssh_failures>>

SshStarts(l, t) ==
  /\ At(l, t, "ssh")
  /\ CanStart
  /\ worker' = Started(t)
  /\ Finished(l, t)
  /\ UNCHANGED <<state, claim, attempt_dirs, retirement_marker, launch_lock,
                 launch, reconcile, retire, ssh_failures>>

\* ssh exits nonzero, before or after the remote shell started the worker.
SshFails(l, t) ==
  /\ At(l, t, "ssh")
  /\ ssh_failures < MaxSshFailures
  /\ \/ UNCHANGED worker
     \/ CanStart /\ worker' = Started(t)
  /\ ssh_failures' = ssh_failures + 1
  /\ Goto(l, t, "failed")
  /\ UNCHANGED <<state, claim, attempt_dirs, retirement_marker, launch_lock,
                 launch, reconcile, retire>>

SubmitFailed(l, t) ==
  /\ At(l, t, "failed")
  /\ state' = Written(t, Unleased("submit_failed", 0))
  /\ claim' = claim \ {t}
  /\ Finished(l, t)
  /\ UNCHANGED <<attempt_dirs, retirement_marker, launch_lock, launch, worker,
                 reconcile, retire, ssh_failures>>

-----------------------------------------------------------------------------
(* run_validation_farm_task, and its heartbeat thread.                     *)

\* What a worker's step leaves alone whether or not it writes the state file.
OutsideWorker == <<claim, retirement_marker, launch_lock, launch, submission,
                   reconcile, retire, ssh_failures>>

MayRun(t) == ~retirement_marker /\ state[t].status \in {"prepared", "submitting", "retryable"}

\* Faulty variant: mkdir(exist_ok=True).
StartsAnywhere(p) ==
  /\ worker[p].at = "starting"
  /\ LET t == worker[p].task
         attempt == state[t].attempt + 1
     IN IF MayRun(t)
        THEN /\ attempt_dirs' = [attempt_dirs EXCEPT ![t] = @ \cup {attempt}]
             /\ worker' = [worker EXCEPT ![p].at = "made", ![p].attempt = attempt]
        ELSE /\ worker' = [worker EXCEPT ![p] = Dead(p)]
             /\ UNCHANGED attempt_dirs
  /\ UNCHANGED state /\ UNCHANGED OutsideWorker

\* mkdir(exist_ok=False) of the next attempt's directory, or the worker dies.
WorkerStarts(p) ==
  /\ worker[p].at = "starting"
  /\ LET t == worker[p].task
         attempt == state[t].attempt + 1
     IN IF MayRun(t) /\ attempt \notin attempt_dirs[t]
        THEN /\ attempt_dirs' = [attempt_dirs EXCEPT ![t] = @ \cup {attempt}]
             /\ worker' = [worker EXCEPT ![p].at = "made", ![p].attempt = attempt]
        ELSE /\ worker' = [worker EXCEPT ![p] = Dead(p)]
             /\ UNCHANGED attempt_dirs
  /\ UNCHANGED state /\ UNCHANGED OutsideWorker

WorkerWaits(p) ==
  /\ worker[p].at = "made"
  /\ state' = Written(worker[p].task, Leased(p, "waiting_for_slot"))
  /\ worker' = [worker EXCEPT ![p].at = "waiting"]
  /\ UNCHANGED attempt_dirs /\ UNCHANGED OutsideWorker

\* Faulty variant: a shared instead of an exclusive lock.
AnySlot == 1..Slots

FreeSlots == {s \in 1..Slots : \A p \in Pid : worker[p].slot # s}

AcquireSlot(p) ==
  /\ worker[p].at = "waiting"
  /\ \E s \in FreeSlots :
       worker' = [worker EXCEPT ![p].at = "holding", ![p].slot = s]
  /\ UNCHANGED <<state, attempt_dirs>> /\ UNCHANGED OutsideWorker

\* The state is written and the command started, a child process.
WorkerRuns(p) ==
  /\ worker[p].at = "holding"
  /\ state' = Written(worker[p].task, Leased(p, "running"))
  /\ worker' = [worker EXCEPT ![p].at = "running", ![p].command = TRUE]
  /\ UNCHANGED attempt_dirs /\ UNCHANGED OutsideWorker

\* The heartbeat's wait times out, and some time later its write lands.
HeartbeatDue(p) ==
  /\ worker[p].at = "running" /\ ~worker[p].beating
  /\ worker' = [worker EXCEPT ![p].beating = TRUE]
  /\ UNCHANGED <<state, attempt_dirs>> /\ UNCHANGED OutsideWorker

HeartbeatWrites(p) ==
  /\ worker[p].beating
  /\ state' = Written(worker[p].task, Leased(p, "running"))
  /\ worker' = [worker EXCEPT ![p].beating = FALSE]
  /\ UNCHANGED attempt_dirs /\ UNCHANGED OutsideWorker

\* The command returns and stop_heartbeat is set.
CommandEnds(p) ==
  /\ worker[p].at = "running"
  /\ \E result \in {"pass", "failed"} :
       worker' = [worker EXCEPT ![p].at = "ended", ![p].result = result,
                                ![p].command = FALSE]
  /\ UNCHANGED <<state, attempt_dirs>> /\ UNCHANGED OutsideWorker

\* join(timeout=5) may give up on a heartbeat that is still writing.
WorkerReports(p) ==
  /\ worker[p].at = "ended"
  /\ state' = Written(worker[p].task,
       [Unleased(worker[p].result, worker[p].attempt) EXCEPT !.pid = p])
  /\ worker' = [worker EXCEPT ![p].at = "reported"]
  /\ UNCHANGED attempt_dirs /\ UNCHANGED OutsideWorker

\* Faulty variant: the slot is kept.
ExitsHoldingSlot(p) ==
  /\ worker[p].at = "reported"
  /\ worker' = [worker EXCEPT ![p] = [Dead(p) EXCEPT !.slot = worker[p].slot]]
  /\ UNCHANGED <<state, attempt_dirs>> /\ UNCHANGED OutsideWorker

\* The slot is unlocked and the process ends, its daemon thread with it.
WorkerExits(p) ==
  /\ worker[p].at = "reported"
  /\ worker' = [worker EXCEPT ![p] = Dead(p)]
  /\ UNCHANGED <<state, attempt_dirs>> /\ UNCHANGED OutsideWorker

\* The worker is killed anywhere.  The kernel drops its slot lock, which its
\* command does not inherit; the command runs on.
WorkerKilled(p) ==
  /\ Alive(p)
  /\ worker' = [worker EXCEPT ![p] = [Dead(p) EXCEPT !.command = worker[p].command]]
  /\ UNCHANGED <<state, attempt_dirs>> /\ UNCHANGED OutsideWorker

\* The command of a killed worker ends, and nobody is told.
OrphanEnds(p) ==
  /\ worker[p].at = "gone" /\ worker[p].command
  /\ worker' = [worker EXCEPT ![p].command = FALSE]
  /\ UNCHANGED <<state, attempt_dirs>> /\ UNCHANGED OutsideWorker

\* Time passes the lease_expires_at of a state file.
LeaseExpires(t) ==
  /\ state[t].lease = "valid"
  /\ state' = [state EXCEPT ![t].lease = "expired"]
  /\ UNCHANGED <<worker, attempt_dirs>> /\ UNCHANGED OutsideWorker

-----------------------------------------------------------------------------
(* reconcile_validation_farm: read, probe over SSH, write back.            *)

OutsideReconcile == <<claim, attempt_dirs, retirement_marker, launch_lock,
                      launch, submission, worker, retire>>

ReconcileReads(r, t) ==
  /\ reconcile[r].at = "idle"
  /\ ~retirement_marker
  /\ state[t].status \in {"running", "waiting_for_slot"}
  /\ state[t].lease = "expired"
  /\ reconcile' = [reconcile EXCEPT ![r] =
       [at |-> "read", task |-> t, read |-> state[t]]]
  /\ UNCHANGED <<state, ssh_failures>> /\ UNCHANGED OutsideReconcile

\* Faulty variant: an expired lease is enough, the answer is not looked at.
ProbeIgnored(r) ==
  /\ reconcile[r].at = "read"
  /\ reconcile' = [reconcile EXCEPT ![r].at = "absent"]
  /\ UNCHANGED <<state, ssh_failures>> /\ UNCHANGED OutsideReconcile

\* kill -0 pid answers, exit code 0 for a live process.
ProbeAnswers(r) ==
  /\ reconcile[r].at = "read"
  /\ reconcile' = IF Alive(reconcile[r].read.pid)
                  THEN [reconcile EXCEPT ![r] = NotReconciling(@.task)]
                  ELSE [reconcile EXCEPT ![r].at = "absent"]
  /\ UNCHANGED <<state, ssh_failures>> /\ UNCHANGED OutsideReconcile

\* ssh itself exits nonzero, which the code takes for an absent worker.
ProbeFails(r) ==
  /\ reconcile[r].at = "read"
  /\ ssh_failures < MaxSshFailures
  /\ ssh_failures' = ssh_failures + 1
  /\ reconcile' = [reconcile EXCEPT ![r].at = "absent"]
  /\ UNCHANGED state /\ UNCHANGED OutsideReconcile

ReconcileWrites(r) ==
  /\ reconcile[r].at = "absent"
  /\ state' = Written(reconcile[r].task,
                      [reconcile[r].read EXCEPT !.status = "retryable"])
  /\ reconcile' = [reconcile EXCEPT ![r] = NotReconciling(@.task)]
  /\ UNCHANGED ssh_failures /\ UNCHANGED OutsideReconcile

-----------------------------------------------------------------------------
(* apply_legacy_run_retirement, as far as it touches a farm.                   *)

OutsideRetire == <<state, claim, attempt_dirs, launch, submission, worker,
                   reconcile, ssh_failures>>

Protected == \E t \in Task : state[t].status \notin {"pass", "failed"}

\* Take launch.lock; a protected farm is refused and the lock given back.
RetireLocks ==
  /\ retire = "idle" /\ launch_lock = Nobody /\ ~Protected
  /\ launch_lock' = Retirer
  /\ retire' = "locked"
  /\ UNCHANGED retirement_marker /\ UNCHANGED OutsideRetire

\* Marker, top-level rename, then the lock is released.
RetireMarks ==
  /\ retire = "locked"
  /\ retirement_marker' = TRUE
  /\ retire' = "marked"
  /\ UNCHANGED launch_lock /\ UNCHANGED OutsideRetire

RetireReleases ==
  /\ retire = "marked"
  /\ launch_lock' = Nobody
  /\ retire' = "released"
  /\ UNCHANGED retirement_marker /\ UNCHANGED OutsideRetire

-----------------------------------------------------------------------------
LaunchStep(l) ==
  \/ LaunchCheck(l) \/ LaunchLock(l) \/ LaunchRefused(l) \/ LaunchBlocked(l)
  \/ LaunchSubmits(l) \/ LaunchDone(l)

SubmitStep(l, t) ==
  \/ SubmitRead(l, t) \/ SubmitClaim(l, t) \/ SubmitWrite(l, t)
  \/ SshStarts(l, t) \/ SshFails(l, t) \/ SubmitFailed(l, t)

WorkerStep(p) ==
  \/ WorkerStarts(p) \/ WorkerWaits(p) \/ AcquireSlot(p) \/ WorkerRuns(p)
  \/ CommandEnds(p) \/ WorkerReports(p) \/ WorkerExits(p)

Next ==
  \/ \E l \in Launcher : LaunchStep(l) \/ LaunchCrash(l)
  \/ \E l \in Launcher, t \in Task : SubmitStep(l, t)
  \/ \E p \in Pid : \/ WorkerStep(p) \/ WorkerKilled(p) \/ OrphanEnds(p)
                    \/ HeartbeatDue(p) \/ HeartbeatWrites(p)
  \/ \E t \in Task : LeaseExpires(t)
  \/ \E r \in Reconciler, t \in Task : ReconcileReads(r, t)
  \/ \E r \in Reconciler :
       ProbeAnswers(r) \/ ProbeFails(r) \/ ReconcileWrites(r)
  \/ RetireLocks \/ RetireMarks \/ RetireReleases

\* Workers are processes of a running node and their commands end.
Fairness == \A p \in Pid : WF_vars(WorkerStep(p))

Spec == Init /\ [][Next]_vars /\ Fairness

-----------------------------------------------------------------------------
(* Properties.                                                             *)

\* Types.  No attempt number passes the number of workers that ran.
TypeOK ==
  /\ state \in [Task -> State]
  /\ claim \subseteq Task
  /\ DOMAIN attempt_dirs = Task /\ \A t \in Task : attempt_dirs[t] \subseteq Pid
  /\ retirement_marker \in BOOLEAN
  /\ launch_lock \in Launcher \cup {Retirer, Nobody}
  /\ launch \in [Launcher -> {"idle", "checked", "locked", "submitting"}]
  /\ submission \in [Launcher -> [Task -> [
       at : {"done", "todo", "read", "claimed", "ssh", "failed"}, previous : State]]]
  /\ worker \in [Pid -> [at : Stages, task : Task \cup {Nobody},
       attempt : {0} \cup Pid, slot : 0..Slots,
       result : {"none", "pass", "failed"}, beating : BOOLEAN, command : BOOLEAN]]
  /\ reconcile \in [Reconciler ->
       [at : {"idle", "read", "absent"}, task : Task, read : State]]
  /\ retire \in {"idle", "locked", "marked", "released"}
  /\ ssh_failures \in 0..MaxSshFailures

Ran(p) == worker[p].attempt # 0
Working(p) == worker[p].at \in {"made", "waiting", "holding", "running"}

\* The runs directory is evidence: whatever is resubmitted, reconciled or
\* killed, no two workers ever write into the same attempt directory, nor do
\* the commands that outlive them.
AttemptDirOwned ==
  \A p, q \in Pid :
    p # q /\ Ran(p) /\ Ran(q) /\ worker[p].task = worker[q].task
      => worker[p].attempt # worker[q].attempt

\* As long as SSH has not failed, the lease protocol does its work: a task
\* has at most one worker with an attempt, stale reconcilers, crashed
\* launchers and late heartbeats included.  The lease is the worker's: the
\* command of a killed one may still run.
OneWorkerPerTask ==
  ssh_failures = 0 =>
    \A p, q \in Pid : p # q /\ Working(p) /\ Working(q)
                        => worker[p].task # worker[q].task

Commands == {p \in Pid : worker[p].command}
Orphans == {p \in Commands : ~Alive(p)}
InSlot == {p \in Pid : worker[p].at \in {"holding", "running", "ended"}}

\* Whatever is killed and retried, no more workers are between slot lock and
\* unlock than the node has slots, and no command runs outside of them but
\* those whose worker was killed under them.
SlotsRespected ==
  Cardinality(InSlot) <= Slots /\ Commands \subseteq InSlot \cup Orphans

\* "Run one task on its assigned node while holding a per-node slot lock":
\* the node never runs more commands than it has slots.
CommandsFitSlots == Cardinality(Commands) <= Slots

\* Retirement and launch exclude each other: from the marker on nothing is
\* submitted, although the first check of a launcher precedes its lock.
NoSubmissionAfterRetirement ==
  retirement_marker =>
    \A l \in Launcher, t \in Task : submission[l][t].at = "done"

\* A worker that waits for a slot gets one or dies, although the slots are
\* polled and their holders may be killed.
WaitEnds == \A p \in Pid : worker[p].at = "waiting" ~> worker[p].at # "waiting"

\* "Probe expired workers and make only confirmed-dead attempts retryable."
OnlyDeadRetryable ==
  [][\A r \in Reconciler : ReconcileWrites(r) => ~Alive(reconcile[r].read.pid)]_vars

NextDirectoryFree(t) == state[t].attempt + 1 \notin attempt_dirs[t]

\* "A submit failure can be retried" and "a retry uses a new attempt
\* directory": when no worker has the task, a failed submission leaves a state
\* from which the next worker can make its attempt directory.
RetryUsesNewDirectory ==
  [][\A l \in Launcher, t \in Task :
       /\ SubmitFailed(l, t)
       /\ NextDirectoryFree(t)
       /\ \A p \in Pid : Alive(p) => worker[p].task # t
       => NextDirectoryFree(t)']_vars
=============================================================================
