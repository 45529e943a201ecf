# Verification of the DistributedTraining operator

`src/operator` is a Kubernetes operator written in Go. A user creates a
`DistributedTraining` object; the operator creates a GKE node pool for it, submits a
PyTorchJob or a SparkApplication to the pool, waits for the training to end, records what it
cost and how fast it was, and deletes the pool. If the user gives a target time or a
budget instead of a node count, a solver chooses the node count from the history of earlier runs.

This directory holds TLA+ models of the parts that decide anything (the control loop, the
solver, and the loop in which the solver learns from finished runs), TLC configurations that
check them on small instances, and TLAPS proofs of theorems that hold for all instances.

Paths below are relative to `src/operator`; `controller.go` stands for
`internal/controller/distributedtraining_controller.go`, `phases.go`, `history.go` and
`solver.go` for the files of the same directory, `types.go` for
`api/v1/distributedtraining_types.go`.

## 1. Inventory

| Component | Code | State | Operations | Model |
|---|---|---|---|---|
| Control loop | `controller.go`, `phases.go` | none that survives a restart; everything is in the object's status | one handler per phase, the finalizer | `Reconciler` |
| Kubernetes API, as the operator sees it | controller-runtime client, `cmd/main.go` | objects, informer cache, work queue | get, status merge patch, finalizer patch | `KubeAPI` |
| Node pools | `internal/cloud/provider.go`, `internal/cloud/gke/gke.go` | pools and long-running operations, in GKE | CreateNodePool, DeleteNodePool, IsOperationDone | `GKE` |
| Training backends | `internal/backend/pytorch`, `spark` | PyTorchJob, SparkApplication | apply, GetPhase, GetStartTime, GetEndTime | `TrainingBackend`, `Learning` |
| Manifests | `internal/backend/pytorch`, `spark`, `nodePoolConfig` | none | machine, node count, replicas, tolerations | `JobManifest`, `NodeCounts`; whether the API server takes it: `manifestOk` in `JobSpecs` |
| API types and validation | `api/v1`, `validateSpec` | the spec | validation, edits, pool name | `JobSpecs`, `KubeAPI` |
| Topology solver | `solver.go` | reads history and the cost ConfigMap | fit the scaling model, two binary searches | `ScalingModel`, `NodeChoice`, `SolverInputs`, `TopologySolver` |
| History | `history.go` | `DistributedTrainingHistory` objects | list, prune, create | `History`, `Learning`; when an entry is due: `hist` in `Reconciler` |
| Result collection | `internal/backend/collect`, `CollectResults` | a reader pod, the driver log | create the pod, poll it, read, delete it | `ReaderPod`, `Learning` |
| Manager | `cmd/main.go` | flags, leader election | start | constants |
| Metrics, dashboards | `metrics.go`, `config/grafana` | gauges nobody reads back | set | not modelled |
| Deployment | `chart`, `config` | none | | not modelled |
| `fine-tune`, `infra`, `scripts` | payload and set-up scripts | none shared with the operator | | not modelled |

How they interact. The informer feeds names into the work queue; one worker takes
one name at a time and calls the handler of the object's phase. A handler reads the object
from the cache (it may be old), calls GKE, the backend or the API server, and
writes its findings with JSON merge patches that carry no resource version: they
overwrite whatever they name, and keep the rest. GKE's operations end some time
later and are polled. The solver reads what succeeded runs have written: an entry that is
wrong, or an old one that is pruned, changes the node count of every job of that workload to come.

What is hard about it:

* **Crash recovery.** There is no memory but the status. Between CreateNodePool and the patch
  that stores the operation name the process may die, or the patch may fail.
* **Several patches for one transition.** A phase change is a patch of its own; the field that
  guards a call and the phase are not written together.
* **Stale reads, blind writes.** A merge patch is computed against a cached object.
* **One field, two meanings.** `gkeOperationID` is the creation in Provisioning and the
  deletion in Collecting and Succeeded.
* **Deletion racing everything.** The finalizer runs at any phase; GKE refuses to delete a
  pool with an operation in flight; a new object of the same name may arrive meanwhile.
* **Outsiders.** Backend jobs are deleted from outside, nodes are lost, creations fail late.
* **Edits.** A patch decodes the server's spec into the handler's memory; half of a handler may have
  run with one spec and half with the next.
* **Results.** They are read through a pod that must be created, awaited and removed while calls fail,
  and the handler that does it starts over when its last patch fails.
* **The same fact computed three times.** Node count and machine are derived from the spec for the
  pool, for the manifest and for the history, with defaults of their own each time.
* **Numbers.** Two binary searches over functions that are assumed monotone, an estimate from
  measurements that need not be.

What makes the parts correct: no pool is left without an object that will delete it; a backend
job runs on the job's own pool only; phases go forward; a pool is never taken from
a running job; what is recorded belongs to the run it is recorded for; every job ends, every deletion
completes; the solver returns the fewest nodes for a time, the most for a budget; the
history says what happened, stays within its limit in the long run, and never makes the solver too optimistic
about what it has seen; collection ends and leaves no pod behind.
`PROJECT.json` lists each hazard at its line with the properties aimed at it.

## 2. The modules

```
NodeCounts --+-- JobSpecs --+-- GKE --------------+
             |              +-- KubeAPI ----------+-- Reconciler -- ReconcilerProps
             |              +-- TrainingBackend --+                       |
             |                                                      ReconcilerInv --+-- ReconcilerClaims -----+
             |                                                                      +-- ReconcilerLife        |
             |                                                                                |               |
             |                                             JobContract (instance) -- ReconcilerContract --+-- MCReconciler
             +-- JobManifest --+
                 ReaderPod ----+-- Learning -- LearningProps -- MCLearning
                 History ------+
                               |
ScalingModel -- NodeChoice ----+
                    |
                SolverInputs --+-- TopologySolver -- SolverProps -- MCSolver
                               |                         |
                               +-- TopologyContract -----+ (instance)
```

The proofs are in modules of their own, which no run extends:

```
ReconcilerProps -- ReconcilerProofs --+-- ReconcilerClaimProofs (ReconcilerInv) ---+
                                      +-- ReconcilerLifeProofs (ReconcilerLife) ---+-- ReconcilerPoolProofs
                                                                                             |
                                             ReconcilerContract -------------- ReconcilerContractProofs
ScalingProofs --+-- SolverProofs (SolverProps)
                +-- LearningProofs (LearningProps)
```

`Reconciler`, `TopologySolver` and `Learning` are the three machines. They meet in operators:
`NodeCounts` is used by the control loop and by the history; `NodeChoice` is at once what
`TopologySolver` is shown to implement and what `Learning` uses in its place, so that a run of the
loop sizes a job in one step. `Learning` is about `reconcileCollecting` in detail, where
`Reconciler` has an outcome (`CollectResults`), and the other way round for everything else.

### The control loop

`JobSpecs` is the spec of an object, reduced to what steers the operator: the backend,
whether the solver is asked, the answers the solver may give (`solutions`), the explicit node count,
the pool name, the restart policy, whether the machine type has a price, and two ways of
being wrong (`complete`, found by `validateSpec`; `manifestOk`, found by the API server). `Specs[j]` is
what users may give the object called `j`: one is chosen when it is created (`CreateObject`), and
another one by every edit (`EditObject`, with `SpecEdits`). `spec` is the copy in the handler's memory, which
each successful patch updates (`DecodedSpec`).

`GKE` is the cloud as `gke.go` uses it. A creation is rejected with AlreadyExists when the name
is known, a deletion is NotFound, refused with FailedPrecondition or accepted; an
accepted call starts an operation. `FinishCreate`, `FailCreate`, `FinishDelete`,
`FailDelete`, `NodeReady` and `NodeLost` are what happens between two calls.

`KubeAPI` has the objects on the server (`cr`), in the cache, the queue, and `Merged`, which computes
what a merge patch stores. `Decoded` models that the client unmarshals the
server's answer *into* the object in memory: a field the answer omits keeps what was
there, `resolvedTopology.nodes` excepted, whose tag has no `omitempty`. A status field is kept when it
decides something or a property needs it; a timestamp is the BOOLEAN "it is set", the cost is the
number of nodes it was computed with.

`TrainingBackend` is the PyTorchJob or SparkApplication. Apply is server-side apply: it creates,
or takes over what is there.

`Reconciler` cuts a reconcile into one step per call that leaves the process. `pc` names the
next call, `obj` is `job.Status` in memory, `to` the phase about to be written, `arg` the last reply
a later call needs. All tests and early returns of a handler are decided in the step before
the call they guard. One action per call:

| Handler | Actions |
|---|---|
| `Reconcile` | `Discard`, `Reconcile`, `AddFinalizer` |
| `reconcilePending` | `SetStartTime`, `Solve` |
| `reconcileProvisioning` | `SetProvisioningStartTime`, `CreateNodePool`, `StoreCreateOperation`, `PollCreate`, `CleanUpPool`, `CountReadyNodes` |
| `reconcileReady` | `ApplyJob`, `SetJobName` |
| `reconcileRunning` | `GetPhase`, `ResetTrainingStart`, `GetStartTime`, `SetTrainingStart` |
| `reconcileCollecting` | `ReleasePool`, `StoreDeleteOperation`, `CollectResults`, `SetResults` |
| `reconcileSucceeded` | `PollDelete`, `ClearOperation` |
| `reconcileDelete` | `DeletePool`, `RemoveFinalizer` |
| `setPhase`, `setFailed` | `SetPhase` |

A patch may be accepted, rejected before it is stored, or stored although the caller
gets an error (`Accepted`, `Rejected`). `Persist`, `PersistBestEffort` and `PersistAndReturn` are the
three things the code does with the reply. What may go wrong is named by `FaultKinds`; each
fault costs one of `MaxFaults`. A creation that fails in GKE is not a fault but a normal
outcome, since quota and capacity run out in ordinary operation.

`JobContract` is what all of this is for, without calls, patches, operations or a queue: a job goes
through its stages, has a pool ordered, held, given back, and a backend job, and each step says
what it needs. A job becomes Ready and Running, and its backend job is submitted and trains, only while
its pool is held; the pool is given back while the job is still Provisioning (its creation has failed), when it
is Collecting, or because the job is leaving, and never in between; an object succeeds or vanishes only when
nothing is paid for any more. `ReconcilerContract` is the refinement mapping:

| `JobContract` | in the state of `Reconciler` |
|---|---|
| `stage[j]` | the phase on the server, "none" without an object |
| `leaving[j]` | the deletion timestamp |
| `lease[j]` | the state of the pool that the object names: creating is "ordered", running "held", error "broken", deleting "returned" |
| `work[j]` | the state of the backend job |

Nothing in it is about the memory of the worker, so a crash, a lost reply or a call that is repeated must be
invisible, or be a step that the job could take anyway.

### The solver

`ScalingModel` holds `estimateModel` and the two predictions; `NodeChoice` the node count that is to be
chosen, without the searches that find it; `SolverInputs` what `runSolver` reads; `TopologySolver` is `runSolver` with the loops of `binarySearchMinN` and
`binarySearchMaxN` as steps; `TopologyContract` is the promise of `feature.md` in one
step. `SolverProps` relates the two by the refinement mapping `Outcome`, a function of `stage`.

The code computes with float64. Here the same numbers are exact fractions, and a comparison
is multiplied out, so the model says nothing about rounding at the very boundary of a target.
The golden-section search for alpha may end anywhere on a grid over [0, 1]: nothing that is
claimed depends on where. Node counts are int32 in the code and numbers here: overflow needs
a `maxNodes` around 2^30. Prices are per second and node instead of per hour, a change of unit. The
average over repeated runs of one node count is the `rate` of its point.

### The learning loop

`Learning` follows one workload (one configuration hash) through run after run. A run is sized
(`Calibrate`, `Solve`, or by its spec), trains (`Train`: the pods are as many as the manifest says, and
what they leave behind depends on that), and is collected:

| Code | Actions |
|---|---|
| `runSolver`, `loadHistory` | `Calibrate`, `Solve` |
| `reconcileCollecting`: the training time | `Measure`, `MeasureNothing` |
| `pytorch.CollectResults`, `FromPVCFile` | `OpenFile`, `ReadFile` (`CreatePod`, `CreateFails`, `PollAgain`, `PodRuns`, `PollEnds`, `Exec`, `DeletePod`), `CloseFile` |
| `spark.CollectResults`, `FromPodLogs` | `ReadLog` |
| `writeHistoryEntry`, `pruneHistory` | `Prune`, `Write` |
| the patch of the results | `Finish`: on failure all of Collecting is run again |
| a restart of the operator | `Crash` |

How the workload scales is the constant function `curve`, chosen once: the time and the throughput
of the training loop for each number of pods, and the times the operator may measure instead
with its own clock (`seen`), which is all there is for Spark. So "the history is true" can be said:
an entry is compared with the curve at the number of pods that trained. `JobManifest` has the three
derivations that must agree: `PoolMachine`, `EffectiveMachine`; `Trainers`, `HistoryNodes`;
`PoolTaints`, `Tolerated`.

`History` keeps the entries (oldest first), the list the informer returns, and how many of that list are gone
already: `pruneHistory` deletes along the list until the first error, and an entry that is gone is one.
`ReaderPod` has the pods and the state of `FromPVCFile`; names are drawn at random and may collide.
`lost` counts what goes wrong in either module: a call, a reply, the process.

## 3. Runs

| Run | Instance | Shows |
|---|---|---|
| `one_job` | one PyTorch job created up to twice, either sized by the solver and restartable or with a spec that is rejected by validation, by the solver, at apply or for its backend; two faults (crash, API, creation, node, backend job deleted); fairness | the safety of the control loop, that it implements `JobContract`, the inductive invariant `ClaimInv` of the proofs, that training time and cost are of the run, and liveness: jobs end, deletions complete, pools are released |
| `cache_lag` | the cache arbitrarily far behind, two faults (API, creation, crash) | until the first fault stale reads do no harm at all; after it jobs that have not failed still only go forward |
| `two_jobs` | a Spark job and a PyTorch job, two pools, one worker; polls and deletions fail, accepted deletions fail later | jobs with pools of their own do not disturb each other, and training stays on its own pool even so; the inductive invariant `HoldInv` |
| `spec_edits` | one job edited at any time between two node counts and an objective; two faults (crash, API) | the control loop implements `JobContract` although half a handler runs with each spec; and what the inductive invariant `LifeInv` says of operations, results and records holds |
| `solver` | 9 x 9 targets and budgets (two of each unparsable or empty), four limits, three prices, eight histories with alpha at most one, three amounts of work, one of them 0 | the solver implements its contract, finds the minimum, and ends; the inductive invariant `BranchInv` |
| `learning` | five requests, two objectives, two workloads, retention limit 2, two losses; fairness | every entry describes the run it is written for, predictions are safe, retention catches up, no pod is forgotten, Collecting ends |
| `cost_of_no_nodes`, `orphaned_pool`, `cleaned_up_trains`, `solver_runs_again`, `slowdown`, `entry_without_work` | a small instance of the same modules, with no more faults than it takes | six sentences of the repository that the code contradicts, see section 6 |

**Bounds and why they are enough.** `MaxIncarnations = 2` lets an object be created again
while the pool and the backend job of the first are still there; a third adds nothing that the
second does not meet. `MaxFaults = 2` allows a fault and another one in its
repair. `MaxOps = 6`: an incarnation starts at most one creation and two deletions when nothing is
lost, so six cover two incarnations; at the bound GKE accepts no call, which removes
behaviours but breaks no property. `MaxEntries = 2` lets the history be written twice for one
object. Two nodes are enough to tell none, some and all of them apart.
The solver's limits 2, 3, 6 and 7 give searches of no, one, and several steps with odd
and even middles. Its targets and budgets lie on both sides of and exactly at values that the
small histories predict.

In `learning`, `Limit = 2` and `MaxOver = 1` let a list be below, at and above the limit, and the
history hold one or two node counts; the limit of the code, 10, is covered by the proof. `MaxPolls = 1` tells
"at once", "later" and "never" apart. `MaxLost = 2` allows a loss in the repair of a loss, and with two
pod names a name that is taken. The requests are an objective and two explicit PyTorchJobs (two masters
and a worker; a script that does not count its samples) and an objective and an explicit Spark job; the
workloads are one that scales perfectly but logs no throughput, and one whose pods crowd each other, so that
each further node helps less and from three on none does: there a fit to any two measurements is an
approximation, and only its direction can be right. `DiminishingReturns` is checked of both when
the run starts (`CurvesAssumption`).

**Deadlock** is not checked: an instance where every object has ended, been deleted as often
as the bounds allow, and every operation is over, has really stopped; `Learning` stops when the
history is more than `MaxOver` entries above its limit.

**Fairness** (`FairSpec`), and why the code justifies it:

* `WF(Handler)`: a handler goes on to its end, since each of its calls returns or fails. `Reconciler` has only
  calls of one request each and no loop; `CollectResults`, one step there, is taken apart in `Learning`.
* `SF(Dequeue(j))`: the work queue is first in, first out and de-duplicates, and every
  handler returns; a queued name is taken although the worker is busy again and again in
  between. Weak fairness would not do, because `Dequeue(j)` is disabled whenever the worker
  works on another name. The back-off of a failing name is not modelled: it delays, and is bounded.
* `WF` of the end of an operation, of nodes joining, of training starting and ending, of the informer
  and of garbage collection: these are the promises of GKE, Kubernetes and the training payload. The
  operator has no time-out for any of them (`phases.go:201`), so without them a job
  may wait for ever.
* `WF(CollectStep)` in `Learning`: the handler `reconcileCollecting` goes on, and after an error or a
  restart its object is in the queue again. This handler does wait: `FromPVCFile` polls the reader pod for up
  to two minutes (`pvc.go:70`). Nothing is assumed of the pod, which may never run; but the exec that reads the
  file (`pvc.go:107`) has no deadline of its own, and is assumed to return.
* Users, crashes and other faults get no fairness.

The solver's `WF(Next)` says that `runSolver` runs to its end.

**Mutants.** Each property of a passing run has an operator in the models, named in its
comment as a mutant, that changes one definition as a plausible bug would (a guard dropped,
a reset left out, a middle rounded down, the master not counted); with it the run fails on that property.

## 4. What is proved

All proofs are checked by TLAPS for every value of the constants that satisfies the named
assumptions (`SpecAssumption`, `MaxOpsAssumption`, `FaultAssumption` and so on, all evaluated
by TLC in the runs).

**`ReconcilerProofs!TypeCorrect`**: `Spec => []TypeOK`. One lemma per call of the operator
and per action of the environment. Lemmas about `Merged`, `Decoded`, `Persist` and its
relatives come first, so that each handler is typed by naming the pieces it is made of. The
part that is not just types is that `arg` is a natural number
whenever an operation is about to be stored.

**`ReconcilerClaimProofs!PoolsClaimed`**: `Reliable => (Spec => []PoolsAreClaimed)`: no pool is
orphaned, for any number of jobs, whether or not they share pool names, any specs and edits of them,
crashes, failed patches and lost replies. `PoolsAreClaimed` is not inductive: it says that
the owner of a pool exists and has its finalizer, and a step that removes a
finalizer needs to know that the pool is gone by then. `ClaimInv` (module `ReconcilerInv`) adds what the
handlers have found out when they make a call:

* in the cloud, operation numbers are not ahead of `lastOp`, and a pool carries the
  label of a job that names it;
* an object that has a pool is not Succeeded, because then the finalizer
  skips the pool (`controller.go:206`); while its pool is being created, polling its stored
  operation cannot answer "done", so the phase cannot get past Provisioning;
* the worker's memory agrees with the server where a call depends on it, and at the calls
  made after a deletion was answered (`PoolIsGone`) there is no pool to lose.

`ClaimInv` holds no fact about the spec in memory: an edit changes none of it. `ClaimInvariant` states it
as a theorem of its own.

`Reliable` is the assumption that makes it true: the cache is current, and GKE neither returns a
spurious error for a deletion nor fails one it has accepted. The runs `orphaned_pool` and
`two_jobs` show the system without it.

**`ReconcilerLifeProofs`** is about the life of one object, and needs nothing but a current cache
(`~CacheLag`): any number of jobs, shared pool names, edits of specs, crashes, and every kind of failing
call. The inductive invariant `LifeInv` (module `ReconcilerLife`) is a conjunction over the objects and the
worker. For each object it says which status fields its phase implies, and that a stored
operation is one on its own pool, of the kind the phase waits for. For the worker it says what every call
relies on: that memory and server agree on the fields the handler decides by, that the phase about to
be written follows the present one, and, after a handler has read the backend, what state the
backend job has reached. A handler's patches can each fail or be stored without the caller knowing, so
memory and server may differ in the fields *of this patch* and in no others, which is why
the agreement is stated per call. From it follow

* `OperationsMatch`: `gkeOperationID` is never of another pool or of the wrong kind;
* `PhasesOrdered`, `ResolvedOnlyOnce`: steps, hence action properties. `LifeSteps` proves the
  action invariant `LifeStep` of which they are parts;
* `CollectedSucceeded`, `HistorySucceeded`, `StartIsOfThisRun`: what is collected and recorded, and the
  start time it is credited with, are of a backend job in the right state;
* `SucceededComplete`: a Succeeded job has every field filled in. This one also assumes `~SpecEdits`: an edit
  into an objective after the fact would ask for a node count the solver was never asked for.

**`ReconcilerPoolProofs`** adds the pool. `HoldInv` says for each object in which state its pool is, given its
phase and the operation it has stored: an object that polls a creation has been granted one
(`Granted`: the pool is being created for it, or runs, or the operation has failed); one that is Ready or
Running has its own running pool; and for the worker, that the pool runs when the handler is
about to count nodes or to write Ready, and that the creation has failed when it is about
to clean up. It is inductive relative to `LifeInv` only. `HoldInvariant` and `TrainsOnItsPool` hold under
`HoldAssumption`, three conditions of which none can be left out:

* `~CacheLag`: with a lagging cache and two faults, a second creation replaces the first operation, and TLC
  finds a job that trains on a pool under deletion;
* `PoolsApart`: with shared names one job deletes the pool of another (the mutant of `two_jobs`);
* `PollsCount`: polls are answered, or no patch fails and the operator does not die: after an unanswered poll the pool
  is deleted (`Abandoned`), and a second fault before the phase Failed is stored leads to `cleaned_up_trains`.

An object counts as in use (`InUse`) until it is deleted, and while a handler that began before the deletion
is still at work on it: it goes on to count nodes, writes Ready and submits the backend job as if nothing had
happened, and it must still find the pool.

`PoolNeverTaken` (no handler deletes the running pool of a job that waits for its backend job
or trains) needs the first two only. `ResolvedSize` (a pool of a job the solver sized has
the node count that is in the status) needs `Reliable` and `~SpecEdits`. Its inductive strengthening, `SizeInv`, says why: nobody owns a pool
before it has left the solver, also when the object was deleted and created
again, and that is a fact about claims, so the proof rests on `ClaimInv` as well.

**`ReconcilerContractProofs`** puts these together. `JobContractKept`: `ContractAssumption => (Spec =>
KeepsJobContract)`: the control loop refines `JobContract`, for any jobs, pools, specs, edits, crashes, failed calls and
lost replies. `ContractAssumption` is `Reliable` and `HoldAssumption` together, all of whose parts are explained
above. There is one lemma for each kind of step. A status patch that leaves the phase alone is invisible, since
nothing in the mapping depends on the other fields; `SetPhaseSeen` is the heart: by `NextPhaseInv` the phase written follows
the one on the server, by `HoldInv` the pool is held when it is Ready or Running, by `LifeInv` the backend job has
ended when it is Collecting, and by `ClaimInv` nothing is paid for when it is Succeeded. `FinalizersSeen` uses
`PoolIsGone`, `DeletesSeen` the phases in which a call to DeleteNodePool can be reached. The contract has one
variable per concern, and each step of the control loop changes at most one of them, but for
the last step of a deletion.

**`SolverProofs`**, types and searches. `SolverTypeCorrect` and `SearchesBracket`: the fitted model is always a
well-formed fraction with positive denominators, and both binary searches keep their answer between their
bounds. It holds for every history and even where T(n) is not monotone: what monotonicity adds
is that the bracketed answer is the best one, and that is where `slowdown` fails.

**`SolverProofs`**, the contract. That is the second half. `PromiseKept`: `NoSlowdown => (Spec => KeepsContract)`: the
solver refines `TopologyContract`, for every objective, price, amount of work and history in which, of two
measured node counts, the larger has at least the throughput of *one* node of the smaller. That is what makes alpha at
most one, which `feature.md:145` takes for granted; the golden-section search for three or more counts
guarantees it by its interval. The argument has four steps:

1. `ModelsAreSane`: such a history gives a model with alpha <= 1, whichever branch fits it.
2. `FasterWithMore`: for such a model T(n) is non-increasing, and `DearerWithMore`: the cost never falls
   with n, for any alpha. Both are about products of unbounded numbers and go through small lemmas
   (module `ScalingProofs`), since the prover's nonlinear arithmetic does not carry far.
3. `FewestFound`, `NoneIsFast`, `MostFound`, `NoneIsCheap`: what a bracket closes on is what `NodeChoice` names.
4. `BranchInv` carries this through the branches: what was found for the time, that it is over
   budget when the budget is looked at, that there is a price then, that the flat-curve shortcut
   did not apply. `StepPromised` maps every step to `Calibrate`, `LoadFails`, `Fit`, `Choose` or a stutter.

`BothAreMet` and `MinimumIsFound` follow from `BranchInv`; the latter is the sentence of `solver.go:365` that
`slowdown` refutes without the hypothesis. `FitIsExact` needs no hypothesis: the closed form reproduces
the larger of two measurements whatever the slowdown.

**`LearningProofs`** is about the learning loop, for every workload, any requests and objectives, any retention limit,
list lag, crashes and retries.

* `OneMachine`, `PodsFitTheirPool`, `TrainersAreCounted` are about requests alone: the machine of the
  pool is the one the history and the cost are computed for; the pods of a PyTorchJob tolerate the
  taints of its pool; as many pods train as the history says, provided no more masters are asked for
  than nodes. They are what makes entries true, and are case analyses over the fields that are set.
* `EntriesTrue`: `Spec => EntriesAreTrue`: an entry that is added describes the run it is added for
  (`DescribesRun`). Its nodes are the pods that trained and its machine that of their pool; its work is all samples
  if the script reports them, else what the loop does in the seconds that were measured; of a PyTorchJob the
  entry never says that it was faster than it was, and it says exactly how fast it was when nothing is lost. Left
  open is only the work of a run for which 0 s were measured, which `entry_without_work` shows. The entry is written
  at the end of a handler that may have been restarted several times, from four variables filled in at different
  stages. The inductive invariant `EntriesInv` carries along what each stage has established: the run is
  defined on the curve from `train` on, with as many trainers as its history will name; the report is that of this
  run; the seconds are those of the run, or, after a loss or for Spark, one of the times that can be
  seen; and at `prune` and `create` the results are the report and are worth recording. `EntryIsTrue` puts the
  stages together, and rests on the three theorems above and on a lemma about exact division. That no other step adds
  an entry (pruning takes a suffix) is the rest.
* `OnlyLostPodsStay`: `Spec => []StrayPodsAreLost`. The number of pods is compared with a counter, so the proof
  is about cardinalities: a pod that is added is the reader's own until `lost` is increased. `ReaderInv`
  says that the reader has no pod while it is idle, creates one or is done.
* `OnePruningSuffices`: `Spec => RetentionCatchesUp`, from the lengths of sequences.

* `LearningTypeCorrect`: `Spec => []TypeOK`. Besides the shape of the variables it says that the solver never
  fits a model with a denominator of 0. The points it fits are averages over the entries of a node
  count, so what is needed is a bound on a sum: entries are worth recording, hence each has a
  positive throughput and a node count of at least one, and an average is at least the least term (`AverageBounds`
  in `ScalingProofs`).
* `NeverTooOptimistic`: `Spec => NeverOptimistic` for workloads of diminishing returns (the node-seconds of a run are convex
  and grow with the number of nodes, `DiminishingReturns`). With one point the prediction divides by the nodes
  what the point cost in node-seconds; with two it is the line through them, and a convex curve is below its chord. The
  entries in the list agree with the curve (`ShapeInv`, an invariant of its own), averages are rounded down, which errs to the safe side, and alpha is cut
  off at 0, which does too. It was the proof that showed what the hypothesis has to be: a curve that is merely
  decreasing is not enough.

**Induction.** Facts about sums and about least elements are proved without the induction theorems of the
library, which take an operator as a parameter: `ScalingProofs` takes the least counterexample,
which `WFMin` and `NatLessThanWellFounded` supply for a set, not for an operator.

**Only model-checked**:

* the liveness properties (`JobEnds`, `DeletionCompletes`, `PoolIsReleased`, `SolverEnds`, `CollectionEnds`):
  fairness and ENABLED are out of the prover's reach;
* `OrderlyUntilFault` and `NeverTakenBack`, which are about a lagging cache: all invariants above agree
  on the server and the handler's memory being one step apart, and a lagging cache has them any number apart. An
  invariant for it would have to relate every old object that may still be read to the present one.

## 5. What is not modelled

* *Metrics, deployment, payload, infrastructure*: see the table of section 1.
* *The command line, environment and volumes of a manifest*: payload data. No decision of the
  operator depends on them.
* *Edits of* `hardware.nodePoolName`. With one, pods select a pool nobody created, and the operator
  deletes one of another name (`controller.go:293`).
* *Several configuration hashes*. `Learning` follows one; the assumption `RequestAssumption` says that its
  runs use one machine type and ask for no more masters than nodes. Neither is enforced by the code:
  `computeConfigHash` takes the machine type as it is written, which may be left to the default of CPU or
  GPU, and nothing compares `masterReplicas` with `topology.nodes`.
* *Whose results file it is*. `all_results.json` has one name per volume; in the model every run leaves
  its own.
* *Two operator replicas*. `config/manager/manager.yaml` runs one replica with leader election.
* *Time* in the control loop. A timestamp is set or not; RequeueAfter is "later".

## 6. Where code and documentation disagree

Shown by runs that end in a counterexample:

| Run | Sentence | What the code does |
|---|---|---|
| `cleaned_up_trains` | `phases.go:181` "delete the (partially-created) pool before going terminal" | `IsOperationDone` fails also when GKE does not answer. The pool is deleted, the patch to Failed is rejected, and the next poll finds the creation done and the nodes not yet gone: the job becomes Ready on a pool that is being deleted |
| `cost_of_no_nodes` | `phases.go:483` cost = time x nodes x rate | the retry of Collecting multiplies with the node count it has set to 0 |
| `orphaned_pool` | `controller.go:140-141` "guarantees no orphaned infrastructure" | a failed delete call in Collecting is logged, and the finalizer of a Succeeded job skips the pool |
| `slowdown` | `solver.go:365` "finds the minimum n", `feature.md:145` alpha in [0, 1] | the closed form for two node counts has no upper limit |
| `solver_runs_again` | `feature.md:79` "once the solver writes a value it is never re-run" | the guard (`phases.go:58`) reads the cache. Without any fault: a reconcile stores 2 nodes and the phase Provisioning, the next one reads the version from before both, asks the solver again, whose history has changed meanwhile, and patches 1 over 2 |
| `entry_without_work` | `history.go:66` "W = 0 would corrupt the solver" | only the throughput is looked at, which is taken from the training loop when the training time is 0 s (`history.go:216`, `:224`). For Spark both ends of that time are the operator's own clock (`spark.go:131-150`): an edit of the spec, which queues the object at once, may bring the two reconciles within half a second, and a clock that is behind after a restart is cut off at 0 (`phases.go:440`) |

Read in the code while modelling, without a run of their own:

* `README.md:71` says of Failed "Terminal state; node pool deleted". `setFailed` (`controller.go:268`) deletes nothing,
  only a failed creation is cleaned up (`phases.go:182`): a job that fails in training keeps its pool until somebody
  deletes the object. `JobContract` allows this, and `PoolIsReleased` is not about Failed jobs.
* Nor is Failed quite terminal. With the cache behind and one reply lost: the reconcile after the creation reads the
  version from before the operation was stored, creates again, is answered AlreadyExists and fails the job. The patch
  to Failed is stored but its reply is lost, so the job is reconciled again; the cache has now the version with the
  operation, still Provisioning. The creation is done, the nodes are ready, and Ready is patched over Failed
  (`controller.go:256`), since no patch carries a resourceVersion. `NeverTakenBack` leaves Failed out for it.
* `README.md:104` says "At most **10** history entries are kept per config hash". When Collecting is repeated after the
  patch of its results failed, the list may not show the entry it has just written: nothing is pruned, and one entry
  too many is written. A deletion that fails has the same effect (`history.go:94` "proceeding with write anyway").
  `RetentionCatchesUp` says that the first pruning with a current list makes up for it.
* `phases.go:192-194` says that requeues poll "rather than attempting a second CreateNodePool". The patch at
  `phases.go:213` clears the operation and the phase is left in another one (`phases.go:224`); when that one fails, the
  next reconcile creates again, is answered AlreadyExists and fails a job whose pool is ready.
* `README.md:70` says of Succeeded "node pool already gone". Collecting only starts the deletion, and
  `reconcileSucceeded` polls it afterwards (`phases.go:559`). `JobContract` therefore asks that the pool is no longer
  paid for: it is gone, or being deleted.
* `types.go:588` says `finishTime` is set for Failed jobs too; `setFailed` (`controller.go:268`)
  does not set it.
* `README.md:89` promises the cost in a history entry; `history.go:119-124` reads it from a status
  that `phases.go:535` fills in only afterwards, so the field is empty.
* `README.md:77` says one entry per successful job; a failure between
  `phases.go:531` and the following patch writes a second one. `learning` has this behaviour and shows that
  both are true and that retention copes.
* `provider.go:51-53` calls an error of IsOperationDone a terminal failure; `gke.go:113` returns
  one for an unreachable API too, and `phases.go:180` then tears the pool down. `two_jobs` has this behaviour, `cleaned_up_trains` what can come of it.
* A deletion that failed in GKE is polled for ever (`phases.go:559`) and the pool stays.
* `README.md:34` lists the backend `job`; `cmd/main.go` does not register it.
* `README.md:473` expects the phase Pending; it is never stored (`phases.go:70`).
* Two jobs whose names map to one pool name (`controller.go:292`) share a pool, against the
  comment `phases.go:277-278`. `TrainsOnOwnPool` and `NoPoolTakenFromTraining` are checked with names apart
  (their mutant in `two_jobs` is the shared name); `PoolsAreClaimed` is proved for shared names too.
* `feature.md:102` says the model reproduces the time of its reference point; with alpha above 0
  and more than one node at that point `solver.go:264` does not.
* `types.go:410` calls `maxNodes` a hard cap; the calibration count (`solver.go:48`) is not compared with it.
* `types.go:405` calls `maxCost` the maximum spend; on a flat curve (`solver.go:172`) all nodes are
  taken when two are within the budget, which may exceed it by up to 1%.

* `phases.go:401`: nothing limits how long the phase Running may last; a Spark job on a pool with
  accelerators does not tolerate their taint (`spark.go:269`) and stays pending.

## 7. Plan

1. Core: the control loop with its environment, its safety and liveness; the
   solver and its contract; type correctness, `PoolsClaimed`, `SearchesBracket`. *Done.*
2. Extend: specs that differ between incarnations and are edited; the history store and the loop
   calibrate - record - solve over several runs; the reader pod; the arithmetic of the manifests; the
   proofs about them. *Done.*
3. Prove more about it: the life of an object (`LifeInv`), its pool (`HoldInv`, `SizeInv`); the monotonicity of
   `Time` and `Cost`, and with it the refinement `KeepsContract`. *Done.*
4. The abstract `JobContract` (a job holds a pool, trains, gives it back), implemented by `Reconciler`; the
   learning loop's types and its predictions. *Done.*
5. An invariant for the lagging cache until the first fault; the run a result belongs to, as a history variable;
   two replicas under leader election.
