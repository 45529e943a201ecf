------------------------------- MODULE Learning -------------------------------
(***************************************************************************)
(* The loop the solver learns in: runs of one workload (one config hash)   *)
(* follow each other, each sized with the history of those before it,      *)
(* trained, collected and recorded (runSolver, reconcileCollecting,        *)
(* CollectResults, writeHistoryEntry).  The solver is NodeChoice, which    *)
(* TopologySolver implements; how a job gets from phase to phase is in     *)
(* Reconciler.                                                             *)
(***************************************************************************)
EXTENDS JobManifest, NodeChoice, ReaderPod, History, Functions

CONSTANTS
    Requests,          \* the jobs users submit
    Goals,             \* the objectives they give them
    Price,             \* the entry of the machine in the cost ConfigMap
    Provisioning,      \* seconds until a pool is ready
    CalibrationNodes,  \* --default-calibration-nodes
    Work,              \* samples of a run
    Curves,            \* how the workload may scale
    MaxOver            \* bound: entries beyond Limit when a run starts

(***************************************************************************)
(* seconds[n] is the training time on n nodes, loop[n] the throughput of   *)
(* the training loop alone, and seen[n] what the operator may measure with *)
(* its own clock.                                                          *)
(***************************************************************************)
ASSUME CurveAssumption ==
    /\ Work \in Positive
    /\ \A c \in Curves :
         /\ DOMAIN c.seconds = DOMAIN c.loop /\ DOMAIN c.seconds = DOMAIN c.seen
         /\ \A n \in DOMAIN c.seconds :
              /\ n \in Positive /\ c.seconds[n] \in Positive /\ c.loop[n] \in Nat
              /\ c.seen[n] \subseteq Nat
              /\ \A t \in ({c.seconds[n]} \cup c.seen[n]) \ {0} : Work % t = 0

\* No master more than there are nodes; one hash, one machine type.
ASSUME RequestAssumption ==
    /\ Requests \subseteq Request
    /\ \A r \in Requests : ~r.objective => r.masters <= r.nodes /\ r.nodes > 0
    /\ \A r, s \in Requests : r.backend = s.backend => PoolMachine(r) = PoolMachine(s)

ASSUME LoopAssumption ==
    /\ CalibrationNodes \in Positive /\ Provisioning \in Nat
    /\ Price \in Nat \cup {NotGiven} /\ MaxOver \in Nat
    /\ \A o \in Goals : o.maxNodes \in Nat /\ o.maxNodes >= 2
    /\ \A c \in Curves :
         /\ CalibrationNodes \in DOMAIN c.seconds
         /\ \A o \in Goals : 2 .. o.maxNodes \subseteq DOMAIN c.seconds
         /\ \A r \in Requests : ~r.objective => r.nodes \in DOMAIN c.seconds

VARIABLES
    curve,     \* how this workload scales
    backend,   \* its backend
    stage,     \* where the present run is
    request,   \* its spec
    goal,      \* its spec.objective
    model,     \* the model its node count was computed with
    resolved,  \* status.resolvedTopology.nodes, 0 before
    started,   \* status.trainingStartTime is set
    seconds,   \* its training time as it was measured last
    report,    \* what the training left behind: results file or driver log
    results    \* what of it was collected

runVars == <<stage, request, goal, model, resolved, started, seconds, report,
             results>>
vars == <<readerVars, historyVars, curve, backend, runVars>>

\* From "measure" on: the handler reconcileCollecting.
Collecting == {"measure", "collect", "prune", "create", "patch"}
Stages == {"idle", "solve", "train"} \cup Collecting

Nothing == [total |-> 0, loop |-> 0]

\* Of a request without an objective.
NoGoal == [time |-> NotGiven, budget |-> NotGiven, maxNodes |-> 2]

NoModel == [over |-> 0, under |-> 1, nodes |-> 1, rate |-> 1, work |-> 1,
            provisioning |-> 0]

Init ==
    /\ ReaderInit /\ HistoryInit
    /\ curve \in Curves
    /\ request \in Requests /\ goal = NoGoal
    /\ backend = request.backend
    /\ stage = "idle" /\ model = NoModel
    /\ resolved = 0 /\ started = FALSE /\ seconds = 0
    /\ report = Nothing /\ results = Nothing

Fixed == UNCHANGED <<curve, backend>>

-----------------------------------------------------------------------------
\* The informer needs less time to catch up than the next run to start: a list is
\* behind only while Collecting is repeated.
Submit ==
    /\ stage = "idle"
    /\ Len(entries) <= Limit + MaxOver
    /\ cached = entries /\ gone = 0
    /\ request' \in {r \in Requests : r.backend = backend}
    /\ IF request'.objective
       THEN goal' \in Goals /\ stage' = "solve"
       ELSE goal' = NoGoal /\ stage' = "train"
    /\ UNCHANGED <<readerVars, historyVars, model, resolved, started,
                   seconds, report, results>> /\ Fixed

\* groupByN, mapValues and average of the entries listed.
Average(n, field) ==
    LET at == {i \in DOMAIN cached : cached[i].nodes = n}
        values == [i \in DOMAIN cached |-> cached[i][field]]
    IN  SumFunctionOnSet(values, at) \div Cardinality(at)

Points ==
    {[nodes |-> n, rate |-> Average(n, "rate")] :
       n \in {cached[i].nodes : i \in DOMAIN cached}}

WorkAtSmallest == Average(Smallest(Points).nodes, "work")

Calibrate ==
    /\ stage = "solve"
    /\ NeedsCalibration(goal, Points, Price)
    /\ resolved' = CalibrationNodes /\ stage' = "train"
    /\ UNCHANGED <<readerVars, historyVars, request, goal, model, started,
                   seconds, report, results>> /\ Fixed

Solve ==
    /\ stage = "solve"
    /\ ~NeedsCalibration(goal, Points, Price)
    /\ model' \in Models(Points, WorkAtSmallest, Provisioning)
    /\ \E n \in AllowedNodes(goal) : Chosen(n, goal, model', Price) /\ resolved' = n
    /\ stage' = "train"
    /\ UNCHANGED <<readerVars, historyVars, request, goal, started, seconds,
                   report, results>> /\ Fixed

\* The pods run on as many nodes as the manifest says.  A script that does not
\* count its samples leaves no total.
Train ==
    /\ stage = "train"
    /\ report' = [total |-> IF request.total THEN Work ELSE 0,
                  loop  |-> curve.loop[Trainers(request, resolved)]]
    /\ started' \in BOOLEAN
    /\ stage' = "measure" /\ model' = NoModel
    /\ UNCHANGED <<readerVars, historyVars, request, goal, resolved, seconds,
                   results>> /\ Fixed

TrainFails ==
    /\ stage = "train"
    /\ stage' = "idle" /\ model' = NoModel /\ resolved' = 0
    /\ UNCHANGED <<readerVars, historyVars, request, goal, started, seconds,
                   report, results>> /\ Fixed

-----------------------------------------------------------------------------
(***************************************************************************)
(* reconcileCollecting                                                     *)
(***************************************************************************)
\* A PyTorchJob says when it started and ended.  A Spark job does not: it runs
\* from the reconcile that saw it first to this one, and so does a PyTorchJob whose
\* end cannot be read, but for its start.
Measure ==
    LET n == Trainers(request, resolved) IN
    /\ stage = "measure" /\ started
    /\ \/ backend = "pytorch" /\ seconds' = curve.seconds[n] /\ UNCHANGED lost
       \/ /\ backend = "pytorch" /\ Lose
          /\ seconds' \in {t \in curve.seen[n] : t >= curve.seconds[n]}
       \/ /\ backend = "spark" /\ UNCHANGED lost
          /\ seconds' \in {t \in curve.seen[n] : t >= seconds}
    /\ stage' = "collect"
    /\ UNCHANGED <<pods, reader, historyVars, request, goal, model, resolved,
                   started, report, results>> /\ Fixed

MeasureNothing ==
    /\ stage = "measure" /\ ~started
    /\ stage' = "collect"
    /\ UNCHANGED <<readerVars, historyVars, request, goal, model, resolved,
                   started, seconds, report, results>> /\ Fixed

OpenFile ==
    /\ stage = "collect" /\ backend = "pytorch" /\ reader.at = "idle"
    /\ StartReading
    /\ UNCHANGED <<pods, lost, historyVars, runVars>> /\ Fixed

ReadFile ==
    /\ stage = "collect"
    /\ ReaderStep
    /\ UNCHANGED <<historyVars, runVars>> /\ Fixed

\* An error of CollectResults is logged; the run ends without metrics.
Record(collected) ==
    /\ results' = collected
    /\ stage' = IF /\ started
                   /\ WorthRecording(collected, seconds, HistoryNodes(request, resolved))
                THEN "prune" ELSE "patch"
    /\ UNCHANGED <<historyVars, request, goal, model, resolved, started, seconds,
                   report>> /\ Fixed

\* Mutant of CloseFile: the error is returned, and Collecting starts over.
CloseFileOrRetry ==
    /\ stage = "collect" /\ reader.at = "done"
    /\ IF reader.ok THEN Record(report) ELSE UNCHANGED <<historyVars, runVars>> /\ Fixed
    /\ reader' = NoReader
    /\ UNCHANGED <<pods, lost>>

CloseFile ==
    /\ stage = "collect" /\ reader.at = "done"
    /\ Record(IF reader.ok THEN report ELSE Nothing)
    /\ reader' = NoReader
    /\ UNCHANGED <<pods, lost>>

\* The driver pod is gone with its pool, or its log cannot be read to the end.
ReadLog ==
    /\ stage = "collect" /\ backend = "spark"
    /\ \E collected \in {report, Nothing} : Record(collected)
    /\ UNCHANGED readerVars

Prune ==
    /\ stage = "prune"
    /\ \/ PruneHistory(FALSE) /\ UNCHANGED lost
       \/ PruneHistory(TRUE) /\ Lose
    /\ stage' = "create"
    /\ UNCHANGED <<pods, reader, request, goal, model, resolved, started,
                   seconds, report, results>> /\ Fixed

EntryOf ==
    LET rate == Throughput(results, seconds) IN
    [nodes |-> HistoryNodes(request, resolved), machine |-> EffectiveMachine(request),
     rate |-> rate, work |-> rate * seconds]

\* The error of Create is logged, too.
Write ==
    /\ stage = "create"
    /\ \/ CreateEntry(EntryOf) /\ UNCHANGED lost
       \/ UNCHANGED historyVars /\ Lose
    /\ stage' = "patch"
    /\ UNCHANGED <<pods, reader, request, goal, model, resolved, started,
                   seconds, report, results>> /\ Fixed

\* The results are patched into the status.  When that fails all of Collecting is
\* run again.
Finish ==
    /\ stage = "patch"
    /\ \/ /\ stage' = "idle" /\ resolved' = 0 /\ started' = FALSE /\ seconds' = 0
          /\ report' = Nothing
          /\ UNCHANGED lost
       \/ stage' = "measure" /\ UNCHANGED <<resolved, started, seconds, report>> /\ Lose
    /\ results' = Nothing
    /\ UNCHANGED <<pods, reader, historyVars, request, goal, model>> /\ Fixed

\* The operator dies and starts over.
Crash ==
    /\ stage \in Collecting \ {"measure"}
    /\ Lose
    /\ stage' = "measure" /\ reader' = NoReader /\ results' = Nothing
    /\ UNCHANGED <<pods, historyVars, request, goal, model, resolved, started,
                   seconds, report>> /\ Fixed

\* Between runs and in reconcileCollecting, where the list is read or grows old.
Sync ==
    /\ stage \in {"idle", "prune", "create"}
    /\ SyncCache
    /\ UNCHANGED <<readerVars, runVars>> /\ Fixed

-----------------------------------------------------------------------------
CollectStep ==
    \/ Measure \/ MeasureNothing
    \/ OpenFile \/ ReadFile \/ CloseFile \/ ReadLog
    \/ Prune \/ Write \/ Finish

Next ==
    \/ Submit \/ Calibrate \/ Solve \/ Train \/ TrainFails
    \/ CollectStep \/ Crash \/ Sync

Spec == Init /\ [][Next]_vars

\* A reconcile runs on, and one that was cut off is started again.
FairSpec == Spec /\ WF_vars(CollectStep)
===============================================================================
