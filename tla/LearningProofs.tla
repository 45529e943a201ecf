----------------------------- MODULE LearningProofs -----------------------------
(***************************************************************************)
(* What holds of JobManifest for every job, and of Learning for every      *)
(* workload, history length and number of losses.                          *)
(***************************************************************************)
EXTENDS LearningProps, ScalingProofs

-----------------------------------------------------------------------------
(***************************************************************************)
(* JobManifest                                                             *)
(***************************************************************************)
(***************************************************************************)
(* effectiveMachineType, which the history, the cost and the solver use,   *)
(* names the machine nodePoolConfig gives the pool, for every spec.        *)
(***************************************************************************)
THEOREM OneMachine ==
    ASSUME NEW r \in Request
    PROVE  EffectiveMachine(r) = PoolMachine(r)
  BY DEF Request, EffectiveMachine, PoolMachine, PoolHardware, InferredHardware

(***************************************************************************)
(* The pods of a PyTorchJob tolerate every taint of the pool they are      *)
(* meant for: none is kept off it for good.                                *)
(***************************************************************************)
THEOREM PodsFitTheirPool ==
    ASSUME NEW r \in Request, r.backend = "pytorch"
    PROVE  PoolTaints(r) \subseteq Tolerated(r)
<1>1. PoolHardware(r) = "gpu" => AsksForGPU(r)
  BY DEF Request, PoolHardware, InferredHardware, AsksForGPU
<1>2. QED
  BY <1>1 DEF PoolTaints, Tolerated

(***************************************************************************)
(* As many pods train as the history says, unless a spec asks for more     *)
(* masters than nodes.                                                     *)
(***************************************************************************)
THEOREM TrainersAreCounted ==
    ASSUME NEW r \in Request, NEW resolved_ \in Nat \ {0},
           ~r.objective => r.masters <= r.nodes /\ r.nodes > 0
    PROVE  Trainers(r, resolved_) = HistoryNodes(r, resolved_)
<1>1. CASE r.objective
  BY <1>1 DEF Trainers, HistoryNodes, Executors, Workers, Masters, Request
<1>2. CASE ~r.objective
  BY <1>2 DEF Trainers, HistoryNodes, Executors, Workers, Masters, Request
<1> QED BY <1>1, <1>2

-----------------------------------------------------------------------------
(***************************************************************************)
(* The reader pods.  Between two readings, and before a pod is created and *)
(* after it is deleted, the reader names none.                             *)
(***************************************************************************)
ReaderInv ==
    /\ ReaderTypeOK
    /\ reader.at \in {"idle", "create", "done"} => reader.pod = NoPod
    /\ StrayPodsAreLost

\* Adding a pod to a finite set adds at most one.
LEMMA OneMore ==
    ASSUME NEW S, IsFiniteSet(S), NEW T, NEW x, T \subseteq S \cup {x}
    PROVE  Cardinality(T) <= Cardinality(S) + 1
<1>1. IsFiniteSet(S \cup {x}) /\ Cardinality(S \cup {x}) <= Cardinality(S) + 1
  <2>1. Cardinality(S) \in Nat
    BY FS_CardinalityType
  <2>2. /\ IsFiniteSet(S \cup {x})
        /\ Cardinality(S \cup {x}) = IF x \in S THEN Cardinality(S)
                                     ELSE Cardinality(S) + 1
    BY FS_AddElement
  <2> QED BY <2>1, <2>2
<1>2. IsFiniteSet(T) /\ Cardinality(T) <= Cardinality(S \cup {x})
  BY <1>1, FS_Subset
<1>3. Cardinality(T) \in Nat /\ Cardinality(S) \in Nat /\ Cardinality(S \cup {x}) \in Nat
  BY <1>1, <1>2, FS_CardinalityType
<1> QED BY <1>1, <1>2, <1>3

\* The set of pods is finite, and so is the set of those nobody reads through.
LEMMA PodsAreFinite ==
    ASSUME pods \subseteq PodNames, NEW x
    PROVE  IsFiniteSet(pods) /\ IsFiniteSet(pods \ {x})
  BY ReaderAssumption, FS_Subset

\* A step that leaves the pods alone and loses nothing, or something.
LEMMA PodsUntouched ==
    ASSUME ReaderInv, pods' = pods, reader' \in Reader,
           reader'.at \in {"idle", "create", "done"} => reader'.pod = NoPod,
           \/ reader'.pod = reader.pod /\ lost' = lost
           \/ lost' = lost + 1
    PROVE  ReaderInv'
<1>1. pods \subseteq PodNames /\ lost \in Nat /\ lost' \in Nat
  BY DEF ReaderInv, ReaderTypeOK
<1>2. Cardinality(pods \ {reader.pod}) <= lost
  BY DEF ReaderInv, StrayPodsAreLost
<1>3. Cardinality(pods' \ {reader'.pod}) <= lost'
  <2>1. CASE reader'.pod = reader.pod /\ lost' = lost
    BY <1>2, <2>1
  <2>2. CASE lost' = lost + 1
    <3>1. IsFiniteSet(pods \ {reader.pod}) /\ IsFiniteSet(pods' \ {reader'.pod})
      BY <1>1, PodsAreFinite
    <3>2. Cardinality(pods' \ {reader'.pod}) <= Cardinality(pods \ {reader.pod}) + 1
      <4>1. pods' \ {reader'.pod} \subseteq (pods \ {reader.pod}) \cup {reader.pod}
        OBVIOUS
      <4> QED BY <3>1, <4>1, OneMore
    <3>3. /\ Cardinality(pods \ {reader.pod}) \in Nat
          /\ Cardinality(pods' \ {reader'.pod}) \in Nat
      BY <3>1, FS_CardinalityType
    <3> QED BY <1>1, <1>2, <2>2, <3>2, <3>3
  <2> QED BY <2>1, <2>2
<1> QED BY <1>1, <1>3 DEF ReaderInv, ReaderTypeOK, StrayPodsAreLost

\* Every step of FromPVCFile keeps the invariant.
LEMMA ReaderStepKeepsPods ==
    ASSUME ReaderInv, ReaderStep
    PROVE  ReaderInv'
<1> USE DEF ReaderInv
<1>1. CASE CreatePod
  <2>1. PICK name \in PodNames :
          IF name \in pods
          THEN reader' = [reader EXCEPT !.at = "done"] /\ UNCHANGED pods
          ELSE /\ reader' = [reader EXCEPT !.at = "poll", !.pod = name]
               /\ pods' = pods \cup {name}
    BY <1>1 DEF CreatePod
  <2>2. reader \in Reader /\ reader.pod = NoPod /\ reader.at = "create" /\ lost' = lost
    BY <1>1 DEF CreatePod, ReaderTypeOK
  <2>3. CASE name \in pods
    <3>1. reader' \in Reader /\ reader'.pod = NoPod
      BY <2>1, <2>2, <2>3 DEF Reader
    <3> QED BY <2>1, <2>2, <2>3, <3>1, PodsUntouched
  <2>4. CASE name \notin pods
    <3>1. reader' \in Reader /\ reader'.pod = name /\ reader'.at = "poll"
      BY <2>1, <2>2, <2>4 DEF Reader
    <3>2. pods' \subseteq PodNames /\ pods' \ {reader'.pod} = pods \ {reader.pod}
      BY <2>1, <2>2, <2>4, <3>1, ReaderAssumption DEF ReaderTypeOK
    <3> QED BY <2>2, <3>1, <3>2 DEF ReaderTypeOK, StrayPodsAreLost
  <2> QED BY <2>3, <2>4
<1>2. CASE CreateFails
  <2>1. PICK name \in PodNames : pods' \in {pods, pods \cup {name}}
    BY <1>2 DEF CreateFails
  <2>2. /\ reader \in Reader /\ reader.pod = NoPod /\ pods \subseteq PodNames
        /\ reader' = [reader EXCEPT !.at = "done"] /\ lost' = lost + 1 /\ lost \in Nat
    BY <1>2 DEF CreateFails, ReaderTypeOK, Lose
  <2>3. reader' \in Reader /\ reader'.pod = NoPod
    BY <2>2 DEF Reader
  <2>4. pods' \ {reader'.pod} \subseteq (pods \ {reader.pod}) \cup {name}
    BY <2>1, <2>2, <2>3
  <2>5. IsFiniteSet(pods \ {reader.pod})
    BY <2>2, PodsAreFinite
  <2>6. Cardinality(pods' \ {reader'.pod}) <= Cardinality(pods \ {reader.pod}) + 1
    BY <2>4, <2>5, OneMore
  <2>7. pods' \subseteq PodNames /\ IsFiniteSet(pods' \ {reader'.pod})
    BY <2>1, <2>2, ReaderAssumption, FS_Subset
  <2>8. /\ Cardinality(pods \ {reader.pod}) \in Nat
        /\ Cardinality(pods' \ {reader'.pod}) \in Nat
    BY <2>5, <2>7, FS_CardinalityType
  <2>9. Cardinality(pods' \ {reader'.pod}) <= lost'
    BY <2>2, <2>6, <2>8 DEF StrayPodsAreLost
  <2> QED BY <2>2, <2>3, <2>7, <2>9 DEF ReaderTypeOK, StrayPodsAreLost
<1>3. CASE PollAgain \/ PodRuns \/ PollEnds \/ Exec
  <2>1. /\ reader \in Reader /\ reader' \in Reader /\ reader'.pod = reader.pod
        /\ reader'.at \in {"poll", "exec", "delete"} /\ pods' = pods /\ lost' = lost
    <3>1. CASE PollAgain
      BY <3>1 DEF PollAgain, ReaderTypeOK, Reader
    <3>2. CASE PodRuns
      BY <3>2 DEF PodRuns, ReaderTypeOK, Reader
    <3>3. CASE PollEnds
      BY <3>3 DEF PollEnds, ReaderTypeOK, Reader
    <3>4. CASE Exec
      BY <3>4 DEF Exec, ReaderTypeOK, Reader
    <3> QED BY <1>3, <3>1, <3>2, <3>3, <3>4
  <2> QED BY <2>1, PodsUntouched
<1>4. CASE DeletePod
  <2>1. /\ reader \in Reader /\ lost \in Nat
        /\ reader' = [reader EXCEPT !.at = "done", !.pod = NoPod]
    BY <1>4 DEF DeletePod, ReaderTypeOK
  <2>2. reader' \in Reader /\ reader'.pod = NoPod
    BY <2>1 DEF Reader
  <2>3. CASE pods' = pods \ {reader.pod} /\ lost' = lost
    <3>1. pods' \subseteq PodNames /\ pods' \ {reader'.pod} = pods \ {reader.pod}
      BY <2>2, <2>3, ReaderAssumption DEF ReaderTypeOK
    <3> QED BY <2>1, <2>2, <2>3, <3>1 DEF ReaderTypeOK, StrayPodsAreLost
  <2>4. CASE pods' = pods /\ lost' = lost + 1
    BY <2>2, <2>4, PodsUntouched
  <2> QED BY <1>4, <2>3, <2>4 DEF DeletePod, Lose
<1> QED BY <1>1, <1>2, <1>3, <1>4 DEF ReaderStep

\* So does every step of the loop around it.
LEMMA NextKeepsPods ==
    ASSUME ReaderInv, [Next]_vars
    PROVE  ReaderInv'
<1>1. reader \in Reader /\ lost \in Nat
  BY DEF ReaderInv, ReaderTypeOK
<1>2. NoReader \in Reader /\ NoReader.pod = NoPod
  BY DEF NoReader, Reader
<1>3. CASE UNCHANGED readerVars
  BY <1>1, <1>3, PodsUntouched DEF readerVars, ReaderInv
<1>4. CASE pods' = pods /\ reader' = reader /\ (lost' = lost \/ Lose)
  BY <1>1, <1>4, PodsUntouched DEF Lose, ReaderInv
<1>5. CASE OpenFile
  <2>1. /\ pods' = pods /\ lost' = lost /\ reader.pod = NoPod
        /\ reader' = [NoReader EXCEPT !.at = "create"]
    BY <1>5 DEF OpenFile, StartReading, ReaderInv
  <2>2. reader' \in Reader /\ reader'.pod = NoPod
    BY <1>2, <2>1 DEF Reader
  <2> QED BY <2>1, <2>2, PodsUntouched
<1>6. CASE ReadFile
  BY <1>6, ReaderStepKeepsPods DEF ReadFile
<1>7. CASE CloseFile
  <2>1. pods' = pods /\ lost' = lost /\ reader.pod = NoPod /\ reader' = NoReader
    BY <1>7 DEF CloseFile, ReaderInv
  <2> QED BY <1>2, <2>1, PodsUntouched
<1>8. CASE Crash
  <2>1. pods' = pods /\ lost' = lost + 1 /\ reader' = NoReader
    BY <1>8 DEF Crash, Lose
  <2> QED BY <1>2, <2>1, PodsUntouched
<1>9. CASE Submit \/ Calibrate \/ Solve \/ Train \/ TrainFails \/ Sync
  BY <1>3, <1>9 DEF Submit, Calibrate, Solve, Train, TrainFails, Sync
<1>10. CASE MeasureNothing \/ ReadLog
  BY <1>3, <1>10 DEF MeasureNothing, ReadLog
<1>11. CASE Measure \/ Prune \/ Write \/ Finish
  <2>1. pods' = pods /\ reader' = reader /\ (lost' = lost \/ Lose)
    BY <1>11 DEF Measure, Prune, Write, Finish
  <2> QED BY <1>4, <2>1
<1> QED
  BY <1>3, <1>5, <1>6, <1>7, <1>8, <1>9, <1>10, <1>11 DEF Next, CollectStep, vars

\* There is no pod in the beginning.
LEMMA ReaderStarts ==
    ASSUME Init
    PROVE  ReaderInv
<1>1. pods = {} /\ reader = NoReader /\ lost = 0
  BY DEF Init, ReaderInit
<1>2. Cardinality(pods \ {reader.pod}) = 0
  BY <1>1, FS_EmptySet
<1>3. reader \in Reader /\ reader.pod = NoPod
  BY <1>1 DEF NoReader, Reader
<1> QED BY <1>1, <1>2, <1>3 DEF ReaderInv, ReaderTypeOK, StrayPodsAreLost

(***************************************************************************)
(* However long the loop runs, whatever the bounds: every reader pod that  *)
(* is left over has been lost by a call, a reply or a crash.               *)
(***************************************************************************)
THEOREM OnlyLostPodsStay == Spec => []StrayPodsAreLost
<1>1. Init => ReaderInv
  BY ReaderStarts
<1>2. ReaderInv /\ [Next]_vars => ReaderInv'
  BY NextKeepsPods
<1>3. ReaderInv => StrayPodsAreLost
  BY DEF ReaderInv
<1> QED BY <1>1, <1>2, <1>3, PTL DEF Spec

-----------------------------------------------------------------------------
(***************************************************************************)
(* The entries.  What a run is about to write follows from its node count, *)
(* what it left behind, the time that was measured and the guard that let  *)
(* it through, each fixed by an earlier step.                              *)
(***************************************************************************)
AnyEntry == [nodes : Nat, machine : MachineTypes, rate : Nat, work : Nat]

RunNodes == HistoryNodes(request, resolved)

TypeInv ==
    /\ curve \in Curves
    /\ request \in Requests /\ request.backend = backend
    /\ stage \in Stages /\ started \in BOOLEAN
    /\ entries \in Seq(AnyEntry) /\ cached \in Seq(AnyEntry)

AskedInv == stage = "solve" => request.objective /\ goal \in Goals

SizedInv ==
    stage \in {"train"} \cup Collecting =>
        RunNodes \in DOMAIN curve.seconds /\ Trainers(request, resolved) = RunNodes

ReportInv ==
    stage \in Collecting =>
        report = [total |-> IF request.total THEN Work ELSE 0,
                  loop  |-> curve.loop[RunNodes]]

TimeInv ==
    stage \in Collecting \ {"measure"} /\ started =>
        /\ seconds \in {curve.seconds[RunNodes]} \cup curve.seen[RunNodes]
        /\ backend = "pytorch" /\ lost = 0 => seconds = curve.seconds[RunNodes]

ResultInv ==
    stage \in {"prune", "create"} =>
        started /\ results = report /\ WorthRecording(results, seconds, RunNodes)

RunInv == AskedInv /\ SizedInv /\ ReportInv /\ TimeInv /\ ResultInv

EntriesInv == TypeInv /\ RunInv

\* An exact division is undone by a multiplication.
LEMMA ExactDivision ==
    ASSUME NEW a \in Nat, NEW b \in Nat \ {0}, a % b = 0
    PROVE  (a \div b) \in Nat /\ (a \div b) * b = a
  BY SMTT(30)

\* What pruning leaves of a list is of the same type and no longer.
LEMMA SuffixIsPart ==
    ASSUME NEW S, NEW s \in Seq(S), NEW k \in Nat
    PROVE  /\ SubSeq(s, k + 1, Len(s)) \in Seq(S)
           /\ Len(SubSeq(s, k + 1, Len(s))) <= Len(s)
  BY SMTT(30)

\* Nothing that was lost is found again.
LEMMA LostGrows ==
    ASSUME ReaderInv, [Next]_vars
    PROVE  lost' \in Nat /\ (lost' = lost \/ lost' = lost + 1)
<1>1. lost \in Nat
  BY DEF ReaderInv, ReaderTypeOK
<1>2. CASE lost' = lost \/ Lose
  BY <1>1, <1>2 DEF Lose
<1>3. CASE ReaderStep
  BY <1>2, <1>3 DEF ReaderStep, CreatePod, CreateFails, PollAgain, PodRuns,
                    PollEnds, Exec, DeletePod
<1>4. CASE UNCHANGED readerVars
  BY <1>2, <1>4 DEF readerVars
<1>5. CASE Submit \/ Calibrate \/ Solve \/ Train \/ TrainFails \/ Sync
  BY <1>4, <1>5 DEF Submit, Calibrate, Solve, Train, TrainFails, Sync
<1>6. CASE MeasureNothing \/ ReadLog
  BY <1>4, <1>6 DEF MeasureNothing, ReadLog
<1>7. CASE OpenFile \/ CloseFile \/ Crash
  BY <1>2, <1>7 DEF OpenFile, CloseFile, Crash
<1>8. CASE Measure \/ Prune \/ Write \/ Finish
  BY <1>2, <1>8 DEF Measure, Prune, Write, Finish
<1>9. CASE ReadFile
  BY <1>3, <1>9 DEF ReadFile
<1>10. CASE UNCHANGED vars
  BY <1>4, <1>10 DEF vars
<1> QED
  BY <1>5, <1>6, <1>7, <1>8, <1>9, <1>10 DEF Next, CollectStep

\* The workload stays the same.
LEMMA WorkloadStays ==
    ASSUME [Next]_vars
    PROVE  curve' = curve /\ backend' = backend
<1>1. CASE Submit \/ Calibrate \/ Solve \/ Train \/ TrainFails \/ Sync
  BY <1>1 DEF Submit, Calibrate, Solve, Train, TrainFails, Sync, Fixed
<1>2. CASE Measure \/ MeasureNothing \/ OpenFile \/ ReadFile
  BY <1>2 DEF Measure, MeasureNothing, OpenFile, ReadFile, Fixed
<1>3. CASE CloseFile \/ ReadLog
  BY <1>3 DEF CloseFile, ReadLog, Record, Fixed
<1>4. CASE Prune \/ Write \/ Finish \/ Crash
  BY <1>4 DEF Prune, Write, Finish, Crash, Fixed
<1>5. CASE UNCHANGED vars
  BY <1>5 DEF vars
<1> QED BY <1>1, <1>2, <1>3, <1>4, <1>5 DEF Next, CollectStep

\* The number of nodes of a run that trains is one the workload is defined for.
LEMMA RunIsDefined ==
    ASSUME TypeInv, SizedInv, stage \in {"train"} \cup Collecting
    PROVE  /\ RunNodes \in Nat \ {0}
           /\ curve.seconds[RunNodes] \in Nat \ {0} /\ curve.loop[RunNodes] \in Nat
           /\ curve.seen[RunNodes] \subseteq Nat
           /\ \A t \in ({curve.seconds[RunNodes]} \cup curve.seen[RunNodes]) \ {0} :
                 Work % t = 0
  BY CurveAssumption DEF TypeInv, SizedInv, Positive

\* The machine in an entry is the one of the pool of its run.
LEMMA MachineIsTrue ==
    ASSUME TypeInv
    PROVE  /\ EffectiveMachine(request) \in MachineTypes
           /\ EffectiveMachine(request) = PoolMachine(request)
<1>1. request \in Request
  BY RequestAssumption DEF TypeInv
<1>2. EffectiveMachine(request) \in MachineTypes
  BY <1>1, MachineAssumption DEF EffectiveMachine, Request
<1>3. EffectiveMachine(request) = PoolMachine(request)
  BY <1>1, OneMachine
<1> QED BY <1>2, <1>3

\* What is known of the entry that is about to be written: its nodes and machine, and
\* that its work is the run's unless no time was measured.
LEMMA EntryIsTrue ==
    ASSUME EntriesInv, stage = "create"
    PROVE  /\ EntryOf \in AnyEntry
           /\ EntryOf.nodes = RunNodes /\ RunNodes = Trainers(request, resolved)
           /\ EntryOf.machine = PoolMachine(request)
           /\ EntryOf.work = EntryOf.rate * seconds
           /\ seconds > 0 => EntryOf.work = IF request.total THEN Work
                                           ELSE curve.loop[RunNodes] * seconds
<1> DEFINE rate == Throughput(results, seconds)
<1>1. /\ RunNodes \in Nat \ {0} /\ RunNodes \in DOMAIN curve.seconds
      /\ curve.seconds[RunNodes] \in Nat \ {0} /\ curve.loop[RunNodes] \in Nat
      /\ curve.seen[RunNodes] \subseteq Nat
      /\ \A t \in ({curve.seconds[RunNodes]} \cup curve.seen[RunNodes]) \ {0} :
            Work % t = 0
      /\ RunNodes = Trainers(request, resolved)
  BY RunIsDefined DEF EntriesInv, RunInv, SizedInv, Collecting
<1>2. /\ results.total = IF request.total THEN Work ELSE 0
      /\ results.loop = curve.loop[RunNodes]
  BY DEF EntriesInv, RunInv, ReportInv, ResultInv, Collecting
<1>3. seconds \in {curve.seconds[RunNodes]} \cup curve.seen[RunNodes]
  BY DEF EntriesInv, RunInv, TimeInv, ResultInv, Collecting
<1>4. seconds \in Nat /\ Work \in Nat \ {0}
  BY <1>1, <1>3, CurveAssumption DEF Positive
<1>5. /\ rate \in Nat /\ rate * seconds \in Nat
      /\ seconds > 0 => rate * seconds = IF request.total THEN Work
                                         ELSE curve.loop[RunNodes] * seconds
  <2>1. CASE request.total /\ seconds > 0
    <3>1. Work % seconds = 0 /\ results.total = Work /\ rate = Work \div seconds
      BY <1>1, <1>2, <1>3, <1>4, <2>1 DEF Throughput
    <3>2. (Work \div seconds) \in Nat /\ (Work \div seconds) * seconds = Work
      BY <1>4, <2>1, <3>1, ExactDivision
    <3> QED BY <1>4, <2>1, <3>1, <3>2
  <2>2. CASE ~(request.total /\ seconds > 0)
    <3>1. rate = curve.loop[RunNodes]
      BY <1>2, <1>4, <2>2 DEF Throughput
    <3>2. \A a, b \in Nat : a * b \in Nat
      OBVIOUS
    <3>3. rate \in Nat /\ rate * seconds \in Nat
      BY <1>1, <1>4, <3>1, <3>2
    <3> HIDE DEF rate
    <3> QED BY <2>2, <3>1, <3>3
  <2> QED BY <2>1, <2>2
<1>6. /\ EffectiveMachine(request) \in MachineTypes
      /\ EffectiveMachine(request) = PoolMachine(request)
  BY MachineIsTrue DEF EntriesInv
<1>7. /\ EntryOf.nodes = RunNodes /\ EntryOf.machine = EffectiveMachine(request)
      /\ EntryOf.rate = rate /\ EntryOf.work = rate * seconds
  BY DEF EntryOf, RunNodes
<1>8. EntryOf \in AnyEntry
  BY <1>1, <1>5, <1>6 DEF EntryOf, RunNodes, AnyEntry
<1> HIDE DEF rate
<1> QED BY <1>1, <1>5, <1>6, <1>7, <1>8

\* Pruning and writing only add an entry that is well-formed.
LEMMA ListsStayTyped ==
    ASSUME EntriesInv, [Next]_vars
    PROVE  entries' \in Seq(AnyEntry) /\ cached' \in Seq(AnyEntry)
<1>1. entries \in Seq(AnyEntry) /\ cached \in Seq(AnyEntry)
  BY DEF EntriesInv, TypeInv
<1>2. CASE UNCHANGED historyVars
  BY <1>1, <1>2 DEF historyVars
<1>3. CASE Prune
  <2>1. cached' = cached
    BY <1>3 DEF Prune, PruneHistory
  <2>2. CASE entries' = entries
    BY <1>1, <2>1, <2>2
  <2>3. CASE \E k \in 0 .. Excess : entries' = SubSeq(entries, k + 1, Len(entries))
    <3>1. Excess \in Int
      BY <1>1, LimitAssumption DEF Excess
    <3>2. PICK k \in Nat : entries' = SubSeq(entries, k + 1, Len(entries))
      BY <2>3, <3>1
    <3> QED BY <1>1, <2>1, <3>2, SuffixIsPart
  <2> QED BY <1>3, <2>2, <2>3 DEF Prune, PruneHistory
<1>4. CASE Write
  <2>1. EntryOf \in AnyEntry
    BY <1>4, EntryIsTrue DEF Write
  <2> QED BY <1>1, <1>2, <1>4, <2>1 DEF Write, CreateEntry
<1>5. CASE Sync
  BY <1>1, <1>5 DEF Sync, SyncCache
<1>6. CASE Submit \/ Calibrate \/ Solve \/ Train \/ TrainFails
  BY <1>2, <1>6 DEF Submit, Calibrate, Solve, Train, TrainFails
<1>7. CASE Measure \/ MeasureNothing \/ OpenFile \/ ReadFile
  BY <1>2, <1>7 DEF Measure, MeasureNothing, OpenFile, ReadFile
<1>8. CASE CloseFile \/ ReadLog
  BY <1>2, <1>8 DEF CloseFile, ReadLog, Record
<1>9. CASE Finish \/ Crash
  BY <1>2, <1>9 DEF Finish, Crash
<1>10. CASE UNCHANGED vars
  BY <1>2, <1>10 DEF vars
<1> QED
  BY <1>3, <1>4, <1>5, <1>6, <1>7, <1>8, <1>9, <1>10 DEF Next, CollectStep

\* The facts about the run stay as they are in a step within one stage, or into one
\* that asks no more, that changes nothing they speak of.
LEMMA RunStays ==
    ASSUME TypeInv, RunInv, ReaderInv, [Next]_vars,
           UNCHANGED <<request, goal, resolved, started, seconds, report>>,
           stage' \in {stage, "patch", "measure"},
           stage' = "measure" => stage \in Collecting,
           stage' = "patch" => stage \in Collecting \ {"measure"},
           stage' = stage => results' = results \/ stage \notin {"prune", "create"}
    PROVE  RunInv'
<1>1. curve' = curve /\ backend' = backend /\ (lost' = 0 => lost = 0)
  BY WorkloadStays, LostGrows DEF ReaderInv, ReaderTypeOK
<1>2. AskedInv'
  BY DEF RunInv, AskedInv, Collecting
<1>3. SizedInv'
  BY <1>1 DEF RunInv, SizedInv, RunNodes, Collecting
<1>4. ReportInv'
  BY <1>1 DEF RunInv, ReportInv, RunNodes, Collecting
<1>5. TimeInv'
  BY <1>1 DEF RunInv, TimeInv, RunNodes, Collecting
<1>6. ResultInv'
  BY DEF RunInv, ResultInv, RunNodes, Collecting
<1> QED BY <1>2, <1>3, <1>4, <1>5, <1>6 DEF RunInv

\* Every step keeps the facts about the run.
LEMMA RunInvStays ==
    ASSUME EntriesInv, ReaderInv, [Next]_vars
    PROVE  RunInv'
<1> USE DEF EntriesInv
<1>1. curve' = curve /\ backend' = backend /\ (lost' = 0 => lost = 0)
  BY WorkloadStays, LostGrows DEF ReaderInv, ReaderTypeOK
<1>2. CASE Submit
  <2>1. request' \in Requests /\ request' \in Request
    BY <1>2, RequestAssumption DEF Submit
  <2>2. CASE request'.objective
    <3>1. stage' = "solve" /\ goal' \in Goals
      BY <1>2, <2>2 DEF Submit
    <3> QED BY <2>2, <3>1 DEF RunInv, AskedInv, SizedInv, ReportInv, TimeInv,
                              ResultInv, Collecting
  <2>3. CASE ~request'.objective
    <3>1. stage' = "train"
      BY <1>2, <2>3 DEF Submit
    <3>2. /\ HistoryNodes(request', resolved') = request'.nodes
          /\ request'.nodes \in DOMAIN curve.seconds
          /\ Trainers(request', resolved') = request'.nodes
      <4>1. request'.masters <= request'.nodes /\ request'.nodes > 0
        BY <2>1, <2>3, RequestAssumption
      <4>2. request'.nodes \in DOMAIN curve.seconds
        BY <2>1, <2>3, LoopAssumption DEF TypeInv
      <4> QED BY <2>1, <2>3, <4>1, <4>2
              DEF HistoryNodes, Trainers, Executors, Workers, Masters, Request
    <3> QED BY <1>1, <3>1, <3>2 DEF RunInv, AskedInv, SizedInv, ReportInv, TimeInv,
                                    ResultInv, Collecting, RunNodes
  <2> QED BY <2>2, <2>3
<1>3. CASE Calibrate \/ Solve
  <2>1. request' = request /\ stage' = "train" /\ stage = "solve"
    BY <1>3 DEF Calibrate, Solve
  <2>2. request \in Request /\ request.objective /\ goal \in Goals
    BY <2>1, RequestAssumption DEF TypeInv, RunInv, AskedInv
  <2>3. resolved' \in DOMAIN curve.seconds /\ resolved' \in Nat \ {0}
    <3>1. CASE Calibrate
      BY <3>1, LoopAssumption, CurveAssumption DEF Calibrate, TypeInv, Positive
    <3>2. CASE Solve
      <4>1. resolved' \in 2 .. goal.maxNodes
        BY <3>2 DEF Solve, AllowedNodes
      <4> QED BY <2>2, <4>1, LoopAssumption DEF TypeInv
    <3> QED BY <1>3, <3>1, <3>2
  <2>4. /\ HistoryNodes(request', resolved') = resolved'
        /\ Trainers(request', resolved') = resolved'
    BY <2>1, <2>2, <2>3 DEF HistoryNodes, Trainers, Executors, Workers, Masters, Request
  <2> QED BY <1>1, <2>1, <2>3, <2>4 DEF RunInv, AskedInv, SizedInv, ReportInv, TimeInv,
                                        ResultInv, Collecting, RunNodes
<1>4. CASE Train
  <2>1. /\ stage = "train" /\ stage' = "measure"
        /\ request' = request /\ resolved' = resolved
        /\ report' = [total |-> IF request.total THEN Work ELSE 0,
                      loop  |-> curve.loop[Trainers(request, resolved)]]
    BY <1>4 DEF Train
  <2>2. /\ RunNodes' = RunNodes /\ Trainers(request, resolved) = RunNodes
        /\ RunNodes \in DOMAIN curve.seconds
    BY <2>1 DEF RunInv, SizedInv, RunNodes
  <2> QED BY <1>1, <2>1, <2>2 DEF RunInv, AskedInv, SizedInv, ReportInv, TimeInv,
                                  ResultInv, Collecting
<1>5. CASE TrainFails
  BY <1>5 DEF TrainFails, RunInv, AskedInv, SizedInv, ReportInv, TimeInv, ResultInv,
              Collecting
<1>6. CASE Measure
  <2>1. /\ stage = "measure" /\ stage' = "collect" /\ UNCHANGED <<request, resolved>>
        /\ UNCHANGED <<started, report, results, goal>>
    BY <1>6 DEF Measure
  <2>2. /\ RunNodes' = RunNodes /\ Trainers(request, resolved) = RunNodes
        /\ RunNodes \in DOMAIN curve.seconds
    BY <2>1 DEF RunInv, SizedInv, RunNodes, Collecting
  <2>3. /\ seconds' \in {curve.seconds[RunNodes]} \cup curve.seen[RunNodes]
        /\ backend = "pytorch" /\ lost' = 0 => seconds' = curve.seconds[RunNodes]
    BY <1>6, <2>2 DEF Measure, Lose, ReaderInv, ReaderTypeOK
  <2> QED BY <1>1, <2>1, <2>2, <2>3 DEF RunInv, AskedInv, SizedInv, ReportInv, TimeInv,
                                        ResultInv, Collecting
<1>7. CASE MeasureNothing
  <2>1. /\ stage = "measure" /\ stage' = "collect" /\ started' = FALSE
        /\ UNCHANGED <<request, resolved, report>>
    BY <1>7 DEF MeasureNothing, TypeInv
  <2> QED BY <1>1, <2>1 DEF RunInv, AskedInv, SizedInv, ReportInv, TimeInv, ResultInv,
                            Collecting, RunNodes
<1>8. CASE OpenFile \/ ReadFile \/ Sync \/ UNCHANGED vars
  <2>1. /\ UNCHANGED <<request, goal, resolved, started, seconds, report>>
        /\ stage' = stage /\ results' = results
    BY <1>8 DEF OpenFile, ReadFile, Sync, runVars, vars
  <2>2. stage' = "measure" => stage \in Collecting
    BY <2>1 DEF Collecting
  <2>3. stage' = "patch" => stage \in Collecting \ {"measure"}
    BY <2>1 DEF Collecting
  <2> QED BY <2>1, <2>2, <2>3, RunStays
<1>9. CASE CloseFile \/ ReadLog
  <2>1. PICK collected \in {report, Nothing} : stage = "collect" /\ Record(collected)
    BY <1>9 DEF CloseFile, ReadLog
  <2>2. UNCHANGED <<request, goal, resolved, started, seconds, report>>
    BY <2>1 DEF Record
  <2>3. CASE started /\ WorthRecording(collected, seconds, RunNodes)
    <3>1. stage' = "prune" /\ results' = collected
      BY <2>1, <2>3 DEF Record, RunNodes
    <3>2. collected = report
      BY <2>3 DEF WorthRecording, Throughput, Nothing
    <3> QED BY <1>1, <2>1, <2>2, <2>3, <3>1, <3>2
            DEF RunInv, AskedInv, SizedInv, ReportInv, TimeInv, ResultInv, Collecting,
                RunNodes
  <2>4. CASE ~(started /\ WorthRecording(collected, seconds, RunNodes))
    <3>1. stage' = "patch"
      BY <2>1, <2>4 DEF Record, RunNodes
    <3> QED BY <2>1, <2>2, <3>1, RunStays DEF Collecting
  <2> QED BY <2>3, <2>4
<1>10. CASE Prune
  <2>1. /\ UNCHANGED <<request, goal, resolved, started, seconds, report, results>>
        /\ stage = "prune" /\ stage' = "create"
    BY <1>10 DEF Prune
  <2> QED BY <1>1, <2>1 DEF RunInv, AskedInv, SizedInv, ReportInv, TimeInv, ResultInv,
                            Collecting, RunNodes
<1>11. CASE Write \/ Crash
  <2>1. /\ UNCHANGED <<request, goal, resolved, started, seconds, report>>
        /\ \/ stage = "create" /\ stage' = "patch"
           \/ stage \in Collecting \ {"measure"} /\ stage' = "measure"
    BY <1>11 DEF Write, Crash
  <2> QED BY <2>1, RunStays DEF Collecting
<1>12. CASE Finish
  <2>1. CASE stage' = "idle"
    BY <2>1 DEF RunInv, AskedInv, SizedInv, ReportInv, TimeInv, ResultInv, Collecting
  <2>2. CASE stage' = "measure" /\ UNCHANGED <<resolved, started, seconds, report>>
    <3>1. stage = "patch" /\ UNCHANGED <<request, goal>>
      BY <1>12 DEF Finish
    <3> QED BY <2>2, <3>1, RunStays DEF Collecting
  <2> QED BY <1>12, <2>1, <2>2 DEF Finish
<1> QED
  BY <1>2, <1>3, <1>4, <1>5, <1>6, <1>7, <1>8, <1>9, <1>10, <1>11, <1>12
  DEF Next, CollectStep

\* Every step keeps the types.
LEMMA TypeInvStays ==
    ASSUME EntriesInv, ReaderInv, [Next]_vars
    PROVE  TypeInv'
<1>1. curve' = curve /\ backend' = backend
  BY WorkloadStays
<1>2. /\ curve \in Curves /\ request \in Requests /\ request.backend = backend
      /\ stage \in Stages /\ started \in BOOLEAN
  BY DEF EntriesInv, TypeInv
<1>3. /\ request' \in Requests /\ request'.backend = backend
      /\ stage' \in Stages /\ started' \in BOOLEAN
  <2>1. CASE Submit
    BY <1>2, <2>1 DEF Submit, Stages
  <2>2. CASE Calibrate \/ Solve \/ Train \/ TrainFails
    BY <1>2, <2>2 DEF Calibrate, Solve, Train, TrainFails, Stages, Collecting
  <2>3. CASE Measure \/ MeasureNothing \/ OpenFile \/ ReadFile \/ Sync
    BY <1>2, <2>3 DEF Measure, MeasureNothing, OpenFile, ReadFile, Sync, runVars,
                      Stages, Collecting
  <2>4. CASE CloseFile
    BY <1>2, <2>4 DEF CloseFile, Record, Stages, Collecting
  <2>5. CASE ReadLog
    BY <1>2, <2>5 DEF ReadLog, Record, Stages, Collecting
  <2>6. CASE Prune \/ Write \/ Finish \/ Crash
    BY <1>2, <2>6 DEF Prune, Write, Finish, Crash, Stages, Collecting
  <2>7. CASE UNCHANGED vars
    BY <1>2, <2>7 DEF vars, runVars
  <2> QED
    BY <2>1, <2>2, <2>3, <2>4, <2>5, <2>6, <2>7 DEF Next, CollectStep
<1>4. entries' \in Seq(AnyEntry) /\ cached' \in Seq(AnyEntry)
  BY ListsStayTyped
<1> QED BY <1>1, <1>2, <1>3, <1>4 DEF TypeInv

\* In the beginning there is no entry.
LEMMA EverythingStarts ==
    ASSUME Init
    PROVE  EntriesInv /\ ReaderInv
<1>1. /\ curve \in Curves /\ request \in Requests /\ backend = request.backend
      /\ stage = "idle" /\ started = FALSE /\ entries = <<>> /\ cached = <<>>
  BY DEF Init, HistoryInit
<1>2. TypeInv
  <2>1. started \in BOOLEAN
    BY <1>1, Zenon
  <2>2. entries \in Seq(AnyEntry) /\ cached \in Seq(AnyEntry)
    BY <1>1
  <2>3. curve \in Curves /\ request \in Requests /\ request.backend = backend
    BY <1>1, Zenon
  <2>4. stage \in Stages
    BY <1>1 DEF Stages
  <2> QED BY <2>1, <2>2, <2>3, <2>4 DEF TypeInv
<1>3. RunInv
  BY <1>1 DEF RunInv, AskedInv, SizedInv, ReportInv, TimeInv, ResultInv, Collecting
<1>4. ReaderInv
  BY ReaderStarts
<1> QED BY <1>2, <1>3, <1>4 DEF EntriesInv

\* The two invariants together are inductive.
LEMMA EverythingStays ==
    ASSUME EntriesInv, ReaderInv, [Next]_vars
    PROVE  (EntriesInv /\ ReaderInv)'
  BY TypeInvStays, RunInvStays, NextKeepsPods DEF EntriesInv

\* The length of what is left when k entries of a list are deleted.
LEMMA SuffixLength ==
    ASSUME NEW S, NEW s \in Seq(S), NEW k \in 0 .. Len(s)
    PROVE  Len(SubSeq(s, k + 1, Len(s))) = Len(s) - k
  BY SMTT(30)

(***************************************************************************)
(* One pruning with a current list and no failed call makes room, however  *)
(* long stale lists and failures have let the history grow and whatever    *)
(* the retention limit is.                                                 *)
(***************************************************************************)
THEOREM OnePruningSuffices == Spec => RetentionCatchesUp
<1> DEFINE Step ==
      stage = "prune" /\ stage' = "create" /\ cached = entries /\ gone = 0 /\ lost' = lost
        => Len(entries') < Limit
<1>1. Init => EntriesInv /\ ReaderInv
  BY EverythingStarts
<1>2. EntriesInv /\ ReaderInv /\ [Next]_vars => (EntriesInv /\ ReaderInv)'
  BY EverythingStays
<1>3. EntriesInv /\ ReaderInv /\ [Next]_vars => [Step]_vars
  <2> SUFFICES ASSUME EntriesInv, ReaderInv, Next,
                      stage = "prune", stage' = "create", cached = entries, gone = 0,
                      lost' = lost
               PROVE  Len(entries') < Limit
    OBVIOUS
  <2>1. Prune
    BY DEF Next, CollectStep, Submit, Calibrate, Solve, Train, TrainFails, Sync, Measure,
           MeasureNothing, OpenFile, ReadFile, CloseFile, ReadLog, Record, Write, Finish,
           Crash, runVars
  <2>2. entries \in Seq(AnyEntry) /\ Len(entries) \in Nat /\ Limit \in Nat \ {0}
    BY LimitAssumption DEF EntriesInv, TypeInv
  <2>3. PruneHistory(FALSE)
    <3>1. lost \in Nat
      BY DEF ReaderInv, ReaderTypeOK
    <3>2. ~Lose
      BY <3>1 DEF Lose
    <3> QED BY <2>1, <3>2, Zenon DEF Prune
  <2>4. CASE Len(entries) < Limit
    BY <2>3, <2>4 DEF PruneHistory
  <2>5. CASE Len(entries) >= Limit
    <3>1. Excess = Len(entries) - Limit + 1 /\ Excess \in 0 .. Len(entries)
      BY <2>2, <2>5 DEF Excess
    <3>2. entries' = SubSeq(entries, Excess + 1, Len(entries))
      <4>1. PICK k \in 0 .. Excess :
              /\ ~(k < Excess)
              /\ entries' = SubSeq(entries, k + 1, Len(entries))
        BY <2>2, <2>3, <2>5 DEF PruneHistory
      <4>2. k = Excess
        BY <3>1, <4>1
      <4> QED BY <4>1, <4>2
    <3>3. Len(entries') = Len(entries) - Excess
      BY <2>2, <3>1, <3>2, SuffixLength
    <3> QED BY <2>2, <3>1, <3>3
  <2> QED BY <2>2, <2>4, <2>5
<1> QED BY <1>1, <1>2, <1>3, PTL DEF Spec, RetentionCatchesUp

-----------------------------------------------------------------------------
(***************************************************************************)
(* The averages.  What the solver is given depends on the values of the    *)
(* entries, not only on their being true: a rate or a node count of 0      *)
(* would make its model a fraction over 0.  writeHistoryEntry keeps them   *)
(* out; and what it writes about a PyTorchJob is never faster than the     *)
(* workload is, since a lost answer makes a run look longer.               *)
(***************************************************************************)
FitEntry ==
    {e \in Entry :
       /\ e.nodes \in DOMAIN curve.seconds
       /\ backend = "pytorch" => e.rate * curve.seconds[e.nodes] <= e.work}

HistoryInv == entries \in Seq(FitEntry) /\ cached \in Seq(FitEntry)

PaceInv ==
    stage \in Collecting \ {"measure"} /\ started /\ backend = "pytorch" =>
        curve.seconds[RunNodes] <= seconds

ValueInv ==
    /\ gone \in Nat /\ goal \in Goals \cup {NoGoal} /\ model \in Model
    /\ resolved \in Nat /\ seconds \in Nat
    /\ report \in [total : Nat, loop : Nat] /\ results \in [total : Nat, loop : Nat]

ShapeInv == HistoryInv /\ PaceInv /\ ValueInv

\* The average of a field over the entries of one node count is between the bounds
\* of its values.
LEMMA AverageIsBetween ==
    ASSUME HistoryInv, NEW field \in {"rate", "work"},
           NEW n \in {cached[i].nodes : i \in DOMAIN cached},
           NEW low \in Nat, NEW high \in Nat,
           \A i \in DOMAIN cached : cached[i].nodes = n => low <= cached[i][field]
    PROVE  /\ Average(n, field) \in Nat /\ low <= Average(n, field)
           /\ (\A i \in DOMAIN cached : cached[i].nodes = n => cached[i][field] <= high)
                => Average(n, field) <= high
<1> DEFINE at == {i \in DOMAIN cached : cached[i].nodes = n}
           values == [i \in DOMAIN cached |-> cached[i][field]]
<1>1. Len(cached) \in Nat /\ DOMAIN cached = 1 .. Len(cached)
  BY DEF HistoryInv
<1>2. IsFiniteSet(at) /\ at # {}
  <2>1. IsFiniteSet(DOMAIN cached)
    BY <1>1, FS_Interval
  <2> QED BY <2>1, FS_Subset
<1>3. \A i \in at : values[i] = cached[i][field] /\ values[i] \in Nat
  BY DEF HistoryInv, FitEntry, Entry, Positive
<1>4. Average(n, field) = SumFunctionOnSet(values, at) \div Cardinality(at)
  BY DEF Average
<1>5. \A i \in at : cached[i].nodes = n
  OBVIOUS
<1>6. /\ \A i \in at : values[i] \in Nat /\ low <= values[i]
      /\ (\A i \in DOMAIN cached : cached[i].nodes = n => cached[i][field] <= high)
           => \A i \in at : values[i] <= high
  BY <1>3
<1> HIDE DEF at, values
<1> QED BY <1>2, <1>4, <1>6, AverageBounds

\* What the solver is given is a history it can work with.
LEMMA PointsAreMeasured ==
    ASSUME HistoryInv, Points # {}
    PROVE  Measured(Points) /\ WorkAtSmallest \in Nat
<1>1. \A i \in DOMAIN cached : /\ cached[i].nodes \in Positive
                               /\ cached[i].rate \in Positive /\ cached[i].work \in Nat
  BY DEF HistoryInv, FitEntry, Entry
<1>2. \A n \in {cached[i].nodes : i \in DOMAIN cached} :
        n \in Positive /\ Average(n, "rate") \in Positive /\ Average(n, "work") \in Nat
  <2> SUFFICES ASSUME NEW n \in {cached[i].nodes : i \in DOMAIN cached}
               PROVE  /\ n \in Positive /\ Average(n, "rate") \in Positive
                      /\ Average(n, "work") \in Nat
    OBVIOUS
  <2>1. Average(n, "rate") \in Nat /\ 1 <= Average(n, "rate")
    BY <1>1, AverageIsBetween DEF Positive
  <2>2. Average(n, "work") \in Nat
    BY <1>1, AverageIsBetween
  <2> QED BY <1>1, <2>1, <2>2 DEF Positive
<1>3. Measured(Points)
  BY <1>2 DEF Points, Point, Measured
<1>4. Smallest(Points) \in Points
  BY <1>3, SmallestIsLeast DEF Measured
<1>5. Smallest(Points).nodes \in {cached[i].nodes : i \in DOMAIN cached}
  <2>1. \A p \in Points : p.nodes \in {cached[i].nodes : i \in DOMAIN cached}
    BY DEF Points
  <2> QED BY <1>4, <2>1
<1> QED BY <1>2, <1>3, <1>5 DEF WorkAtSmallest

\* What is fit stays fit.
LEMMA FitStays ==
    ASSUME [Next]_vars
    PROVE  FitEntry' = FitEntry
  BY WorkloadStays DEF FitEntry, Entry, Positive

\* The entry that is about to be written is fit.
LEMMA WritesFitEntry ==
    ASSUME EntriesInv, ShapeInv, stage = "create"
    PROVE  EntryOf \in FitEntry
<1> DEFINE rate == Throughput(results, seconds)
<1>1. EntryOf \in AnyEntry
  BY EntryIsTrue
<1>2. started /\ rate # 0 /\ RunNodes # 0
  BY DEF EntriesInv, RunInv, ResultInv, WorthRecording
<1>3. /\ EntryOf.nodes = RunNodes /\ EntryOf.machine = EffectiveMachine(request)
      /\ EntryOf.rate = rate /\ EntryOf.work = rate * seconds
      /\ EntryOf = [nodes |-> RunNodes, machine |-> EffectiveMachine(request),
                    rate |-> rate, work |-> rate * seconds]
  BY DEF EntryOf, RunNodes
<1>4. EntryOf \in Entry /\ rate \in Nat
  BY <1>1, <1>2, <1>3 DEF AnyEntry, Entry, Positive
<1>5. /\ RunNodes \in DOMAIN curve.seconds /\ curve.seconds[RunNodes] \in Nat
      /\ seconds \in Nat
  BY RunIsDefined DEF EntriesInv, RunInv, SizedInv, Collecting, ShapeInv, ValueInv
<1>6. ASSUME backend = "pytorch"
      PROVE  rate * curve.seconds[RunNodes] <= rate * seconds
  <2>1. curve.seconds[RunNodes] <= seconds
    BY <1>2, <1>6 DEF ShapeInv, PaceInv, Collecting
  <2> HIDE DEF rate
  <2> QED BY <1>4, <1>5, <2>1, ProductGrows
<1> HIDE DEF rate
<1> QED BY <1>3, <1>4, <1>5, <1>6 DEF FitEntry

\* Every step keeps the lists fit.
LEMMA HistoryStaysFit ==
    ASSUME EntriesInv, ShapeInv, [Next]_vars
    PROVE  HistoryInv' /\ gone' \in Nat
<1>1. entries \in Seq(FitEntry) /\ cached \in Seq(FitEntry) /\ gone \in Nat
  BY DEF ShapeInv, HistoryInv, ValueInv
<1>2. ASSUME entries' \in Seq(FitEntry), cached' \in Seq(FitEntry)
      PROVE  HistoryInv'
  BY <1>2, FitStays DEF HistoryInv
<1>3. CASE UNCHANGED historyVars
  BY <1>1, <1>2, <1>3 DEF historyVars
<1>4. CASE Prune
  <2>1. cached' = cached
    BY <1>4 DEF Prune, PruneHistory
  <2>2. CASE entries' = entries /\ gone' = gone
    BY <1>1, <1>2, <2>1, <2>2
  <2>3. CASE \E k \in 0 .. Excess : /\ entries' = SubSeq(entries, k + 1, Len(entries))
                                    /\ gone' = gone + k
    <3>1. Excess \in Int
      BY <1>1, LimitAssumption DEF Excess
    <3>2. PICK k \in Nat : /\ entries' = SubSeq(entries, k + 1, Len(entries))
                           /\ gone' = gone + k
      BY <2>3, <3>1
    <3>3. entries' \in Seq(FitEntry)
      BY <1>1, <3>2, SuffixIsPart
    <3> QED BY <1>1, <1>2, <2>1, <3>2, <3>3
  <2> QED BY <1>4, <2>2, <2>3 DEF Prune, PruneHistory
<1>5. CASE Write
  <2>1. CASE UNCHANGED historyVars
    BY <1>3, <2>1
  <2>2. CASE CreateEntry(EntryOf)
    <3>1. EntryOf \in FitEntry
      BY <1>5, WritesFitEntry DEF Write
    <3>2. entries' = Append(entries, EntryOf) /\ UNCHANGED <<cached, gone>>
      BY <2>2 DEF CreateEntry
    <3> QED BY <1>1, <1>2, <3>1, <3>2
  <2> QED BY <1>5, <2>1, <2>2 DEF Write
<1>6. CASE Sync
  BY <1>1, <1>2, <1>6 DEF Sync, SyncCache
<1>7. CASE Submit \/ Calibrate \/ Solve \/ Train \/ TrainFails
  BY <1>3, <1>7 DEF Submit, Calibrate, Solve, Train, TrainFails
<1>8. CASE Measure \/ MeasureNothing \/ OpenFile \/ ReadFile
  BY <1>3, <1>8 DEF Measure, MeasureNothing, OpenFile, ReadFile
<1>9. CASE CloseFile \/ ReadLog
  BY <1>3, <1>9 DEF CloseFile, ReadLog, Record
<1>10. CASE Finish \/ Crash
  BY <1>3, <1>10 DEF Finish, Crash
<1>11. CASE UNCHANGED vars
  BY <1>3, <1>11 DEF vars
<1> QED
  BY <1>4, <1>5, <1>6, <1>7, <1>8, <1>9, <1>10, <1>11 DEF Next, CollectStep

\* A run that has not been measured, or has been left alone since, is not seen to
\* be faster than it was.
LEMMA PaceStays ==
    ASSUME EntriesInv, ShapeInv, [Next]_vars
    PROVE  PaceInv'
<1>1. curve' = curve /\ backend' = backend
  BY WorkloadStays
<1>2. ASSUME stage \in Collecting \ {"measure"} \/ stage' \notin Collecting \ {"measure"},
             UNCHANGED <<request, resolved, started, seconds>>
      PROVE  PaceInv'
  BY <1>1, <1>2 DEF ShapeInv, PaceInv, RunNodes
<1>3. CASE Submit \/ Calibrate \/ Solve \/ Train \/ TrainFails \/ Crash \/ Finish
  <2>1. stage' \notin Collecting \ {"measure"}
    BY <1>3 DEF Submit, Calibrate, Solve, Train, TrainFails, Crash, Finish, Collecting
  <2> QED BY <2>1 DEF PaceInv
<1>4. CASE Measure
  <2>1. RunNodes' = RunNodes /\ Trainers(request, resolved) = RunNodes
    BY <1>4 DEF EntriesInv, RunInv, SizedInv, RunNodes, Collecting, Measure
  <2>2. RunNodes \in DOMAIN curve.seconds /\ curve.seconds[RunNodes] \in Nat
    BY <1>4, RunIsDefined DEF EntriesInv, RunInv, SizedInv, Collecting, Measure
  <2>3. backend = "pytorch" => curve.seconds[RunNodes] <= seconds'
    BY <1>4, <2>1, <2>2 DEF Measure
  <2> QED BY <1>1, <2>1, <2>3 DEF PaceInv
<1>5. CASE MeasureNothing
  <2>1. started' = FALSE
    BY <1>5 DEF MeasureNothing, EntriesInv, TypeInv
  <2> QED BY <2>1 DEF PaceInv
<1>6. CASE OpenFile \/ ReadFile \/ ReadLog \/ CloseFile \/ Prune \/ Write
  <2>1. stage \in Collecting \ {"measure"}
    BY <1>6 DEF OpenFile, ReadFile, ReadLog, CloseFile, Prune, Write, Collecting
  <2>2. UNCHANGED <<request, resolved, started, seconds>>
    BY <1>6 DEF OpenFile, ReadFile, ReadLog, CloseFile, Prune, Write, Record, runVars
  <2> QED BY <1>2, <2>1, <2>2
<1>7. CASE Sync \/ UNCHANGED vars
  BY <1>2, <1>7 DEF Sync, vars, runVars
<1> QED BY <1>3, <1>4, <1>5, <1>6, <1>7 DEF Next, CollectStep

\* The model the solver works with is a model.
LEMMA SolvesWithModel ==
    ASSUME HistoryInv, Solve
    PROVE  model' \in Model
<1>1. Points # {} /\ model' \in Models(Points, WorkAtSmallest, Provisioning)
  BY DEF Solve, NeedsCalibration
<1>2. Measured(Points) /\ WorkAtSmallest \in Nat /\ Provisioning \in Nat
  BY <1>1, PointsAreMeasured, LoopAssumption
<1> QED BY <1>1, <1>2, ModelsAreModels

\* Every step keeps what the solver and the run compute within its type.
LEMMA ValuesStay ==
    ASSUME EntriesInv, ShapeInv, [Next]_vars
    PROVE  ValueInv'
<1> DEFINE Report == [total : Nat, loop : Nat]
<1>1. /\ goal \in Goals \cup {NoGoal} /\ model \in Model
      /\ resolved \in Nat /\ seconds \in Nat /\ report \in Report /\ results \in Report
  BY DEF ShapeInv, ValueInv
<1>2. gone' \in Nat
  BY HistoryStaysFit
<1>3. NoModel \in Model /\ Nothing \in Report /\ 0 \in Nat
  BY DEF NoModel, Model, Positive, Nothing
<1>4. CASE Submit
  BY <1>1, <1>2, <1>3, <1>4 DEF Submit, ValueInv
<1>5. CASE Calibrate
  <2>1. resolved' \in Nat
    BY <1>5, LoopAssumption DEF Calibrate, Positive
  <2> QED BY <1>1, <1>2, <1>5, <2>1 DEF Calibrate, ValueInv
<1>6. CASE Solve
  <2>1. model' \in Model
    BY <1>6, SolvesWithModel DEF ShapeInv
  <2>2. goal \in Goals
    BY <1>6 DEF Solve, EntriesInv, RunInv, AskedInv
  <2>3. resolved' \in Nat
    BY <1>6, <2>2, LoopAssumption DEF Solve, AllowedNodes
  <2> QED BY <1>1, <1>2, <1>6, <2>1, <2>3 DEF Solve, ValueInv
<1>7. CASE Train
  <2>1. Trainers(request, resolved) = RunNodes /\ curve.loop[RunNodes] \in Nat
    BY <1>7, RunIsDefined DEF Train, EntriesInv, RunInv, SizedInv
  <2>2. report' \in Report
    BY <1>7, <2>1, CurveAssumption DEF Train, Positive
  <2> QED BY <1>1, <1>2, <1>3, <1>7, <2>2 DEF Train, ValueInv
<1>8. CASE TrainFails
  BY <1>1, <1>2, <1>3, <1>8 DEF TrainFails, ValueInv
<1>9. CASE Measure
  <2>1. /\ Trainers(request, resolved) = RunNodes
        /\ curve.seconds[RunNodes] \in Nat /\ curve.seen[RunNodes] \subseteq Nat
    BY <1>9, RunIsDefined DEF Measure, EntriesInv, RunInv, SizedInv, Collecting
  <2>2. seconds' \in Nat
    BY <1>9, <2>1 DEF Measure
  <2> QED BY <1>1, <1>2, <1>9, <2>2 DEF Measure, ValueInv
<1>10. CASE CloseFile \/ ReadLog
  BY <1>1, <1>2, <1>3, <1>10 DEF CloseFile, ReadLog, Record, ValueInv
<1>11. CASE MeasureNothing \/ Prune \/ Write
  BY <1>1, <1>2, <1>11 DEF MeasureNothing, Prune, Write, ValueInv
<1>12. CASE OpenFile \/ ReadFile \/ Sync \/ UNCHANGED vars
  BY <1>1, <1>2, <1>12 DEF OpenFile, ReadFile, Sync, runVars, vars, ValueInv
<1>13. CASE Finish \/ Crash
  BY <1>1, <1>2, <1>3, <1>13 DEF Finish, Crash, ValueInv
<1> QED
  BY <1>4, <1>5, <1>6, <1>7, <1>8, <1>9, <1>10, <1>11, <1>12, <1>13
  DEF Next, CollectStep

\* In the beginning there is no entry and nothing has been computed.
LEMMA ShapeStarts ==
    ASSUME Init
    PROVE  ShapeInv
<1>1. HistoryInv /\ gone \in Nat
  BY DEF Init, HistoryInit, HistoryInv
<1>2. PaceInv
  BY DEF Init, PaceInv
<1>3. NoModel \in Model /\ Nothing \in [total : Nat, loop : Nat]
  BY DEF NoModel, Model, Positive, Nothing
<1> QED BY <1>1, <1>2, <1>3 DEF Init, ShapeInv, ValueInv

\* The three invariants together are inductive.
LEMMA AllStays ==
    ASSUME EntriesInv, ReaderInv, ShapeInv, [Next]_vars
    PROVE  (EntriesInv /\ ReaderInv /\ ShapeInv)'
  BY EverythingStays, HistoryStaysFit, PaceStays, ValuesStay DEF ShapeInv

(***************************************************************************)
(* Types: in particular, an entry has nodes and a throughput, so that no   *)
(* average and no fit the solver computes from any history divides by 0.   *)
(***************************************************************************)
THEOREM LearningTypeCorrect == Spec => []TypeOK
<1>1. Init => EntriesInv /\ ReaderInv /\ ShapeInv
  BY EverythingStarts, ShapeStarts
<1>2. EntriesInv /\ ReaderInv /\ ShapeInv /\ [Next]_vars
        => (EntriesInv /\ ReaderInv /\ ShapeInv)'
  BY AllStays
<1>3. EntriesInv /\ ReaderInv /\ ShapeInv => TypeOK
  <2> SUFFICES ASSUME EntriesInv, ReaderInv, ShapeInv
               PROVE  TypeOK
    OBVIOUS
  <2>1. entries \in Seq(Entry) /\ cached \in Seq(Entry)
    <3>1. FitEntry \subseteq Entry
      BY DEF FitEntry
    <3> QED BY <3>1 DEF ShapeInv, HistoryInv
  <2>2. backend \in {"pytorch", "spark"}
    BY RequestAssumption DEF EntriesInv, TypeInv, Request
  <2> QED BY <2>1, <2>2 DEF EntriesInv, TypeInv, ReaderInv, ShapeInv, ValueInv, TypeOK
<1> QED BY <1>1, <1>2, <1>3, PTL DEF Spec

(***************************************************************************)
(* Every entry describes the run it is written for, for any workload, jobs *)
(* and objectives, whichever backend, and with any number of crashes,      *)
(* failed calls and repeated handlers: its nodes are the pods that         *)
(* trained, its machine is that of the pool, its work is the run's unless  *)
(* no time was measured, and a PyTorchJob is never said to have been       *)
(* faster than it was.                                                     *)
(***************************************************************************)
THEOREM EntriesTrue == Spec => EntriesAreTrue
<1> DEFINE Step ==
      Len(entries') > Len(entries) => DescribesRun(entries'[Len(entries')])
<1>1. Init => EntriesInv /\ ReaderInv /\ ShapeInv
  BY EverythingStarts, ShapeStarts
<1>2. EntriesInv /\ ReaderInv /\ ShapeInv /\ [Next]_vars
        => (EntriesInv /\ ReaderInv /\ ShapeInv)'
  BY AllStays
<1>3. EntriesInv /\ ReaderInv /\ ShapeInv /\ [Next]_vars => [Step]_vars
  <2> SUFFICES ASSUME EntriesInv, ReaderInv, ShapeInv, Next,
                      Len(entries') > Len(entries)
               PROVE  DescribesRun(entries'[Len(entries')])
    OBVIOUS
  <2>1. entries \in Seq(AnyEntry) /\ Len(entries) \in Nat
    BY DEF EntriesInv, TypeInv
  <2>2. Write /\ entries' # entries
    <3>1. entries' # entries
      BY <2>1
    <3>2. CASE Prune
      <4>1. Excess \in Int
        BY LimitAssumption DEF Excess, EntriesInv, TypeInv
      <4>2. PICK k \in Nat : entries' = SubSeq(entries, k + 1, Len(entries))
        BY <3>1, <3>2, <4>1 DEF Prune, PruneHistory
      <4>3. Len(entries') <= Len(entries)
        BY <2>1, <4>2, SuffixIsPart
      <4> QED BY <2>1, <4>2, <4>3
    <3> QED
      BY <3>1, <3>2 DEF Next, CollectStep, Submit, Calibrate, Solve, Train, TrainFails, Sync,
         SyncCache, Measure, MeasureNothing, OpenFile, ReadFile, CloseFile, ReadLog,
         Record, Finish, Crash, historyVars
  <2>3. stage = "create" /\ entries' = Append(entries, EntryOf)
    BY <2>2 DEF Write, CreateEntry, historyVars
  <2>4. entries'[Len(entries')] = EntryOf
    BY <2>1, <2>3
  <2>5. /\ EntryOf.nodes = RunNodes /\ RunNodes = Trainers(request, resolved)
        /\ EntryOf.machine = PoolMachine(request)
        /\ EntryOf.work = EntryOf.rate * seconds
        /\ seconds > 0 => EntryOf.work = IF request.total THEN Work
                                        ELSE curve.loop[RunNodes] * seconds
    BY <2>3, EntryIsTrue
  <2>6. backend = "pytorch" => EntryOf.rate * curve.seconds[RunNodes] <= EntryOf.work
    BY <2>3, <2>5, WritesFitEntry DEF FitEntry
  <2>7. backend = "pytorch" /\ lost = 0 => seconds = curve.seconds[RunNodes]
    BY <2>3 DEF EntriesInv, RunInv, TimeInv, ResultInv, Collecting
  <2> QED BY <2>4, <2>5, <2>6, <2>7 DEF DescribesRun
<1> QED BY <1>1, <1>2, <1>3, PTL DEF Spec, EntriesAreTrue

-----------------------------------------------------------------------------
(***************************************************************************)
(* The predictions.                                                        *)
(***************************************************************************)
\* As many points as node counts.
LEMMA PointsAreCounted ==
    ASSUME HistoryInv, Points # {}, Cardinality(NodesSeen) <= 2
    PROVE  IsFiniteSet(Points) /\ Cardinality(Points) \in {1, 2}
<1> DEFINE counts == {cached[i].nodes : i \in DOMAIN cached}
           node == [n \in counts |-> [nodes |-> n, rate |-> Average(n, "rate")]]
<1>1. NodesSeen = counts
  <2>1. \A p \in Points : p.nodes \in counts
    BY DEF Points
  <2>2. \A n \in counts : [nodes |-> n, rate |-> Average(n, "rate")] \in Points
    BY DEF Points
  <2> HIDE DEF counts
  <2>3. \A n \in counts : n \in {p.nodes : p \in Points}
    <3> TAKE n \in counts
    <3> DEFINE q == [nodes |-> n, rate |-> Average(n, "rate")]
    <3>1. q.nodes = n
      OBVIOUS
    <3>2. q \in Points
      BY <2>2
    <3> HIDE DEF q
    <3> QED BY <3>1, <3>2
  <2>4. {p.nodes : p \in Points} \subseteq counts
    BY <2>1
  <2> QED BY <2>3, <2>4 DEF NodesSeen
<1>2. IsFiniteSet(counts)
  <2>1. Len(cached) \in Nat /\ DOMAIN cached = 1 .. Len(cached)
    BY DEF HistoryInv
  <2>2. IsFiniteSet(DOMAIN cached)
    BY <2>1, FS_Interval
  <2> DEFINE at == [i \in DOMAIN cached |-> cached[i].nodes]
  <2>3. at \in Surjection(DOMAIN cached, counts)
    BY DEF Surjection
  <2> HIDE DEF at, counts
  <2> QED BY <2>2, <2>3, FS_Surjection
<1>3. node \in Surjection(counts, Points)
  BY DEF Surjection, Points
<1> HIDE DEF counts, node
<1>4. IsFiniteSet(Points) /\ Cardinality(Points) <= Cardinality(counts)
  BY <1>2, <1>3, FS_Surjection
<1>5. Cardinality(Points) \in Nat /\ Cardinality(counts) \in Nat /\ Cardinality(Points) # 0
  BY <1>2, <1>4, FS_CardinalityType, FS_EmptySet
<1> QED BY <1>1, <1>4, <1>5

\* What the solver is told about a PyTorchJob is no faster than the workload.
LEMMA PointsAreNoFaster ==
    ASSUME EntriesInv, HistoryInv, Points # {}, backend = "pytorch",
           \A i \in DOMAIN cached : cached[i].work = Work
    PROVE  /\ WorkAtSmallest = Work
           /\ \A p \in Points : /\ p.nodes \in DOMAIN curve.seconds
                                /\ p.rate * curve.seconds[p.nodes] <= Work
<1>1. /\ Work \in Nat /\ Work > 0
      /\ \A n \in DOMAIN curve.seconds : curve.seconds[n] \in Nat \ {0}
  BY CurveAssumption DEF EntriesInv, TypeInv, Positive
<1>2. \A i \in DOMAIN cached :
        /\ cached[i].nodes \in DOMAIN curve.seconds /\ cached[i].rate \in Nat
        /\ cached[i].rate * curve.seconds[cached[i].nodes] <= Work
  BY DEF HistoryInv, FitEntry, Entry, Positive
<1>3. WorkAtSmallest = Work
  <2>1. Smallest(Points) \in Points
    BY PointsAreMeasured, SmallestIsLeast DEF Measured
  <2>2. PICK n \in {cached[i].nodes : i \in DOMAIN cached} :
          Smallest(Points).nodes = n
    <3>1. \A p \in Points : p.nodes \in {cached[i].nodes : i \in DOMAIN cached}
      BY DEF Points
    <3> QED BY <2>1, <3>1
  <2>3. /\ Average(n, "work") \in Nat /\ Work <= Average(n, "work")
        /\ Average(n, "work") <= Work
    BY <1>1, AverageIsBetween
  <2> QED BY <1>1, <2>2, <2>3 DEF WorkAtSmallest
<1>4. ASSUME NEW p \in Points
      PROVE  /\ p.nodes \in DOMAIN curve.seconds
             /\ p.rate * curve.seconds[p.nodes] <= Work
  <2>1. PICK n \in {cached[i].nodes : i \in DOMAIN cached} :
          p = [nodes |-> n, rate |-> Average(n, "rate")]
    BY DEF Points
  <2> DEFINE time == curve.seconds[n]
             most == Work \div time
  <2>2. n \in DOMAIN curve.seconds /\ time \in Nat \ {0}
    BY <1>1, <1>2
  <2>3. most \in Nat /\ most * time <= Work
    <3>1. \A a \in Nat, b \in Nat \ {0} : (a \div b) \in Nat /\ (a \div b) * b <= a
      BY SMTT(30)
    <3> HIDE DEF time
    <3> QED BY <1>1, <2>2, <3>1
  <2>4. \A i \in DOMAIN cached : cached[i].nodes = n => cached[i].rate <= most
    <3> SUFFICES ASSUME NEW i \in DOMAIN cached, cached[i].nodes = n
                 PROVE  cached[i].rate <= most
      OBVIOUS
    <3>1. cached[i].rate \in Nat /\ cached[i].rate * time <= Work
      BY <1>2
    <3>2. \A a, r \in Nat, b \in Nat \ {0} : r * b <= a => r <= a \div b
      BY SMTT(30)
    <3> HIDE DEF time
    <3> QED BY <1>1, <2>2, <3>1, <3>2
  <2>5. Average(n, "rate") \in Nat /\ Average(n, "rate") <= most
    <3> HIDE DEF most
    <3>1. \A i \in DOMAIN cached : cached[i].nodes = n => 0 <= cached[i].rate
      BY <1>2
    <3> QED BY <2>3, <2>4, <3>1, AverageIsBetween
  <2>6. time * Average(n, "rate") <= time * most
    <3> HIDE DEF time, most
    <3> QED BY <2>2, <2>3, <2>5, ProductGrows
  <2>7. \A a, b \in Nat : a * b = b * a /\ a * b \in Nat
    BY NatProduct, SMT
  <2>8. Average(n, "rate") * time <= Work
    <3> HIDE DEF time, most
    <3> QED BY <1>1, <2>2, <2>3, <2>5, <2>6, <2>7
  <2> QED BY <2>1, <2>2, <2>8
<1> QED BY <1>3, <1>4

(***************************************************************************)
(* With one or two node counts in the history the solver never promises a  *)
(* PyTorchJob a run, on at most as many nodes, that is faster than the     *)
(* workload can be: for every workload that follows Amdahl's law or scales *)
(* worse, every mixture of entries retention and lost calls have left, and *)
(* however their averages were rounded.                                    *)
(***************************************************************************)
THEOREM NeverTooOptimistic ==
    (\A c \in Curves : DiminishingReturns(c)) => (Spec => NeverOptimistic)
<1> SUFFICES ASSUME \A c \in Curves : DiminishingReturns(c)
             PROVE  Spec => NeverOptimistic
  OBVIOUS
<1> DEFINE Step ==
      (/\ stage = "solve" /\ stage' = "train"
       /\ ~NeedsCalibration(goal, Points, Price)
       /\ backend = "pytorch" /\ Cardinality(NodesSeen) <= 2
       /\ \A i \in DOMAIN cached : cached[i].work = Work)
        => \A n \in DOMAIN curve.seconds :
             (\E k \in NodesSeen : n <= k) =>
               curve.seconds[n] * model'.rate * model'.under * n <= Time(n, model')
<1>1. Init => EntriesInv /\ ReaderInv /\ ShapeInv
  BY EverythingStarts, ShapeStarts
<1>2. EntriesInv /\ ReaderInv /\ ShapeInv /\ [Next]_vars
        => (EntriesInv /\ ReaderInv /\ ShapeInv)'
  BY AllStays
<1>3. EntriesInv /\ ReaderInv /\ ShapeInv /\ [Next]_vars => [Step]_vars
  <2> SUFFICES ASSUME EntriesInv, ReaderInv, ShapeInv, Next,
                      stage = "solve", stage' = "train",
                      ~NeedsCalibration(goal, Points, Price),
                      backend = "pytorch", Cardinality(NodesSeen) <= 2,
                      \A i \in DOMAIN cached : cached[i].work = Work,
                      NEW n \in DOMAIN curve.seconds, NEW k \in NodesSeen, n <= k
               PROVE  curve.seconds[n] * model'.rate * model'.under * n
                        <= Time(n, model')
    OBVIOUS
  <2> DEFINE spent == NodeSeconds(curve)
  <2>1. HistoryInv /\ curve \in Curves
    BY DEF ShapeInv, EntriesInv, TypeInv
  <2>2. Solve
    BY DEF Next, CollectStep, Submit, Calibrate, Train, TrainFails, Measure,
           MeasureNothing, OpenFile, ReadFile, CloseFile, ReadLog, Record, Prune,
           Write, Finish, Crash, Sync, runVars
  <2>3. Points # {} /\ model' \in Models(Points, WorkAtSmallest, Provisioning)
    BY <2>2 DEF Solve, NeedsCalibration
  <2>4. /\ Measured(Points) /\ IsFiniteSet(Points) /\ Cardinality(Points) \in {1, 2}
        /\ WorkAtSmallest = Work
    BY <2>1, <2>3, PointsAreMeasured, PointsAreCounted, PointsAreNoFaster
  <2>5. /\ DOMAIN curve.seconds \in SUBSET Positive /\ Work \in Nat
        /\ \A i \in DOMAIN curve.seconds : curve.seconds[i] \in Nat
        /\ Provisioning \in Nat
    BY <2>1, CurveAssumption, LoopAssumption DEF Positive
  <2>6. /\ spent \in [DOMAIN curve.seconds -> Nat]
        /\ \A i \in DOMAIN curve.seconds : spent[i] = i * curve.seconds[i]
    <3>1. \A i \in DOMAIN curve.seconds : i * curve.seconds[i] \in Nat
      BY <2>5, NatProduct DEF Positive
    <3> QED BY <3>1 DEF NodeSeconds
  <2>7. /\ \A i, j \in DOMAIN curve.seconds : i <= j => spent[i] <= spent[j]
        /\ \A l, i, j \in DOMAIN curve.seconds : l <= i /\ i <= j =>
             spent[i] * ((j - i) + (i - l)) <= spent[l] * (j - i) + spent[j] * (i - l)
    <3>1. DOMAIN spent = DOMAIN curve.seconds
      BY DEF NodeSeconds
    <3> QED BY <2>1, <3>1 DEF DiminishingReturns
  <2> HIDE DEF spent
  <2>8. \A p \in Points : /\ p.nodes \in DOMAIN curve.seconds
                          /\ p.rate * spent[p.nodes] <= Work * p.nodes
    <3> SUFFICES ASSUME NEW p \in Points
                 PROVE  /\ p.nodes \in DOMAIN curve.seconds
                        /\ p.rate * spent[p.nodes] <= Work * p.nodes
      OBVIOUS
    <3>1. /\ p.nodes \in DOMAIN curve.seconds
          /\ p.rate * curve.seconds[p.nodes] <= Work
      BY <2>1, <2>3, PointsAreNoFaster
    <3>2. p.rate \in Nat /\ p.nodes \in Nat /\ curve.seconds[p.nodes] \in Nat
      BY <2>4, <2>5, <3>1 DEF Measured, Point, Positive
    <3>3. p.rate * curve.seconds[p.nodes] \in Nat
      BY <3>2, NatProduct
    <3>4. p.nodes * (p.rate * curve.seconds[p.nodes]) <= p.nodes * Work
      BY <2>5, <3>1, <3>2, <3>3, ProductGrows
    <3>5. \A a, b, c \in Nat : a * (b * c) = b * (a * c) /\ a * b = b * a
      BY SMT
    <3> QED BY <2>5, <2>6, <3>1, <3>2, <3>4, <3>5
  <2>9. PICK top \in Points : n <= top.nodes
    BY DEF NodesSeen
  <2>10. spent[n] * model'.rate * model'.under <= Time(n, model')
    BY <2>3, <2>4, <2>5, <2>6, <2>7, <2>8, <2>9, PredictsNoLess
  <2>11. /\ curve.seconds[n] \in Nat /\ n \in Nat
         /\ model'.rate \in Nat /\ model'.under \in Nat
    BY <2>2, <2>1, <2>5, SolvesWithModel DEF Model, Positive
  <2>12. \A a, b, c, d \in Nat : a * b * c * d = d * a * b * c
    BY SMT
  <2> QED BY <2>6, <2>10, <2>11, <2>12
<1> QED BY <1>1, <1>2, <1>3, PTL DEF Spec, NeverOptimistic
================================================================================
