----------------------------- MODULE LearningProps -----------------------------
(***************************************************************************)
(* What makes Learning correct.                                            *)
(***************************************************************************)
EXTENDS Learning

Entry ==
    [nodes : Positive, machine : MachineTypes, rate : Positive, work : Nat]

TypeOK ==
    /\ ReaderTypeOK
    /\ entries \in Seq(Entry) /\ cached \in Seq(Entry) /\ gone \in Nat
    /\ curve \in Curves /\ backend \in {"pytorch", "spark"}
    /\ stage \in Stages
    /\ request \in Requests /\ goal \in Goals \cup {NoGoal}
    /\ model \in Model
    /\ resolved \in Nat /\ started \in BOOLEAN /\ seconds \in Nat
    /\ report \in [total : Nat, loop : Nat] /\ results \in [total : Nat, loop : Nat]

(***************************************************************************)
(* What an entry says of the run that writes it.  It has the number of     *)
(* pods that trained and the machine of the pool they trained on, and,     *)
(* unless 0 seconds were measured (see EntriesHaveWork), the work of the   *)
(* run: all samples if the script reports their number, else what its loop *)
(* does in the time that was measured.  Of a PyTorchJob it never says that *)
(* it was faster than it was; and the work is exactly what the throughput  *)
(* makes of its own training time, as long as nothing is lost.             *)
(***************************************************************************)
DescribesRun(e) ==
    LET n == Trainers(request, resolved) IN
    /\ e.nodes = n
    /\ e.machine = PoolMachine(request)
    /\ seconds > 0 => e.work = IF request.total THEN Work ELSE curve.loop[n] * seconds
    /\ backend = "pytorch" => e.rate * curve.seconds[n] <= e.work
    /\ backend = "pytorch" /\ lost = 0 => e.work = e.rate * curve.seconds[n]

(***************************************************************************)
(* What is added to the history describes the run it is added for.  Three  *)
(* pieces of code compute an entry's node count and machine from the spec  *)
(* (nodeCountForHistory and GenerateManifest, effectiveMachineType and     *)
(* nodePoolConfig), its time is measured and its metrics are read in       *)
(* handlers that may be cut off and run again; an entry that is off        *)
(* misleads all later runs.                                                *)
(***************************************************************************)
EntriesAreTrue ==
    [][Len(entries') > Len(entries) => DescribesRun(entries'[Len(entries')])]_vars

(***************************************************************************)
(* A reader pod nobody reads through has been left by a lost call, a lost  *)
(* reply or a crash: a reading that ends in any other way, also one that   *)
(* fails or times out, leaves none.                                        *)
(***************************************************************************)
StrayPodsAreLost == Cardinality(pods \ {reader.pod}) <= lost

NodesSeen == {p.nodes : p \in Points}

\* What a run on n nodes costs in seconds of a node.
NodeSeconds(c) == [n \in DOMAIN c.seconds |-> n * c.seconds[n]]

(***************************************************************************)
(* More nodes never do the same work in fewer node-seconds, and each adds  *)
(* no less to them than the one before: Amdahl's law, or worse.            *)
(***************************************************************************)
DiminishingReturns(c) ==
    LET spent == NodeSeconds(c) IN
    /\ \A m, n \in DOMAIN spent : m <= n => spent[m] <= spent[n]
    /\ \A l, m, n \in DOMAIN spent : l <= m /\ m <= n =>
         spent[m] * ((n - m) + (m - l)) <= spent[l] * (n - m) + spent[n] * (m - l)

(***************************************************************************)
(* The solver is never too optimistic about what it has seen of a          *)
(* PyTorchJob: with one or two node counts in the history, no run on at    *)
(* most as many nodes takes longer than predicted, whichever entries       *)
(* retention has left.                                                     *)
(***************************************************************************)
NeverOptimistic ==
    [][(/\ stage = "solve" /\ stage' = "train"
        /\ ~NeedsCalibration(goal, Points, Price)
        /\ backend = "pytorch" /\ Cardinality(NodesSeen) <= 2
        /\ \A i \in DOMAIN cached : cached[i].work = Work)
         => \A n \in DOMAIN curve.seconds :
              (\E k \in NodesSeen : n <= k) =>
                curve.seconds[n] * model'.rate * model'.under * n <= Time(n, model')]_vars

(***************************************************************************)
(* However many entries a list that was behind and failed deletions have   *)
(* left, one pruning with a current list makes room for the next entry.    *)
(***************************************************************************)
RetentionCatchesUp ==
    [][stage = "prune" /\ stage' = "create" /\ cached = entries /\ gone = 0 /\ lost' = lost
         => Len(entries') < Limit]_vars

(***************************************************************************)
(* A run is not held up by its results: Collecting ends although the       *)
(* reader pod may never run, calls fail and the operator dies.             *)
(***************************************************************************)
CollectionEnds == stage \in Collecting ~> stage = "idle"

-----------------------------------------------------------------------------
(***************************************************************************)
(* What the repository says and the code does not.                         *)
(***************************************************************************)
(***************************************************************************)
(* writeHistoryEntry: "W = 0 would corrupt the solver" (history.go:66).    *)
(* Its guard looks at the throughput, which is taken from the training     *)
(* loop when no time was measured.                                         *)
(***************************************************************************)
EntriesHaveWork == \A i \in DOMAIN entries : entries[i].work > 0
================================================================================
