-------------------------------- MODULE History --------------------------------
(***************************************************************************)
(* The DistributedTrainingHistory entries of one config hash               *)
(* (internal/controller/history.go): what is written about a run, and how  *)
(* pruneHistory makes room for it.  Lists come from the informer cache,    *)
(* which may be behind.                                                    *)
(***************************************************************************)
EXTENDS Integers, Sequences

CONSTANT Limit    \* historyRetentionLimit

ASSUME LimitAssumption == Limit \in Nat \ {0}

VARIABLES
    entries,  \* the entries of the hash, the oldest first (creationTimestamp)
    cached,   \* what a List returns
    gone      \* how many of the oldest in cached are deleted already

historyVars == <<entries, cached, gone>>

HistoryInit == entries = <<>> /\ cached = <<>> /\ gone = 0

\* The informer catches up.
SyncCache ==
    /\ cached # entries \/ gone # 0
    /\ cached' = entries /\ gone' = 0
    /\ UNCHANGED entries

\* Mutant of Throughput: the rate of the training loop is preferred.
ThroughputOfLoop(metrics, seconds) ==
    IF metrics.loop > 0 \/ seconds = 0 THEN metrics.loop
    ELSE metrics.total \div seconds

\* extractThroughput: 0 stands for a missing number.  The total over the wall
\* clock is preferred to the rate of the training loop.
Throughput(metrics, seconds) ==
    IF metrics.total > 0 /\ seconds > 0 THEN metrics.total \div seconds
    ELSE metrics.loop

\* Mutant of WorthRecording: the throughput is not looked at.
WorthRecordingAlways(metrics, seconds, nodes) == nodes # 0

\* writeHistoryEntry skips a run without a throughput or a node count.
WorthRecording(metrics, seconds, nodes) ==
    Throughput(metrics, seconds) # 0 /\ nodes # 0

-----------------------------------------------------------------------------
\* Mutant of Excess: one entry makes room for one.
ExcessOfOne == 1

Excess == Len(cached) - Limit + 1

\* Deletes the oldest entries of the list one by one, up to the first error: a
\* failed call (failing), or one that is gone already.
PruneHistory(failing) ==
    /\ IF Len(cached) < Limit \/ gone > 0
       THEN UNCHANGED <<entries, gone>>
       ELSE \E k \in 0 .. Excess :
              /\ k < Excess <=> failing
              /\ entries' = SubSeq(entries, k + 1, Len(entries))
              /\ gone' = gone + k
    /\ UNCHANGED cached

CreateEntry(entry) ==
    /\ entries' = Append(entries, entry)
    /\ UNCHANGED <<cached, gone>>
================================================================================
