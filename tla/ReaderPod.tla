------------------------------- MODULE ReaderPod -------------------------------
(***************************************************************************)
(* FromPVCFile (internal/backend/collect/pvc.go): reads a file of a volume *)
(* through a pod that is created for it, polled until it runs, asked for   *)
(* the file and deleted.  The pod has no owner and sleeps for ever: one    *)
(* that is not deleted here stays.                                         *)
(***************************************************************************)
EXTENDS Naturals, FiniteSets

CONSTANTS
    PodNames,  \* pvc-reader-<n>, n being the clock modulo a million
    NoPod,     \* the reader has no pod
    MaxPolls,  \* polls every 3 s that fit into 2 minutes
    MaxLost    \* bound: how often something is lost, in this module and above it

ASSUME ReaderAssumption ==
    /\ IsFiniteSet(PodNames) /\ NoPod \notin PodNames
    /\ MaxPolls \in Nat /\ MaxLost \in Nat

VARIABLES
    pods,    \* the reader pods in the namespace
    reader,  \* where FromPVCFile is, its pod, its polls, whether it has the file
    lost     \* how often a call, a reply or the operator process was lost

readerVars == <<pods, reader, lost>>

Reader ==
    [at : {"idle", "create", "poll", "exec", "delete", "done"},
     pod : PodNames \cup {NoPod}, polls : Nat, ok : BOOLEAN]

NoReader == [at |-> "idle", pod |-> NoPod, polls |-> 0, ok |-> FALSE]

ReaderTypeOK == pods \subseteq PodNames /\ reader \in Reader /\ lost \in Nat

ReaderInit == pods = {} /\ reader = NoReader /\ lost = 0

Lose == lost < MaxLost /\ lost' = lost + 1

StartReading == reader' = [NoReader EXCEPT !.at = "create"]

-----------------------------------------------------------------------------
\* A name that is taken is an error like any other.
CreatePod ==
    /\ reader.at = "create"
    /\ \E name \in PodNames :
         IF name \in pods
         THEN reader' = [reader EXCEPT !.at = "done"] /\ UNCHANGED pods
         ELSE /\ reader' = [reader EXCEPT !.at = "poll", !.pod = name]
              /\ pods' = pods \cup {name}
    /\ UNCHANGED lost

\* The error of the call is returned before the deletion is deferred, also when
\* only the reply was lost.
CreateFails ==
    /\ reader.at = "create"
    /\ Lose
    /\ \E name \in PodNames : pods' \in {pods, pods \cup {name}}
    /\ reader' = [reader EXCEPT !.at = "done"]

\* Not there yet, or not running yet.
PollAgain ==
    /\ reader.at = "poll"
    /\ reader.polls < MaxPolls
    /\ reader' = [reader EXCEPT !.polls = @ + 1]
    /\ UNCHANGED <<pods, lost>>

PodRuns ==
    /\ reader.at = "poll"
    /\ reader' = [reader EXCEPT !.at = "exec"]
    /\ UNCHANGED <<pods, lost>>

\* Mutant of PollEnds: the pod is left when it never runs.
PollEndsForGood ==
    /\ reader.at = "poll"
    /\ reader' = [reader EXCEPT !.at = "done"]
    /\ UNCHANGED <<pods, lost>>

\* An error of Get, or the two minutes are over.
PollEnds ==
    /\ reader.at = "poll"
    /\ reader' = [reader EXCEPT !.at = "delete"]
    /\ UNCHANGED <<pods, lost>>

\* cat: the file, or an error.
Exec ==
    /\ reader.at = "exec"
    /\ \E ok \in BOOLEAN : reader' = [reader EXCEPT !.at = "delete", !.ok = ok]
    /\ UNCHANGED <<pods, lost>>

\* The deferred deletion; its error is dropped.
DeletePod ==
    /\ reader.at = "delete"
    /\ \/ pods' = pods \ {reader.pod} /\ UNCHANGED lost
       \/ UNCHANGED pods /\ Lose
    /\ reader' = [reader EXCEPT !.at = "done", !.pod = NoPod]

ReaderStep ==
    CreatePod \/ CreateFails \/ PollAgain \/ PodRuns \/ PollEnds \/ Exec \/ DeletePod
================================================================================
