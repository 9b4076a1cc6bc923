------------------------------ MODULE TraceStore ------------------------------
(***************************************************************************)
(* The shared state every part of the platform works on: the trace bucket  *)
(* (S3) and the MLflow tracking server, with the calls the library makes   *)
(* on them.  Both services are external: what a call does is modelled from *)
(* how experiment_store uses it.  A call can fail before it is applied, or *)
(* be applied while its answer is lost, so that the caller sees an error.  *)
(***************************************************************************)
EXTENDS Integers, FiniteSets

CONSTANTS
    Runs,         \* MLflow run ids; a run id is also the last segment of its S3 prefix
    Foreign,      \* prefixes two levels deep that no producer wrote (id is not a run id)
    Artifacts,    \* relative paths a producer may upload
    Marker,       \* the retention marker's relative path
    Aliases,      \* first segments of the prefixes
    AliasOf,      \* [Runs \cup Foreign -> Aliases]
    DeleteBatch,  \* keys per DeleteObjects request
    MaxFaults,    \* bound: failing calls and crashes in a behaviour
    MaxClock      \* bound: the last instant of a behaviour

Prefixes == Runs \cup Foreign
Keys     == Artifacts \cup {Marker}
Missing  == -1

ASSUME StoreAssumption ==
    /\ Runs \cap Foreign = {}
    /\ Marker \notin Artifacts
    /\ IsFiniteSet(Artifacts)
    /\ AliasOf \in [Prefixes -> Aliases]
    /\ DeleteBatch \in Nat \ {0}
    /\ MaxFaults \in Nat
    /\ MaxClock \in Nat

VARIABLES
    clock,    \* wall-clock time, in ticks
    objects,  \* [Prefixes -> [Keys -> Missing or LastModified]]
    runs,     \* the tracking server's runs
    faults    \* failing calls and crashes so far

storeVars == <<clock, objects, runs, faults>>

Statuses == {"ABSENT", "RUNNING", "FINISHED", "FAILED"}

RunRecord == [status  : Statuses,   \* "ABSENT": get_run raises RESOURCE_DOES_NOT_EXIST
              deleted : BOOLEAN,    \* lifecycle_stage = "deleted"
              content : BOOLEAN,    \* every tag, param and metric of the caller is logged
              uri     : BOOLEAN]    \* the artifacts_uri tag is set

StoreTypeOK ==
    /\ clock \in 0..MaxClock
    /\ objects \in [Prefixes -> [Keys -> {Missing} \cup (0..MaxClock)]]
    /\ runs \in [Runs -> RunRecord]
    /\ faults \in 0..MaxFaults

\* Foreign data is there from the start; the platform's own prefixes are empty.
StoreInit ==
    /\ clock = 0
    /\ objects = [p \in Prefixes |->
                    [k \in Keys |-> IF p \in Foreign /\ k \in Artifacts THEN 0 ELSE Missing]]
    /\ runs = [r \in Runs |-> [status |-> "ABSENT", deleted |-> FALSE,
                               content |-> FALSE, uri |-> FALSE]]
    /\ faults = 0

-----------------------------------------------------------------------------
(* Remote calls. *)

Outcomes == {"ok", "lost", "failed"}

Applied(o) == o # "failed"   \* the service did what was asked
Raised(o)  == o # "ok"       \* the caller sees an exception

\* Every failing call draws on the fault budget.
Spend(o) ==
    IF Raised(o) THEN faults < MaxFaults /\ faults' = faults + 1
                 ELSE UNCHANGED faults

\* A crash of a process draws on the same budget.
SpendCrash == faults < MaxFaults /\ faults' = faults + 1

-----------------------------------------------------------------------------
(* The tracking server. *)

\* The server refuses tags, metrics and status updates of a run that is not active.
Writable(r) == runs[r].status # "ABSENT" /\ ~runs[r].deleted

\* What store.resolve and store.search return by default.
Usable(r) == runs[r].status = "FINISHED" /\ ~runs[r].deleted

\* A run whose blobs are garbage: gone, soft-deleted, or terminal and not FINISHED.
Dead(r) == \/ runs[r].status \in {"ABSENT", "FAILED"}
           \/ runs[r].deleted

\* MlflowIO.delete_run on the server; on a run already deleted or gone it is a no-op.
SoftDeleteRun(r) ==
    runs' = IF runs[r].status = "ABSENT" THEN runs
                                         ELSE [runs EXCEPT ![r].deleted = TRUE]

-----------------------------------------------------------------------------
(* The bucket. *)

Present(p) == {k \in Keys : objects[p][k] # Missing}

\* Mutant: the object is stamped after the call instead of during it.
PutObjectLate(p, k) == objects' = [objects EXCEPT ![p][k] = clock + 1]

PutObject(p, k) == objects' = [objects EXCEPT ![p][k] = clock]

\* One DeleteObjects request carries up to DeleteBatch of the keys that were listed.
IsBatch(batch, keys) ==
    /\ batch \subseteq keys
    /\ Cardinality(batch) =
         IF Cardinality(keys) < DeleteBatch THEN Cardinality(keys) ELSE DeleteBatch

\* The keys of a batch that S3 does delete; a key that is already gone counts as deleted.
DeleteObjects(p, gone) ==
    objects' = [objects EXCEPT ![p] =
                  [k \in Keys |-> IF k \in gone THEN Missing ELSE objects[p][k]]]

\* One round of delete_prefix's loop.  Of `batch` the keys in `gone` are deleted.  A key that
\* is not (a per-key error, or a request that failed) makes the call raise; a request applied
\* in full raises too when its answer is lost.
DeleteRound(p, batch, gone, o) ==
    /\ gone \subseteq batch
    /\ o = "ok"     => gone = batch
    /\ o = "failed" => gone # batch
    /\ o = "lost"   => gone = batch
    /\ DeleteObjects(p, gone)
    /\ Spend(o)

-----------------------------------------------------------------------------
(* Time. *)

Tick ==
    /\ clock < MaxClock
    /\ clock' = clock + 1
    /\ UNCHANGED <<objects, runs, faults>>
=============================================================================
