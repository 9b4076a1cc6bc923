------------------------------- MODULE Operator -------------------------------
(***************************************************************************)
(* The people and jobs that manage runs after they are logged: store.hold  *)
(* and store.purge, both called with a RunRef resolved earlier, the        *)
(* soft-delete of a run in the MLflow UI, and MLflow's own gc, which       *)
(* removes soft-deleted runs for good.                                     *)
(***************************************************************************)
EXTENDS TraceStore

CONSTANT Endpoints   \* "up", and "absent" when delete_run may meet a stopped App

ASSUME OperatorAssumption == Endpoints \subseteq {"up", "absent"}

VARIABLE ops   \* [Runs -> the state of the operator's work on the run]

OpPCs == {"idle", "resolved", "listing", "deleting", "retiring", "purged", "kept", "raised"}

\* uri: the artifacts_uri of the RunRef, as it was when the run was resolved.
OpRecord == [pc : OpPCs, uri : BOOLEAN, retire : BOOLEAN, keys : SUBSET Keys]

OpTypeOK == ops \in [Runs -> OpRecord]

OpInit == ops = [r \in Runs |-> [pc |-> "idle", uri |-> FALSE, retire |-> FALSE, keys |-> {}]]

\* The call is over, and forgets its arguments but the RunRef.
OpStops(r, pc) == ops' = [ops EXCEPT ![r].pc = pc, ![r].retire = FALSE, ![r].keys = {}]

\* A purge of r has started: its blobs are being deleted, or were, on purpose.
PurgeBegun(r) == ops[r].pc \in {"listing", "deleting", "retiring", "purged", "kept", "raised"}

-----------------------------------------------------------------------------
\* resolve(by="id", include_unfinished=True) or search: the RunRef is a snapshot.
Resolve(r) ==
    /\ ops[r].pc \in {"idle", "resolved"}
    /\ runs[r].status # "ABSENT"
    /\ ops' = [ops EXCEPT ![r].pc = "resolved", ![r].uri = runs[r].uri]
    /\ UNCHANGED storeVars

\* hold: refused for a RunRef without artifacts_uri.  The write is unconditional: it looks
\* neither at the run nor at a purge or a sweep at work on the prefix.
Hold(r, o) ==
    /\ ops[r].pc # "idle"
    /\ ops[r].uri
    /\ Spend(o)
    /\ IF Applied(o) THEN PutObject(r, Marker) ELSE UNCHANGED objects
    /\ UNCHANGED <<clock, runs, ops>>

\* purge, also called again after a purge that raised or left the run in MLflow: without an
\* artifacts_uri no object is deleted.
Purge(r, retire) ==
    /\ ops[r].pc \in {"resolved", "raised", "purged", "kept"}
    /\ ops[r].uri \/ retire
    /\ ops' = [ops EXCEPT ![r].pc = IF ops[r].uri THEN "listing" ELSE "retiring",
                          ![r].retire = retire]
    /\ UNCHANGED storeVars

PurgeList(r, o) ==
    /\ ops[r].pc = "listing"
    /\ o \in {"ok", "failed"}
    /\ Spend(o)
    /\ IF Raised(o) THEN OpStops(r, "raised")
                 ELSE ops' = [ops EXCEPT ![r].pc = "deleting", ![r].keys = Present(r)]
    /\ UNCHANGED <<clock, objects, runs>>

\* Mutant: purge does not look at the per-key errors DeleteObjects reports.
PurgeBatchUnchecked(r, batch, gone, o) ==
    /\ ops[r].pc = "deleting"
    /\ ops[r].keys # {}
    /\ IsBatch(batch, ops[r].keys)
    /\ DeleteRound(r, batch, gone, o)
    /\ ops' = [ops EXCEPT ![r].keys = @ \ batch]
    /\ UNCHANGED <<clock, runs>>

PurgeBatch(r, batch, gone, o) ==
    /\ ops[r].pc = "deleting"
    /\ ops[r].keys # {}
    /\ IsBatch(batch, ops[r].keys)
    /\ DeleteRound(r, batch, gone, o)
    /\ IF Raised(o) THEN OpStops(r, "raised")
                 ELSE ops' = [ops EXCEPT ![r].keys = @ \ batch]
    /\ UNCHANGED <<clock, runs>>

BlobsPurged(r) ==
    /\ ops[r].pc = "deleting"
    /\ ops[r].keys = {}
    /\ IF ops[r].retire THEN ops' = [ops EXCEPT ![r].pc = "retiring"]
                        ELSE OpStops(r, "kept")
    /\ UNCHANGED storeVars

\* delete_run, re-raising errors.
Retire(r, o) ==
    /\ ops[r].pc = "retiring"
    /\ Spend(o)
    /\ IF Applied(o) THEN SoftDeleteRun(r) ELSE UNCHANGED runs
    /\ OpStops(r, IF Raised(o) THEN "raised" ELSE "purged")
    /\ UNCHANGED <<clock, objects>>

\* The endpoint is absent and answers a generic NOT_FOUND, which delete_run takes for
\* "already gone".
RetireAbsent(r) ==
    /\ ops[r].pc = "retiring"
    /\ "absent" \in Endpoints
    /\ Spend("failed")
    /\ OpStops(r, "purged")
    /\ UNCHANGED <<clock, objects, runs>>

OpCrash(r) ==
    /\ ops[r].pc \in {"listing", "deleting", "retiring"}
    /\ SpendCrash
    /\ OpStops(r, "raised")
    /\ UNCHANGED <<clock, objects, runs>>

-----------------------------------------------------------------------------
(* MLflow's own operations *)

UiDelete(r) ==
    /\ Writable(r)
    /\ SoftDeleteRun(r)
    /\ UNCHANGED <<clock, objects, faults, ops>>

\* mlflow gc
HardDelete(r) ==
    /\ runs[r].deleted
    /\ runs[r].status # "ABSENT"
    /\ runs' = [runs EXCEPT ![r].status = "ABSENT"]
    /\ UNCHANGED <<clock, objects, faults, ops>>

OpCall(r, o) ==
    \/ Hold(r, o)
    \/ PurgeList(r, o)
    \/ \E batch \in SUBSET Keys : \E gone \in SUBSET batch : PurgeBatch(r, batch, gone, o)
    \/ Retire(r, o)

OpStep(r) ==
    \/ Resolve(r)
    \/ \E retire \in BOOLEAN : Purge(r, retire)
    \/ BlobsPurged(r)
    \/ RetireAbsent(r)
    \/ OpCrash(r)
    \/ UiDelete(r)
    \/ HardDelete(r)
    \/ \E o \in Outcomes : OpCall(r, o)
=============================================================================
