------------------------------- MODULE Producer -------------------------------
(***************************************************************************)
(* ExperimentStore.log: one producer process per run.  create_run, then    *)
(* one upload per artifact, then finalize_run (content, artifacts_uri,     *)
(* FINISHED).  An exception after create_run goes to the failure path:     *)
(* delete_prefix, best effort, then fail_run, whose errors are swallowed.  *)
(* The process may crash between any two calls.                            *)
(***************************************************************************)
EXTENDS TraceStore

VARIABLE log   \* [Runs -> the state of the log() call that made the run]

LogPCs == {"idle", "planning", "uploading", "content", "uri", "finish",
           "cleanlist", "clean", "fail", "returned", "raised", "crashed"}

\* plan: the artifacts to upload; left: those not uploaded yet;
\* keys: what delete_prefix listed and has not deleted yet.
LogRecord == [pc : LogPCs, plan : SUBSET Artifacts, left : SUBSET Artifacts, keys : SUBSET Keys]

LogTypeOK == log \in [Runs -> LogRecord]

LogInit == log = [r \in Runs |-> [pc |-> "idle", plan |-> {}, left |-> {}, keys |-> {}]]

GoTo(r, pc) == log' = [log EXCEPT ![r].pc = pc]

-----------------------------------------------------------------------------
\* Identity or content is invalid: log raises before any run exists.
Reject(r) ==
    /\ log[r].pc = "idle"
    /\ GoTo(r, "raised")
    /\ UNCHANGED storeVars

\* The run starts RUNNING.  create_run is outside the try block: an error, even one whose
\* request was applied, leaves no trace in the caller, who does not know the run id.
CreateRun(r, o) ==
    /\ log[r].pc = "idle"
    /\ Spend(o)
    /\ runs' = IF Applied(o) THEN [runs EXCEPT ![r].status = "RUNNING"] ELSE runs
    /\ GoTo(r, IF Raised(o) THEN "raised" ELSE "planning")
    /\ UNCHANGED <<clock, objects>>

\* upload_artifacts walks the caller's paths before it uploads any of them.
PlanUploads(r, plan) ==
    /\ log[r].pc = "planning"
    /\ log' = [log EXCEPT ![r] = [pc |-> "uploading", plan |-> plan, left |-> plan, keys |-> {}]]
    /\ UNCHANGED storeVars

\* A missing path, or two files that map to one key.
PlanFails(r) ==
    /\ log[r].pc = "planning"
    /\ GoTo(r, "cleanlist")
    /\ UNCHANGED storeVars

\* Mutant: an upload error is ignored and the next artifact is uploaded.
UploadUnverified(r, a, o) ==
    /\ log[r].pc = "uploading"
    /\ a \in log[r].left
    /\ Spend(o)
    /\ IF Applied(o) THEN PutObject(r, a) ELSE UNCHANGED objects
    /\ log' = [log EXCEPT ![r].left = @ \ {a}]
    /\ UNCHANGED <<clock, runs>>

\* upload_verified: an error may leave the object in place (its confirmation failed).
Upload(r, a, o) ==
    /\ log[r].pc = "uploading"
    /\ a \in log[r].left
    /\ Spend(o)
    /\ IF Applied(o) THEN PutObject(r, a) ELSE UNCHANGED objects
    /\ log' = IF Raised(o) THEN [log EXCEPT ![r].pc = "cleanlist"]
                           ELSE [log EXCEPT ![r].left = @ \ {a}]
    /\ UNCHANGED <<clock, runs>>

UploadsDone(r) ==
    /\ log[r].pc = "uploading"
    /\ log[r].left = {}
    /\ GoTo(r, "content")
    /\ UNCHANGED storeVars

-----------------------------------------------------------------------------
(* finalize_run *)

\* Mutant: an error of one of finalize_run's calls does not stop the next ones.
FinalizeCallIgnored(r, o, updated, next) ==
    /\ Spend(o)
    /\ runs' = IF Writable(r) /\ Applied(o) THEN [runs EXCEPT ![r] = updated] ELSE runs
    /\ GoTo(r, next)
    /\ UNCHANGED <<clock, objects>>

\* A write of finalize_run: refused by the server when the run is not active.
FinalizeCall(r, o, updated, next) ==
    /\ IF Writable(r)
         THEN /\ Spend(o)
              /\ runs' = IF Applied(o) THEN [runs EXCEPT ![r] = updated] ELSE runs
              /\ GoTo(r, IF Raised(o) THEN "cleanlist" ELSE next)
         ELSE /\ o = "failed"
              /\ GoTo(r, "cleanlist")
              /\ UNCHANGED <<faults, runs>>
    /\ UNCHANGED <<clock, objects>>

\* Tags, params and metrics, a call each; an error part-way leaves only some of them.
LogContent(r, o) ==
    /\ log[r].pc = "content"
    /\ FinalizeCall(r, o, [runs[r] EXCEPT !.content = TRUE], "uri")

\* The caller passed no tags, params or metrics: the loops make no call.
NoContent(r) ==
    /\ log[r].pc = "content"
    /\ runs' = [runs EXCEPT ![r].content = TRUE]
    /\ GoTo(r, "uri")
    /\ UNCHANGED <<clock, objects, faults>>

SetUri(r, o) ==
    /\ log[r].pc = "uri"
    /\ FinalizeCall(r, o, [runs[r] EXCEPT !.uri = TRUE], "finish")

SetFinished(r, o) ==
    /\ log[r].pc = "finish"
    /\ FinalizeCall(r, o, [runs[r] EXCEPT !.status = "FINISHED"], "returned")

-----------------------------------------------------------------------------
(* The failure path *)

\* delete_prefix's listing; its failure is logged and the run is still marked FAILED.
CleanList(r, o) ==
    /\ log[r].pc = "cleanlist"
    /\ o \in {"ok", "failed"}
    /\ Spend(o)
    /\ log' = IF Raised(o) THEN [log EXCEPT ![r].pc = "fail"]
                           ELSE [log EXCEPT ![r].pc = "clean", ![r].keys = Present(r)]
    /\ UNCHANGED <<clock, objects, runs>>

CleanBatch(r, batch, gone, o) ==
    /\ log[r].pc = "clean"
    /\ log[r].keys # {}
    /\ IsBatch(batch, log[r].keys)
    /\ DeleteRound(r, batch, gone, o)
    /\ log' = IF Raised(o) THEN [log EXCEPT ![r].pc = "fail", ![r].keys = {}]
                           ELSE [log EXCEPT ![r].keys = @ \ batch]
    /\ UNCHANGED <<clock, runs>>

\* Mutant: the failure path forgets fail_run when the clean-up succeeds.
CleanDoneUnmarked(r) ==
    /\ log[r].pc = "clean"
    /\ log[r].keys = {}
    /\ GoTo(r, "raised")
    /\ UNCHANGED storeVars

CleanDone(r) ==
    /\ log[r].pc = "clean"
    /\ log[r].keys = {}
    /\ GoTo(r, "fail")
    /\ UNCHANGED storeVars

\* fail_run swallows every error, the server's refusal included; log re-raises.
FailRun(r, o) ==
    /\ log[r].pc = "fail"
    /\ IF Writable(r)
         THEN /\ Spend(o)
              /\ runs' = IF Applied(o) THEN [runs EXCEPT ![r].status = "FAILED"] ELSE runs
         ELSE /\ o = "failed"
              /\ UNCHANGED <<faults, runs>>
    /\ GoTo(r, "raised")
    /\ UNCHANGED <<clock, objects>>

Crash(r) ==
    /\ log[r].pc \notin {"idle", "returned", "raised", "crashed"}
    /\ SpendCrash
    /\ log' = [log EXCEPT ![r].pc = "crashed", ![r].keys = {}]
    /\ UNCHANGED <<clock, objects, runs>>

LogCall(r, o) ==
    \/ CreateRun(r, o)
    \/ \E a \in Artifacts : Upload(r, a, o)
    \/ LogContent(r, o)
    \/ SetUri(r, o)
    \/ SetFinished(r, o)
    \/ CleanList(r, o)
    \/ \E batch \in SUBSET Keys : \E gone \in SUBSET batch : CleanBatch(r, batch, gone, o)
    \/ FailRun(r, o)

LogStep(r) ==
    \/ Reject(r)
    \/ \E plan \in SUBSET Artifacts : PlanUploads(r, plan)
    \/ PlanFails(r)
    \/ UploadsDone(r)
    \/ NoContent(r)
    \/ CleanDone(r)
    \/ Crash(r)
    \/ \E o \in Outcomes : LogCall(r, o)
=============================================================================
