------------------------ MODULE PlatformSafety_proofs ------------------------
(* The inductive invariant of Platform and the safety properties it implies. *)
EXTENDS Platform_proofs

-----------------------------------------------------------------------------
(* What a put and a deletion do to the bucket. *)

\* A put adds one key to one prefix, with the time of now.
LEMMA PutPresent ==
    ASSUME StoreTypeOK, NEW p \in Prefixes, NEW k \in Keys, PutObject(p, k)
    PROVE  /\ Present(p)' = Present(p) \cup {k}
           /\ \A q \in Prefixes : q # p => Present(q)' = Present(q) /\ objects'[q] = objects[q]
           /\ objects'[p][k] = clock
           /\ \A j \in Keys : j # k => objects'[p][j] = objects[p][j]
<1>1. clock # Missing
  BY StoreAssumption DEF StoreTypeOK, Missing, StoreAssumption
<1>2. /\ objects'[p] = [objects[p] EXCEPT ![k] = clock]
      /\ \A q \in Prefixes : q # p => objects'[q] = objects[q]
  BY DEF StoreTypeOK, PutObject
<1>3. /\ objects'[p][k] = clock
      /\ \A j \in Keys : j # k => objects'[p][j] = objects[p][j]
  BY <1>2 DEF StoreTypeOK
<1> QED
  BY <1>1, <1>2, <1>3 DEF Present

\* A deletion takes keys from one prefix and touches nothing else.
LEMMA DeletePresent ==
    ASSUME StoreTypeOK, NEW p \in Prefixes, NEW gone, DeleteObjects(p, gone)
    PROVE  /\ Present(p)' = Present(p) \ gone
           /\ \A q \in Prefixes : q # p => Present(q)' = Present(q) /\ objects'[q] = objects[q]
           /\ \A q \in Prefixes : \A k \in Present(q)' : objects'[q][k] = objects[q][k]
<1>1. /\ objects'[p] = [k \in Keys |-> IF k \in gone THEN Missing ELSE objects[p][k]]
      /\ \A q \in Prefixes : q # p => objects'[q] = objects[q]
  BY DEF StoreTypeOK, DeleteObjects
<1>2. \A k \in Keys : objects'[p][k] = IF k \in gone THEN Missing ELSE objects[p][k]
  BY <1>1
<1>3. Present(p)' = Present(p) \ gone
  BY <1>2 DEF Present
<1> QED
  BY <1>1, <1>2, <1>3 DEF Present

-----------------------------------------------------------------------------
(* What each process leaves alone. *)

\* A log() call touches its own run and its own prefix only.
LEMMA LogFrame ==
    ASSUME StoreTypeOK, LogTypeOK, NEW r \in Runs, LogStep(r), NEW q \in Runs, q # r
    PROVE  /\ log'[q] = log[q]
           /\ runs'[q] = runs[q]
           /\ Present(q)' = Present(q)
           /\ objects'[q] = objects[q]
<1>s. r \in Prefixes /\ q \in Prefixes
  BY DEF Prefixes
<1>1. log'[q] = log[q]
  BY DEF LogTypeOK, LogStep, LogCall, Reject, CreateRun, PlanUploads, PlanFails, Upload,
         UploadsDone, LogContent, NoContent, SetUri, SetFinished, FinalizeCall, CleanList,
         CleanBatch, CleanDone, FailRun, Crash, GoTo
<1>2. runs'[q] = runs[q]
  BY DEF StoreTypeOK, LogStep, LogCall, Reject, CreateRun, PlanUploads, PlanFails, Upload,
         UploadsDone, LogContent, NoContent, SetUri, SetFinished, FinalizeCall, CleanList,
         CleanBatch, CleanDone, FailRun, Crash, storeVars
<1>3. \/ objects' = objects
      \/ \E a \in Artifacts : PutObject(r, a)
      \/ \E gone : DeleteObjects(r, gone)
  BY DEF LogStep, LogCall, Reject, CreateRun, PlanUploads, PlanFails, Upload,
         UploadsDone, LogContent, NoContent, SetUri, SetFinished, FinalizeCall, CleanList,
         CleanBatch, CleanDone, FailRun, Crash, storeVars, DeleteRound
<1>4. Present(q)' = Present(q) /\ objects'[q] = objects[q]
  <2>1. CASE objects' = objects
    BY <2>1 DEF Present
  <2>2. CASE \E a \in Artifacts : PutObject(r, a)
    BY <1>s, <2>2, PutPresent DEF Keys
  <2>3. CASE \E gone : DeleteObjects(r, gone)
    BY <1>s, <2>3, DeletePresent
  <2> QED
    BY <1>3, <2>1, <2>2, <2>3
<1> QED
  BY <1>1, <1>2, <1>4

\* So does the operator's work on a run.
LEMMA OpFrame ==
    ASSUME StoreTypeOK, OpTypeOK, NEW r \in Runs, OpStep(r), NEW q \in Runs, q # r
    PROVE  /\ ops'[q] = ops[q]
           /\ runs'[q] = runs[q]
           /\ Present(q)' = Present(q)
           /\ objects'[q] = objects[q]
<1>s. r \in Prefixes /\ q \in Prefixes
  BY DEF Prefixes
<1>1. ops'[q] = ops[q]
  BY DEF OpTypeOK, OpStep, OpCall, Resolve, Purge, BlobsPurged, RetireAbsent, OpCrash, UiDelete,
         HardDelete, Hold, PurgeList, PurgeBatch, Retire, OpStops
<1>2. runs'[q] = runs[q]
  BY DEF StoreTypeOK, OpStep, OpCall, Resolve, Purge, BlobsPurged, RetireAbsent, OpCrash, UiDelete,
         HardDelete, Hold, PurgeList, PurgeBatch, Retire, SoftDeleteRun, storeVars
<1>3. \/ objects' = objects
      \/ PutObject(r, Marker)
      \/ \E gone : DeleteObjects(r, gone)
  BY DEF OpStep, OpCall, Resolve, Purge, BlobsPurged, RetireAbsent, OpCrash, UiDelete,
         HardDelete, Hold, PurgeList, PurgeBatch, Retire, storeVars, DeleteRound
<1>4. Present(q)' = Present(q) /\ objects'[q] = objects[q]
  <2>1. CASE objects' = objects
    BY <2>1 DEF Present
  <2>2. CASE PutObject(r, Marker)
    BY <1>s, <2>2, PutPresent DEF Keys
  <2>3. CASE \E gone : DeleteObjects(r, gone)
    BY <1>s, <2>3, DeletePresent
  <2> QED
    BY <1>3, <2>1, <2>2, <2>3
<1> QED
  BY <1>1, <1>2, <1>4

\* The janitor only ever takes objects away, and only from the prefix it is deleting.
LEMMA JanitorFrame ==
    ASSUME JanitorStep
    PROVE  /\ UNCHANGED <<clock, runs>>
           /\ \/ objects' = objects
              \/ /\ jpc = "deleting"
                 /\ \E gone : DeleteObjects(current.prefix, gone)
BY DEF JanitorStep, StartSome, JanitorCall, StartSweep, ListAliases, ListAlias, Listed, Scan,
       Classify, Scanned, ListOrphan, DeleteBatchOf, OrphanPurged, SweepDone, JanitorCrash,
       DeleteRound, storeVars
-----------------------------------------------------------------------------
(* LogOrder is inductive. *)

\* A call of finalize_run goes on only when the server did what it was asked.
LEMMA FinalizeEffect ==
    ASSUME StoreTypeOK, LogTypeOK, NEW r \in Runs, NEW o \in Outcomes, NEW updated, NEW next,
           FinalizeCall(r, o, updated, next)
    PROVE  /\ \/ log'[r].pc = next /\ Writable(r) /\ runs'[r] = updated
              \/ log'[r].pc = "cleanlist" /\ runs'[r] \in {runs[r], updated}
           /\ log'[r].plan = log[r].plan
           /\ Present(r)' = Present(r)
<1>1. log'[r].pc \in {next, "cleanlist"} /\ log'[r].plan = log[r].plan
  BY DEF FinalizeCall, GoTo, LogTypeOK, LogRecord
<1>2. Present(r)' = Present(r)
  BY DEF FinalizeCall, Present
<1>3. CASE Writable(r) /\ ~Raised(o)
  <2>1. log'[r].pc = next
    BY <1>3 DEF FinalizeCall, GoTo, LogTypeOK, LogRecord
  <2>2. runs'[r] = updated
    BY <1>3 DEF FinalizeCall, StoreTypeOK, Raised, Applied
  <2> QED
    BY <1>1, <1>2, <1>3, <2>1, <2>2
<1>4. CASE ~(Writable(r) /\ ~Raised(o))
  <2>1. log'[r].pc = "cleanlist"
    BY <1>4 DEF FinalizeCall, GoTo, LogTypeOK, LogRecord
  <2>2. runs'[r] \in {runs[r], updated}
    BY <1>4 DEF FinalizeCall, StoreTypeOK
  <2> QED
    BY <1>1, <1>2, <2>1, <2>2
<1> QED
  BY <1>3, <1>4

\* The call of r itself.
LEMMA LogStepOrder ==
    ASSUME StoreTypeOK, LogTypeOK, NEW r \in Runs, OrderOf(r), LogStep(r), UNCHANGED ops
    PROVE  OrderOf(r)'
<1> USE DEF OrderOf
<1>t. /\ runs[r] \in RunRecord
      /\ runs \in [Runs -> RunRecord]
      /\ log[r] \in LogRecord
      /\ log \in [Runs -> LogRecord]
  BY DEF StoreTypeOK, LogTypeOK
<1>1. CASE Reject(r)
  BY <1>1, <1>t DEF Reject, GoTo, storeVars, Present
<1>2. ASSUME NEW o \in Outcomes, CreateRun(r, o) PROVE OrderOf(r)'
  <2> DEFINE created == [runs[r] EXCEPT !.status = "RUNNING"]
  <2>1. \/ log'[r].pc = "planning" /\ runs'[r] = created
        \/ log'[r].pc = "raised" /\ runs'[r] \in {runs[r], created}
    <3>1. CASE Raised(o)
      BY <1>2, <1>t, <3>1 DEF CreateRun, GoTo, LogRecord
    <3>2. CASE ~Raised(o)
      BY <1>2, <1>t, <3>2 DEF CreateRun, GoTo, LogRecord, Raised, Applied
    <3> QED
      BY <3>1, <3>2
  <2>2. log[r].pc = "idle"
    BY <1>2 DEF CreateRun
  <2> QED
    BY <1>t, <2>1, <2>2 DEF RunRecord
<1>3. ASSUME NEW plan \in SUBSET Artifacts, PlanUploads(r, plan) PROVE OrderOf(r)'
  <2>1. log[r].pc = "planning" /\ log'[r].pc = "uploading" /\ runs' = runs
    BY <1>3, <1>t DEF PlanUploads, storeVars
  <2> QED
    BY <2>1
<1>4. CASE PlanFails(r)
  BY <1>4, <1>t DEF PlanFails, GoTo, storeVars, Present, LogRecord
<1>5. ASSUME NEW o \in Outcomes, NEW a \in Artifacts, Upload(r, a, o) PROVE OrderOf(r)'
  BY <1>5, <1>t DEF Upload, LogRecord
<1>6. CASE UploadsDone(r)
  BY <1>6, <1>t DEF UploadsDone, GoTo, storeVars, Present, LogRecord
<1>7. ASSUME NEW o \in Outcomes, LogContent(r, o) PROVE OrderOf(r)'
  <2> DEFINE updated == [runs[r] EXCEPT !.content = TRUE]
  <2>1. /\ \/ log'[r].pc = "uri" /\ Writable(r) /\ runs'[r] = updated
           \/ log'[r].pc = "cleanlist" /\ runs'[r] \in {runs[r], updated}
        /\ Present(r)' = Present(r)
    BY <1>7, FinalizeEffect DEF LogContent
  <2> QED
    BY <1>7, <1>t, <2>1 DEF LogContent, RunRecord, Writable
<1>8. ASSUME NEW o \in Outcomes, SetUri(r, o) PROVE OrderOf(r)'
  <2> DEFINE updated == [runs[r] EXCEPT !.uri = TRUE]
  <2>1. /\ \/ log'[r].pc = "finish" /\ Writable(r) /\ runs'[r] = updated
           \/ log'[r].pc = "cleanlist" /\ runs'[r] \in {runs[r], updated}
        /\ Present(r)' = Present(r)
    BY <1>8, FinalizeEffect DEF SetUri
  <2> QED
    BY <1>8, <1>t, <2>1 DEF SetUri, RunRecord, Writable
<1>9. ASSUME NEW o \in Outcomes, SetFinished(r, o) PROVE OrderOf(r)'
  <2> DEFINE updated == [runs[r] EXCEPT !.status = "FINISHED"]
  <2>1. /\ \/ log'[r].pc = "returned" /\ Writable(r) /\ runs'[r] = updated
           \/ log'[r].pc = "cleanlist" /\ runs'[r] \in {runs[r], updated}
        /\ Present(r)' = Present(r)
    BY <1>9, FinalizeEffect DEF SetFinished
  <2> QED
    BY <1>9, <1>t, <2>1 DEF SetFinished, RunRecord, Writable
<1>10. CASE NoContent(r)
  BY <1>10, <1>t DEF NoContent, GoTo, RunRecord, LogRecord
<1>11. ASSUME NEW o \in Outcomes, CleanList(r, o) PROVE OrderOf(r)'
  BY <1>11, <1>t DEF CleanList, LogRecord
<1>12. ASSUME NEW o \in Outcomes, NEW batch \in SUBSET Keys, NEW gone \in SUBSET batch,
              CleanBatch(r, batch, gone, o)
       PROVE  OrderOf(r)'
  BY <1>12, <1>t DEF CleanBatch, LogRecord
<1>13. CASE CleanDone(r)
  BY <1>13, <1>t DEF CleanDone, GoTo, storeVars, LogRecord
<1>14. ASSUME NEW o \in Outcomes, FailRun(r, o) PROVE OrderOf(r)'
  BY <1>14, <1>t DEF FailRun, GoTo, RunRecord, LogRecord
<1>15. CASE Crash(r)
  BY <1>15, <1>t DEF Crash, LogRecord
<1> QED
  BY <1>1, <1>2, <1>3, <1>4, <1>5, <1>6, <1>7, <1>8, <1>9, <1>10, <1>11, <1>12, <1>13, <1>14,
     <1>15 DEF LogStep, LogCall

\* An operator's work on r: nobody works on a run that does not exist yet.
LEMMA OpStepOrder ==
    ASSUME StoreTypeOK, OpTypeOK, NEW r \in Runs, OrderOf(r), OpStep(r), UNCHANGED log
    PROVE  OrderOf(r)'
<1>t. /\ runs[r] \in RunRecord
      /\ runs \in [Runs -> RunRecord]
  BY DEF StoreTypeOK
<1>1. log[r].pc # "idle"
  BY DEF OpStep, OpCall, OrderOf, Resolve, Purge, BlobsPurged, RetireAbsent, OpCrash, UiDelete,
         HardDelete, Hold, PurgeList, PurgeBatch, Retire, Writable
<1>2. \/ runs' = runs
      \/ runs' = [runs EXCEPT ![r].deleted = TRUE]
      \/ runs' = [runs EXCEPT ![r].status = "ABSENT"] /\ runs[r].deleted
  BY DEF OpStep, OpCall, Resolve, Purge, BlobsPurged, RetireAbsent, OpCrash, UiDelete,
         HardDelete, Hold, PurgeList, PurgeBatch, Retire, SoftDeleteRun, storeVars
<1> QED
  BY <1>t, <1>1, <1>2 DEF OrderOf, RunRecord

\* Every step keeps what the position of log() says of the run on the server.
LEMMA NextOrder ==
    ASSUME TypeOK, LogOrder, [Next]_vars
    PROVE  LogOrder'
<1> SUFFICES ASSUME NEW q \in Runs PROVE OrderOf(q)'
  BY DEF LogOrder
<1>t. StoreTypeOK /\ LogTypeOK /\ JanitorTypeOK /\ OpTypeOK /\ OrderOf(q) /\ q \in Prefixes
  BY DEF TypeOK, LogOrder, Prefixes
<1>1. ASSUME NEW r \in Runs, LogStep(r), UNCHANGED ops PROVE OrderOf(q)'
  <2>1. CASE q = r
    BY <1>1, <1>t, <2>1, LogStepOrder
  <2>2. CASE q # r
    BY <1>1, <1>t, <2>2, LogFrame DEF OrderOf
  <2> QED
    BY <2>1, <2>2
<1>2. ASSUME NEW r \in Runs, OpStep(r), UNCHANGED log PROVE OrderOf(q)'
  <2>1. CASE q = r
    BY <1>2, <1>t, <2>1, OpStepOrder
  <2>2. CASE q # r
    BY <1>2, <1>t, <2>2, OpFrame DEF OrderOf
  <2> QED
    BY <2>1, <2>2
<1>3. CASE JanitorNext
  <2>1. Present(q)' \subseteq Present(q)
    <3>1. CASE objects' = objects
      BY <3>1 DEF Present
    <3>2. ASSUME jpc = "deleting", NEW gone, DeleteObjects(current.prefix, gone)
          PROVE  Present(q)' \subseteq Present(q)
      <4>1. current.prefix \in Prefixes
        BY <1>t, <3>2 DEF JanitorTypeOK
      <4> QED
        BY <1>t, <3>2, <4>1, DeletePresent
    <3> QED
      BY <1>3, <3>1, <3>2, JanitorFrame DEF JanitorNext
  <2> QED
    BY <1>3, <1>t, <2>1, JanitorFrame DEF JanitorNext, OrderOf
<1>4. CASE TimeNext \/ UNCHANGED vars
  BY <1>4, <1>t DEF TimeNext, Tick, vars, storeVars, OrderOf, Present
<1> QED
  BY <1>1, <1>2, <1>3, <1>4 DEF Next, ProducerNext, OperatorNext
-----------------------------------------------------------------------------
(* What is dead stays dead. *)

\* No log() call goes back to its beginning.
LEMMA LogBegun ==
    ASSUME TypeOK, [Next]_vars, NEW q \in Runs, log[q].pc # "idle"
    PROVE  log'[q].pc # "idle"
<1>t. StoreTypeOK /\ LogTypeOK /\ log \in [Runs -> LogRecord] /\ log[q] \in LogRecord
  BY DEF TypeOK, LogTypeOK
<1>1. ASSUME NEW r \in Runs, LogStep(r) PROVE log'[q].pc # "idle"
  <2>1. CASE q # r
    BY <1>1, <1>t, <2>1, LogFrame
  <2>2. CASE q = r
    BY <1>1, <1>t, <2>2
       DEF LogStep, LogCall, LogRecord, Reject, CreateRun, PlanUploads, PlanFails, Upload,
           UploadsDone, LogContent, NoContent, SetUri, SetFinished, FinalizeCall, CleanList,
           CleanBatch, CleanDone, FailRun, Crash, GoTo
  <2> QED
    BY <2>1, <2>2
<1>2. CASE log' = log
  BY <1>2
<1> QED
  BY <1>1, <1>2 DEF Next, ProducerNext, JanitorNext, OperatorNext, TimeNext, vars

\* A run that is gone, soft-deleted or FAILED does not come back: its id is never created again,
\* the server refuses writes to what is deleted, and a call that made it FAILED is over.
LEMMA DeadStays ==
    ASSUME TypeOK, LogOrder, [Next]_vars, NEW q \in Runs, log[q].pc # "idle", Dead(q)
    PROVE  Dead(q)'
<1>t. /\ StoreTypeOK /\ LogTypeOK /\ OpTypeOK /\ OrderOf(q)
      /\ runs \in [Runs -> RunRecord] /\ runs[q] \in RunRecord
      /\ log \in [Runs -> LogRecord] /\ log[q] \in LogRecord
  BY DEF TypeOK, LogOrder, StoreTypeOK, LogTypeOK
<1>1. ASSUME NEW r \in Runs, LogStep(r) PROVE Dead(q)'
  <2>1. CASE q # r
    BY <1>1, <1>t, <2>1, LogFrame DEF Dead
  <2>2. CASE q = r
    <3>1. \/ runs' = runs
          \/ runs' = [runs EXCEPT ![q].content = TRUE]
          \/ Writable(q) /\ log[q].pc \in {"content", "uri", "finish", "fail"}
      BY <1>1, <2>2
         DEF LogStep, LogCall, Reject, CreateRun, PlanUploads, PlanFails, Upload,
             UploadsDone, LogContent, NoContent, SetUri, SetFinished, FinalizeCall, CleanList,
             CleanBatch, CleanDone, FailRun, Crash, storeVars
    <3>2. ~(Writable(q) /\ log[q].pc \in {"content", "uri", "finish", "fail"})
      BY <1>t DEF Dead, Writable, OrderOf
    <3> QED
      BY <1>t, <3>1, <3>2 DEF Dead, RunRecord
  <2> QED
    BY <2>1, <2>2
<1>2. ASSUME NEW r \in Runs, OpStep(r) PROVE Dead(q)'
  <2>1. \/ runs' = runs
        \/ runs' = [runs EXCEPT ![r].deleted = TRUE]
        \/ runs' = [runs EXCEPT ![r].status = "ABSENT"]
    BY <1>2
       DEF OpStep, OpCall, Resolve, Purge, BlobsPurged, RetireAbsent, OpCrash, UiDelete,
           HardDelete, Hold, PurgeList, PurgeBatch, Retire, SoftDeleteRun, storeVars
  <2> QED
    BY <1>t, <2>1 DEF Dead, RunRecord
<1>3. CASE runs' = runs
  BY <1>3 DEF Dead
<1> QED
  BY <1>1, <1>2, <1>3, JanitorFrame
     DEF Next, ProducerNext, JanitorNext, OperatorNext, TimeNext, Tick, vars, storeVars

-----------------------------------------------------------------------------
(* SweepOrder is inductive. *)

\* A sweep that stops is over.
LEMMA StopEnds ==
    ASSUME NEW pc \in {"done", "aborted", "tripped", "raised"}, Stop(pc)
    PROVE  Stopped'
BY DEF Stop, Stopped

\* The steps of a sweep, by what they do to the prefixes it is after: it begins; it goes on;
\* it takes the scanned prefix p up for classification; it condemns the one it took up.
SweepBegins ==
    /\ sweep'.server \in Servers /\ sweep'.now = clock
    /\ report'.orphans = {}
    /\ jpc' = "listing"

SweepGoesOn ==
    /\ ~Stopped /\ sweep' = sweep
    /\ report'.orphans = report.orphans
    /\ jpc' # "classify"
    /\ jpc' = "deleting" => \/ current'.prefix \in report.orphans
                            \/ jpc = "deleting" /\ current' = current

TakesUp(p) ==
    /\ ~Stopped /\ sweep' = sweep
    /\ report'.orphans = report.orphans
    /\ jpc' = "classify"
    /\ current'.prefix = p /\ current'.marker = HasMarker(p)
    /\ p \in Runs /\ Present(p) # {} /\ ~Recent(p)
    /\ objects' = objects

Condemns(p) ==
    /\ jpc = "classify" /\ jpc' = "scanning" /\ sweep' = sweep
    /\ p = current.prefix /\ IsOrphan(p) /\ ~current.marker
    /\ report'.orphans = report.orphans \cup {p}

\* A step of a sweep that is not its last begins it, goes on, takes a prefix up or condemns one.
LEMMA SweepMoves ==
    ASSUME JanitorTypeOK, JanitorStep, ~Stopped'
    PROVE  \/ SweepBegins
           \/ SweepGoesOn
           \/ \E p \in Prefixes : TakesUp(p)
           \/ \E p \in Prefixes : Condemns(p)
<1>1. ASSUME NEW o \in Outcomes, NEW apply \in ApplyModes, NEW server \in Servers,
             StartSweep(apply, server, o)
      PROVE  SweepBegins
  BY <1>1, StopEnds DEF StartSweep, EmptyReport, SweepBegins
<1>2. ASSUME NEW o \in Outcomes, NEW p \in Prefixes, Scan(p, o)
      PROVE  SweepGoesOn \/ TakesUp(p)
  <2>1. ~Raised(o) /\ ScanVerdict(p) /\ jpc = "scanning" /\ objects' = objects
    BY <1>2, StopEnds DEF Scan
  <2>2. report'.orphans = report.orphans /\ sweep' = sweep
    BY <2>1 DEF ScanVerdict, Skip, JanitorTypeOK, SweepReport
  <2>3. \/ jpc' = "scanning"
        \/ /\ jpc' = "classify" /\ p \in Runs /\ Present(p) # {} /\ ~Recent(p)
           /\ current'.prefix = p /\ current'.marker = HasMarker(p)
    BY <2>1 DEF ScanVerdict, Skip, IsForeign, Prefixes
  <2> QED
    BY <2>1, <2>2, <2>3 DEF SweepGoesOn, TakesUp, Stopped
<1>3. ASSUME NEW o \in Outcomes, Classify(o)
      PROVE  SweepGoesOn \/ \E p \in Prefixes : Condemns(p)
  <2> DEFINE c == current.prefix
  <2>1. ~Raised(o) /\ Disposition(c) /\ jpc = "classify" /\ jpc' = "scanning" /\ sweep' = sweep
    BY <1>3, StopEnds DEF Classify, Disposition, File
  <2>2. c \in Prefixes
    BY <2>1 DEF JanitorTypeOK
  <2>3. \/ report'.orphans = report.orphans
        \/ report'.orphans = report.orphans \cup {c} /\ IsOrphan(c) /\ ~current.marker
    BY <2>1 DEF Disposition, File, JanitorTypeOK, SweepReport
  <2> QED
    BY <2>1, <2>2, <2>3 DEF SweepGoesOn, Condemns, Stopped
<1>4. ASSUME NEW o \in Outcomes, NEW p \in Prefixes, ListOrphan(p, o)
      PROVE  SweepGoesOn
  <2>1. /\ jpc = "purging" /\ jpc' = "deleting" /\ UNCHANGED <<sweep, report>>
        /\ current'.prefix = p /\ p \in report.orphans
    BY <1>4, StopEnds DEF ListOrphan, NoCurrent
  <2> QED
    BY <2>1 DEF SweepGoesOn, Stopped
<1>5. ASSUME NEW batch \in SUBSET Keys, NEW gone \in SUBSET batch, NEW o \in Outcomes,
             DeleteBatchOf(batch, gone, o)
      PROVE  SweepGoesOn
  <2>1. jpc = "deleting" /\ UNCHANGED <<jpc, sweep, report, current>>
    BY <1>5, StopEnds DEF DeleteBatchOf
  <2> QED
    BY <2>1 DEF SweepGoesOn, Stopped
<1>6. ASSUME OrphanPurged PROVE SweepGoesOn
  <2>1. /\ jpc = "deleting" /\ jpc' = "purging" /\ sweep' = sweep
        /\ report'.orphans = report.orphans
    BY <1>6 DEF OrphanPurged, JanitorTypeOK, SweepReport
  <2> QED
    BY <2>1 DEF SweepGoesOn, Stopped
<1>7. ASSUME NEW o \in Outcomes, ListAliases(o) \/ \E a \in Aliases : ListAlias(a, o)
      PROVE  SweepGoesOn
  <2>1. ~Stopped /\ UNCHANGED <<sweep, report>> /\ jpc' = "aliases"
    BY <1>7, StopEnds DEF ListAliases, ListAlias, Stopped
  <2> QED
    BY <2>1 DEF SweepGoesOn
<1>8. ASSUME Listed \/ Scanned PROVE SweepGoesOn
  <2>1. ~Stopped /\ UNCHANGED <<sweep, report>> /\ jpc' \in {"scanning", "purging"}
    BY <1>8, StopEnds DEF Listed, Scanned, Stopped
  <2> QED
    BY <2>1 DEF SweepGoesOn
<1>9. ~(SweepDone \/ JanitorCrash)
  BY StopEnds DEF SweepDone, JanitorCrash
<1> QED
  BY <1>1, <1>2, <1>3, <1>4, <1>5, <1>6, <1>7, <1>8, <1>9
     DEF JanitorStep, StartSome, JanitorCall

\* A step of the janitor condemns prefixes of dead runs only.
LEMMA JanitorStepOrder ==
    ASSUME StoreTypeOK, JanitorTypeOK, LogOrder, SweepOrder, JanitorStep, UNCHANGED <<log, ops>>
    PROVE  SweepOrder'
<1> USE DEF SweepOrder, Condemned, Questioned
<1>d. \A p \in Runs : Dead(p)' <=> Dead(p)
  BY JanitorFrame DEF Dead
<1>1. CASE Stopped'
  BY <1>1
<1>2. CASE SweepBegins
  BY <1>2 DEF SweepBegins
<1>3. CASE SweepGoesOn
  <2>1. jpc' = "deleting" => current'.prefix \in report.orphans
    BY <1>3 DEF SweepGoesOn
  <2> QED
    BY <1>3, <1>d, <2>1 DEF SweepGoesOn
<1>4. ASSUME NEW p \in Prefixes, TakesUp(p) PROVE SweepOrder'
  <2>1. log[p].pc # "idle"
    BY <1>4 DEF TakesUp, LogOrder, OrderOf
  <2> QED
    BY <1>4, <1>d, <2>1 DEF TakesUp
<1>5. ASSUME NEW p \in Prefixes, Condemns(p) PROVE SweepOrder'
  <2>1. ~Stopped /\ p \in Runs /\ log[p].pc # "idle"
    BY <1>5 DEF Condemns, Stopped
  <2>2. sweep.server = "owner" => Dead(p)
    BY <1>5, <2>1, StoreAssumption DEF Condemns, IsOrphan, StoreAssumption
  <2> QED
    BY <1>5, <1>d, <2>1, <2>2 DEF Condemns
<1> QED
  BY <1>1, <1>2, <1>3, <1>4, <1>5, SweepMoves

\* Whatever step is taken, those whom the sweep condemned are dead still.
LEMMA NextSweepOrder ==
    ASSUME TypeOK, LogOrder, SweepOrder, [Next]_vars
    PROVE  SweepOrder'
<1>1. CASE JanitorNext
  BY <1>1, JanitorStepOrder DEF JanitorNext, TypeOK
<1>2. CASE UNCHANGED janitorVars
  <2>1. \A p \in Runs : log[p].pc # "idle" => log'[p].pc # "idle"
    BY LogBegun
  <2>2. \A p \in Runs : log[p].pc # "idle" /\ Dead(p) => Dead(p)'
    BY DeadStays
  <2>3. /\ Stopped' <=> Stopped
        /\ \A p \in Prefixes : Condemned(p)' <=> Condemned(p)
        /\ \A p \in Prefixes : Questioned(p)' <=> Questioned(p)
        /\ UNCHANGED <<sweep, jpc, current>>
    BY <1>2 DEF janitorVars, Stopped, Condemned, Questioned
  <2>4. jpc = "deleting" => current.prefix \in Prefixes
    BY DEF TypeOK, JanitorTypeOK
  <2> QED
    BY <2>1, <2>2, <2>3, <2>4 DEF SweepOrder, Condemned, Prefixes, janitorVars
<1> QED
  BY <1>1, <1>2 DEF Next, ProducerNext, OperatorNext, TimeNext, vars
-----------------------------------------------------------------------------
(* What the order of events implies. *)

\* At first no log() has begun and no sweep has condemned anybody.
LEMMA InitOrder == Init => LogOrder /\ SweepOrder
<1> SUFFICES ASSUME Init PROVE LogOrder /\ SweepOrder
  OBVIOUS
<1>1. SweepOrder
  BY DEF Init, JanitorInit, SweepOrder, Stopped
<1>2. ASSUME NEW r \in Runs PROVE OrderOf(r)
  <2>1. r \in Prefixes /\ r \notin Foreign
    BY StoreAssumption DEF Prefixes, StoreAssumption
  <2>2. Present(r) = {}
    BY <2>1 DEF Init, StoreInit, Present
  <2> QED
    BY <2>2 DEF Init, StoreInit, LogInit, OpInit, OrderOf
<1> QED
  BY <1>1, <1>2 DEF LogOrder

\* The positions of log() and of the sweep agree with the server in every reachable state.
LEMMA OrderInvariant == Spec => [](TypeOK /\ LogOrder /\ SweepOrder)
<1>1. Init => TypeOK /\ LogOrder /\ SweepOrder
  BY InitType, InitOrder
<1>2. TypeOK /\ LogOrder /\ SweepOrder /\ [Next]_vars => (TypeOK /\ LogOrder /\ SweepOrder)'
  BY NextType, NextOrder, NextSweepOrder
<1> QED
  BY <1>1, <1>2, PTL DEF Spec

\* However log(), the server, operators and crashes interleave, a run that says FINISHED has all
\* of its content and its artifacts_uri: no path reaches set_terminated before both.
THEOREM CompletenessContract == Spec => []FinishedIsComplete
<1>1. LogOrder => FinishedIsComplete
  BY DEF LogOrder, OrderOf, FinishedIsComplete
<1> QED
  BY <1>1, OrderInvariant, PTL

\* Nothing but a janitor's batch takes an object away without a log() or purge step of its own.
LEMMA OnlyTheSweep ==
    ASSUME TypeOK, [Next]_vars, NEW p \in Prefixes, NEW k \in Keys, JanitorDeletes(p, k)
    PROVE  JanitorNext /\ p = current.prefix
<1>t. StoreTypeOK /\ LogTypeOK /\ OpTypeOK /\ JanitorTypeOK
  BY DEF TypeOK
<1>0. k \in Present(p) /\ k \notin Present(p)' /\ UNCHANGED <<log, ops>> /\ jpc = "deleting"
  BY DEF JanitorDeletes
<1>1. ASSUME NEW r \in Runs, LogStep(r) PROVE FALSE
  <2>0. r \in Prefixes
    BY DEF Prefixes
  <2>1. \/ objects' = objects
        \/ \E a \in Artifacts : PutObject(r, a)
        \/ \E batch \in SUBSET Keys : \E gone, o :
              CleanBatch(r, batch, gone, o) /\ gone \subseteq batch
    BY <1>1 DEF LogStep, LogCall, Reject, CreateRun, PlanUploads, PlanFails, Upload,
         UploadsDone, LogContent, NoContent, SetUri, SetFinished, FinalizeCall, CleanList,
         CleanDone, FailRun, Crash, storeVars
  <2>2. CASE objects' = objects
    BY <1>0, <2>2 DEF Present
  <2>3. CASE \E a \in Artifacts : PutObject(r, a)
    BY <1>0, <1>t, <2>0, <2>3, PutPresent DEF Keys
  <2>4. ASSUME NEW batch \in SUBSET Keys, NEW gone, NEW o, CleanBatch(r, batch, gone, o),
               gone \subseteq batch
        PROVE  FALSE
    <3>1. DeleteObjects(r, gone) /\ log[r].pc = "clean" /\ batch \subseteq log[r].keys
      BY <2>4 DEF CleanBatch, DeleteRound, IsBatch
    <3>2. p = r /\ k \in batch
      BY <1>0, <1>t, <2>0, <2>4, <3>1, DeletePresent
    <3>3. log'[r].pc = "fail" \/ log'[r].keys = log[r].keys \ batch
      BY <1>t, <2>4 DEF CleanBatch, LogTypeOK, LogRecord
    <3> QED
      BY <1>0, <3>1, <3>2, <3>3
  <2> QED
    BY <2>1, <2>2, <2>3, <2>4
<1>2. ASSUME NEW r \in Runs, OpStep(r) PROVE FALSE
  <2>0. r \in Prefixes
    BY DEF Prefixes
  <2>1. \/ objects' = objects
        \/ PutObject(r, Marker)
        \/ \E batch \in SUBSET Keys : \E gone, o :
              PurgeBatch(r, batch, gone, o) /\ gone \subseteq batch
    BY <1>2 DEF OpStep, OpCall, Resolve, Purge, BlobsPurged, RetireAbsent, OpCrash, UiDelete,
         HardDelete, Hold, PurgeList, Retire, storeVars
  <2>2. CASE objects' = objects
    BY <1>0, <2>2 DEF Present
  <2>3. CASE PutObject(r, Marker)
    BY <1>0, <1>t, <2>0, <2>3, PutPresent DEF Keys
  <2>4. ASSUME NEW batch \in SUBSET Keys, NEW gone, NEW o, PurgeBatch(r, batch, gone, o),
               gone \subseteq batch
        PROVE  FALSE
    <3>1. DeleteObjects(r, gone) /\ ops[r].pc = "deleting" /\ batch \subseteq ops[r].keys
      BY <2>4 DEF PurgeBatch, DeleteRound, IsBatch
    <3>2. p = r /\ k \in batch
      BY <1>0, <1>t, <2>0, <2>4, <3>1, DeletePresent
    <3>3. ops'[r].pc = "raised" \/ ops'[r].keys = ops[r].keys \ batch
      BY <1>t, <2>4 DEF PurgeBatch, OpStops, OpTypeOK, OpRecord
    <3> QED
      BY <1>0, <3>1, <3>2, <3>3
  <2> QED
    BY <2>1, <2>2, <2>3, <2>4
<1>3. objects' # objects
  BY <1>0 DEF Present
<1>4. JanitorNext
  BY <1>1, <1>2, <1>3
     DEF Next, ProducerNext, OperatorNext, TimeNext, Tick, vars, storeVars
<1>5. current.prefix \in Prefixes
  BY <1>0, <1>t DEF JanitorTypeOK
<1>6. PICK gone : DeleteObjects(current.prefix, gone)
  BY <1>3, <1>4, JanitorFrame DEF JanitorNext
<1> QED
  BY <1>0, <1>4, <1>5, <1>6, <1>t, DeletePresent

\* The deleted object's prefix is condemned.
LEMMA DeletesCondemned ==
    ASSUME TypeOK, SweepOrder, [Next]_vars, NEW p \in Prefixes, NEW k \in Keys,
           JanitorDeletes(p, k)
    PROVE  ~Stopped /\ Condemned(p)
<1>1. p = current.prefix
  BY OnlyTheSweep
<1>2. jpc = "deleting" /\ ~Stopped
  BY DEF JanitorDeletes, Stopped
<1> QED
  BY <1>1, <1>2 DEF SweepOrder

\* A sweep that asks the server owning the runs never deletes an object of a run that is RUNNING,
\* or FINISHED and not deleted, however long ago it classified the prefix.
THEOREM SweepSparesLive == Spec => JanitorSparesLive
<1>1. TypeOK /\ SweepOrder /\ [Next]_vars =>
        [\A p \in Prefixes, k \in Keys :
            JanitorDeletes(p, k) /\ sweep.server = "owner" => p \in Runs /\ Dead(p)]_vars
  <2> SUFFICES ASSUME TypeOK, SweepOrder, [Next]_vars, NEW p \in Prefixes, NEW k \in Keys,
                      JanitorDeletes(p, k), sweep.server = "owner"
               PROVE  p \in Runs /\ Dead(p)
    OBVIOUS
  <2>1. ~Stopped /\ Condemned(p)
    BY DeletesCondemned
  <2> QED
    BY <2>1 DEF SweepOrder
<1> QED
  BY <1>1, OrderInvariant, PTL DEF Spec, JanitorSparesLive
-----------------------------------------------------------------------------
(* SweepAges is inductive. *)

\* Whatever happens, an object is as old as it was or is written now, and time does not go back.
LEMMA ObjectsAge ==
    ASSUME TypeOK, [Next]_vars
    PROVE  /\ clock <= clock'
           /\ \A p \in Prefixes : \A k \in Present(p)' :
                 (k \in Present(p) /\ objects'[p][k] = objects[p][k]) \/ objects'[p][k] = clock
<1>t. StoreTypeOK /\ LogTypeOK /\ OpTypeOK /\ JanitorTypeOK /\ clock \in Int
  BY StoreAssumption DEF TypeOK, StoreTypeOK, StoreAssumption
<1>1. \/ objects' = objects
      \/ \E q \in Prefixes, j \in Keys : PutObject(q, j)
      \/ \E q \in Prefixes : \E gone : DeleteObjects(q, gone)
  <2>1. ASSUME NEW r \in Runs, LogStep(r)
        PROVE  \/ objects' = objects
               \/ \E a \in Artifacts : PutObject(r, a)
               \/ \E gone : DeleteObjects(r, gone)
    BY <2>1 DEF LogStep, LogCall, Reject, CreateRun, PlanUploads, PlanFails, Upload,
           UploadsDone, LogContent, NoContent, SetUri, SetFinished, FinalizeCall, CleanList,
           CleanBatch, CleanDone, FailRun, Crash, storeVars, DeleteRound
  <2>2. ASSUME NEW r \in Runs, OpStep(r)
        PROVE  \/ objects' = objects
               \/ PutObject(r, Marker)
               \/ \E gone : DeleteObjects(r, gone)
    BY <2>2 DEF OpStep, OpCall, Resolve, Purge, BlobsPurged, RetireAbsent, OpCrash, UiDelete,
           HardDelete, Hold, PurgeList, PurgeBatch, Retire, storeVars, DeleteRound
  <2>3. jpc = "deleting" => current.prefix \in Prefixes
    BY <1>t DEF JanitorTypeOK
  <2> QED
    BY <2>1, <2>2, <2>3, JanitorFrame
       DEF Next, ProducerNext, JanitorNext, OperatorNext, TimeNext, Tick, vars, storeVars,
           Prefixes, Keys
<1>2. \A p \in Prefixes : \A k \in Present(p)' :
          (k \in Present(p) /\ objects'[p][k] = objects[p][k]) \/ objects'[p][k] = clock
  <2>1. CASE objects' = objects
    BY <2>1 DEF Present
  <2>2. ASSUME NEW q \in Prefixes, NEW j \in Keys, PutObject(q, j)
        PROVE  \A p \in Prefixes : \A k \in Present(p)' :
                 (k \in Present(p) /\ objects'[p][k] = objects[p][k]) \/ objects'[p][k] = clock
    BY <1>t, <2>2, PutPresent DEF Present
  <2>3. ASSUME NEW q \in Prefixes, NEW gone, DeleteObjects(q, gone)
        PROVE  \A p \in Prefixes : \A k \in Present(p)' :
                 (k \in Present(p) /\ objects'[p][k] = objects[p][k]) \/ objects'[p][k] = clock
    BY <1>t, <2>3, DeletePresent DEF Present
  <2> QED
    BY <1>1, <2>1, <2>2, <2>3
<1>3. clock <= clock'
  <2>1. ASSUME NEW r \in Runs, LogStep(r) PROVE clock' = clock
    BY <2>1 DEF LogStep, LogCall, Reject, CreateRun, PlanUploads, PlanFails, Upload,
           UploadsDone, LogContent, NoContent, SetUri, SetFinished, FinalizeCall, CleanList,
           CleanBatch, CleanDone, FailRun, Crash, storeVars
  <2>2. ASSUME NEW r \in Runs, OpStep(r) PROVE clock' = clock
    BY <2>2 DEF OpStep, OpCall, Resolve, Purge, BlobsPurged, RetireAbsent, OpCrash, UiDelete,
           HardDelete, Hold, PurgeList, PurgeBatch, Retire, storeVars
  <2>3. clock' = clock \/ clock' = clock + 1
    BY <2>1, <2>2, JanitorFrame
       DEF Next, ProducerNext, JanitorNext, OperatorNext, TimeNext, Tick, vars, storeVars
  <2> QED
    BY <1>t, <2>3
<1> QED
  BY <1>2, <1>3

\* During a sweep, objects written after its clock was captured harm neither condition.
LEMMA AgesStay ==
    ASSUME TypeOK, [Next]_vars, sweep' = sweep, sweep.now <= clock, NEW p \in Prefixes
    PROVE  /\ sweep'.now <= clock'
           /\ AgedOrNew(p) => AgedOrNew(p)'
           /\ HeldLate(p) => HeldLate(p)'
<1>1. clock \in Int /\ clock' \in Int /\ sweep.now \in Int /\ sweep'.now = sweep.now
  BY NextType, StoreAssumption DEF TypeOK, StoreTypeOK, JanitorTypeOK, StoreAssumption
<1>2. /\ clock <= clock'
      /\ \A k \in Present(p)' :
            (k \in Present(p) /\ objects'[p][k] = objects[p][k]) \/ objects'[p][k] = clock
  BY ObjectsAge
<1>3. ASSUME AgedOrNew(p) PROVE AgedOrNew(p)'
  <2> SUFFICES ASSUME NEW k \in Present(p)'
               PROVE  objects'[p][k] + MinAge <= sweep.now \/ objects'[p][k] >= sweep.now
    BY <1>1 DEF AgedOrNew
  <2>1. CASE k \in Present(p) /\ objects'[p][k] = objects[p][k]
    BY <1>3, <2>1 DEF AgedOrNew
  <2>2. CASE objects'[p][k] = clock
    BY <1>1, <2>2
  <2> QED
    BY <1>2, <2>1, <2>2
<1>4. ASSUME HeldLate(p) PROVE HeldLate(p)'
  <2> SUFFICES ASSUME Marker \in Present(p)' PROVE objects'[p][Marker] >= sweep.now
    BY <1>1 DEF HeldLate
  <2>1. CASE Marker \in Present(p) /\ objects'[p][Marker] = objects[p][Marker]
    BY <1>4, <2>1 DEF HeldLate
  <2>2. CASE objects'[p][Marker] = clock
    BY <1>1, <2>2
  <2> QED
    BY <1>2, <2>1, <2>2
<1> QED
  BY <1>1, <1>2, <1>3, <1>4

\* Every step keeps the ages of what is condemned, measured by the clock the sweep read first.
LEMMA NextSweepAges ==
    ASSUME TypeOK, SweepAges, [Next]_vars
    PROVE  SweepAges'
<1> USE DEF SweepAges, Condemned, Questioned
<1>t. /\ JanitorTypeOK
      /\ clock \in Int /\ sweep.now \in Int /\ clock' \in Int
      /\ \A p \in Prefixes : \A k \in Present(p) : objects[p][k] \in Int
  BY NextType, StoreAssumption
     DEF TypeOK, StoreTypeOK, JanitorTypeOK, StoreAssumption, Missing, Present
<1>s. ASSUME ~Stopped, sweep' = sweep
      PROVE  /\ sweep'.now <= clock'
             /\ \A p \in Prefixes : /\ AgedOrNew(p) => AgedOrNew(p)'
                                    /\ HeldLate(p) => HeldLate(p)'
  <2>1. sweep.now <= clock
    BY <1>s
  <2>2. clock <= clock'
    BY ObjectsAge
  <2>3. \A p \in Prefixes : /\ AgedOrNew(p) => AgedOrNew(p)'
                            /\ HeldLate(p) => HeldLate(p)'
    BY <1>s, <2>1, AgesStay
  <2>4. sweep'.now <= clock'
    BY <1>s, <1>t, <2>1, <2>2
  <2> QED
    BY <2>3, <2>4
<1>1. CASE UNCHANGED janitorVars
  BY <1>1, <1>s DEF janitorVars, Stopped
<1>2. CASE Stopped'
  BY <1>2
<1>3. CASE JanitorNext /\ SweepBegins
  BY <1>3, <1>t, JanitorFrame DEF JanitorNext, SweepBegins
<1>4. CASE SweepGoesOn
  BY <1>4, <1>s DEF SweepGoesOn
<1>5. ASSUME NEW p \in Prefixes, TakesUp(p) PROVE SweepAges'
  <2>1. AgedOrNew(p)
    BY <1>5, <1>t, JanitorAssumption DEF TakesUp, Recent, AgedOrNew, JanitorAssumption
  <2>2. ~current'.marker => HeldLate(p)
    BY <1>5 DEF TakesUp, HasMarker, HeldLate
  <2> QED
    BY <1>5, <1>s, <2>1, <2>2 DEF TakesUp
<1>6. ASSUME NEW p \in Prefixes, Condemns(p) PROVE SweepAges'
  <2>1. ~Stopped /\ AgedOrNew(p) /\ HeldLate(p)
    BY <1>6 DEF Condemns, Stopped
  <2> QED
    BY <1>6, <1>s, <2>1 DEF Condemns
<1> QED
  BY <1>t, <1>1, <1>2, <1>3, <1>4, <1>5, <1>6, SweepMoves
     DEF Next, ProducerNext, JanitorNext, OperatorNext, TimeNext, vars

\* What a sweep relies on, runs and ages, holds in every reachable state.
LEMMA SweepInvariant == Spec => [](TypeOK /\ LogOrder /\ SweepOrder /\ SweepAges)
<1>1. Init => SweepAges
  BY DEF Init, JanitorInit, SweepAges, Stopped
<1>2. TypeOK /\ SweepAges /\ [Next]_vars => SweepAges'
  BY NextSweepAges
<1> QED
  BY <1>1, <1>2, OrderInvariant, PTL DEF Spec

\* A hold written before the sweep captured its clock is never deleted by it: the scan of the
\* prefix comes later and sees the marker, and a marker seen at the scan rules the purge out.
THEOREM HoldSurvives == Spec => EarlierHoldSurvives
<1>1. TypeOK /\ SweepOrder /\ SweepAges /\ [Next]_vars =>
        [\A p \in Prefixes : JanitorDeletes(p, Marker) => objects[p][Marker] >= sweep.now]_vars
  <2> SUFFICES ASSUME TypeOK, SweepOrder, SweepAges, [Next]_vars, NEW p \in Prefixes,
                      JanitorDeletes(p, Marker)
               PROVE  objects[p][Marker] >= sweep.now
    OBVIOUS
  <2>1. Marker \in Keys /\ Marker \in Present(p)
    BY DEF Keys, JanitorDeletes
  <2>2. ~Stopped /\ Condemned(p)
    BY <2>1, DeletesCondemned
  <2> QED
    BY <2>1, <2>2 DEF SweepAges, HeldLate
<1> QED
  BY <1>1, SweepInvariant, PTL DEF Spec, EarlierHoldSurvives

\* Of what was there when the sweep began, it deletes only objects older than the grace period.
THEOREM GracePeriod == Spec => GraceIsRespected
<1>1. TypeOK /\ SweepOrder /\ SweepAges /\ [Next]_vars =>
        [\A p \in Prefixes, k \in Keys :
           JanitorDeletes(p, k) => \/ objects[p][k] + MinAge <= sweep.now
                                   \/ objects[p][k] >= sweep.now]_vars
  <2> SUFFICES ASSUME TypeOK, SweepOrder, SweepAges, [Next]_vars, NEW p \in Prefixes,
                      NEW k \in Keys, JanitorDeletes(p, k)
               PROVE  objects[p][k] + MinAge <= sweep.now \/ objects[p][k] >= sweep.now
    OBVIOUS
  <2>1. k \in Present(p)
    BY DEF JanitorDeletes
  <2>2. ~Stopped /\ Condemned(p)
    BY DeletesCondemned
  <2> QED
    BY <2>1, <2>2 DEF SweepAges, AgedOrNew
<1> QED
  BY <1>1, SweepInvariant, PTL DEF Spec, GraceIsRespected
-----------------------------------------------------------------------------
(* Uploads stay. *)

\* The call of r itself: what it counts as uploaded, it has put.
LEMMA LogStepUploads ==
    ASSUME StoreTypeOK, LogTypeOK, NEW r \in Runs, UploadsOf(r), LogStep(r), UNCHANGED ops
    PROVE  UploadsOf(r)'
<1> USE DEF UploadsOf
<1>t. /\ runs \in [Runs -> RunRecord] /\ runs[r] \in RunRecord
      /\ log \in [Runs -> LogRecord] /\ log[r] \in LogRecord
      /\ r \in Prefixes
  BY DEF StoreTypeOK, LogTypeOK, Prefixes
<1>1. PurgeBegun(r)' <=> PurgeBegun(r)
  BY DEF PurgeBegun
<1>2. runs'[r].deleted = runs[r].deleted
  BY <1>t DEF LogStep, LogCall, Reject, CreateRun, PlanUploads, PlanFails, Upload,
         UploadsDone, LogContent, NoContent, SetUri, SetFinished, FinalizeCall, CleanList,
         CleanBatch, CleanDone, FailRun, Crash, storeVars, RunRecord
<1>3. CASE log'[r].pc \notin {"uploading", "content", "uri", "finish", "returned"}
  BY <1>3
<1>4. ASSUME NEW plan \in SUBSET Artifacts, PlanUploads(r, plan) PROVE UploadsOf(r)'
  BY <1>4, <1>t DEF PlanUploads
<1>5. ASSUME NEW o \in Outcomes, NEW a \in Artifacts, Upload(r, a, o), ~Raised(o)
      PROVE  UploadsOf(r)'
  <2>1. /\ log[r].pc = "uploading" /\ log'[r].pc = "uploading"
        /\ log'[r].plan = log[r].plan /\ log'[r].left = log[r].left \ {a}
    BY <1>5, <1>t DEF Upload, LogRecord
  <2>2. PutObject(r, a) /\ a \in Keys
    BY <1>5 DEF Upload, Raised, Applied, Keys
  <2>3. Present(r)' = Present(r) \cup {a}
    BY <1>t, <2>2, PutPresent
  <2> QED
    BY <1>1, <1>2, <2>1, <2>3
<1>6. CASE UploadsDone(r)
  <2>1. /\ log[r].pc = "uploading" /\ log[r].left = {}
        /\ log'[r].pc = "content" /\ log'[r].plan = log[r].plan
    BY <1>6, <1>t DEF UploadsDone, GoTo, LogRecord
  <2> QED
    BY <1>1, <1>2, <1>6, <2>1 DEF UploadsDone, storeVars, Present
<1>7. CASE /\ log[r].pc \in {"content", "uri", "finish"}
           /\ log'[r].plan = log[r].plan
           /\ Present(r)' = Present(r)
           /\ log'[r].pc # "uploading"
  BY <1>1, <1>2, <1>7
<1>8. ASSUME NEW o \in Outcomes, LogContent(r, o) \/ SetUri(r, o) \/ SetFinished(r, o)
      PROVE  UploadsOf(r)'
  <2>1. /\ log[r].pc \in {"content", "uri", "finish"}
        /\ log'[r].plan = log[r].plan
        /\ Present(r)' = Present(r)
        /\ log'[r].pc # "uploading"
    BY <1>8, FinalizeEffect DEF LogContent, SetUri, SetFinished
  <2> QED
    BY <1>7, <2>1
<1>9. CASE NoContent(r)
  <2>1. /\ log[r].pc = "content" /\ log'[r].plan = log[r].plan /\ log'[r].pc = "uri"
        /\ Present(r)' = Present(r)
    BY <1>9, <1>t DEF NoContent, GoTo, LogRecord, Present
  <2> QED
    BY <1>7, <2>1
<1>10. CASE Reject(r) \/ PlanFails(r) \/ CleanDone(r) \/ Crash(r)
  <2>1. ASSUME NEW pc \in {"raised", "cleanlist", "fail"}, GoTo(r, pc) PROVE log'[r].pc = pc
    BY <1>t, <2>1 DEF GoTo
  <2>2. Crash(r) => log'[r].pc = "crashed"
    BY <1>t DEF Crash
  <2> QED
    BY <1>3, <1>10, <2>1, <2>2 DEF Reject, PlanFails, CleanDone
<1>11. ASSUME NEW o \in Outcomes, CreateRun(r, o) \/ CleanList(r, o) \/ FailRun(r, o)
       PROVE  UploadsOf(r)'
  <2>1. ASSUME CreateRun(r, o) PROVE log'[r].pc \in {"raised", "planning"}
    <3>1. Raised(o) => log'[r].pc = "raised"
      BY <1>t, <2>1 DEF CreateRun, GoTo
    <3>2. ~Raised(o) => log'[r].pc = "planning"
      BY <1>t, <2>1 DEF CreateRun, GoTo
    <3> QED
      BY <3>1, <3>2
  <2>2. CleanList(r, o) => log'[r].pc \in {"fail", "clean"}
    BY <1>t DEF CleanList
  <2>3. FailRun(r, o) => log'[r].pc = "raised"
    BY <1>t DEF FailRun, GoTo
  <2> QED
    BY <1>3, <1>11, <2>1, <2>2, <2>3
<1>12. ASSUME NEW o \in Outcomes, NEW batch \in SUBSET Keys, NEW gone \in SUBSET batch,
              CleanBatch(r, batch, gone, o)
       PROVE  UploadsOf(r)'
  <2>1. log'[r].pc \in {"clean", "fail"}
    BY <1>12, <1>t DEF CleanBatch, LogRecord
  <2> QED
    BY <1>3, <2>1
<1>13. ASSUME NEW o \in Outcomes, NEW a \in Artifacts, Upload(r, a, o), Raised(o)
       PROVE  UploadsOf(r)'
  <2>1. log'[r].pc = "cleanlist"
    BY <1>13, <1>t DEF Upload
  <2> QED
    BY <1>3, <2>1
<1> QED
  BY <1>4, <1>5, <1>6, <1>8, <1>9, <1>10, <1>11, <1>12, <1>13 DEF LogStep, LogCall

\* An operator deletes nothing of r without having begun a purge of it.
LEMMA OpStepUploads ==
    ASSUME StoreTypeOK, OpTypeOK, NEW r \in Runs, UploadsOf(r), OpStep(r), UNCHANGED log
    PROVE  UploadsOf(r)'
<1>t. /\ runs \in [Runs -> RunRecord] /\ runs[r] \in RunRecord
      /\ ops \in [Runs -> OpRecord] /\ ops[r] \in OpRecord
      /\ r \in Prefixes /\ Marker \in Keys
  BY DEF StoreTypeOK, OpTypeOK, Prefixes, Keys
<1>1. runs[r].deleted => runs'[r].deleted
  <2>1. \/ runs' = runs
        \/ runs' = [runs EXCEPT ![r].deleted = TRUE]
        \/ runs' = [runs EXCEPT ![r].status = "ABSENT"]
    BY DEF OpStep, OpCall, Resolve, Purge, BlobsPurged, RetireAbsent, OpCrash, UiDelete,
           HardDelete, Hold, PurgeList, PurgeBatch, Retire, SoftDeleteRun, storeVars
  <2> QED
    BY <1>t, <2>1 DEF RunRecord
<1>2. PurgeBegun(r) => PurgeBegun(r)'
  <2> USE DEF PurgeBegun
  <2>1. ASSUME NEW pc \in {"raised", "purged", "kept"}, OpStops(r, pc) PROVE PurgeBegun(r)'
    BY <1>t, <2>1 DEF OpStops
  <2>2. Resolve(r) => ~PurgeBegun(r)
    BY DEF Resolve
  <2>3. ASSUME NEW retire \in BOOLEAN, Purge(r, retire) PROVE PurgeBegun(r)'
    BY <1>t, <2>3 DEF Purge
  <2>4. CASE BlobsPurged(r) /\ ops[r].retire
    <3>1. ops' = [ops EXCEPT ![r].pc = "retiring"]
      BY <2>4 DEF BlobsPurged
    <3> QED
      BY <1>t, <3>1
  <2>5. CASE BlobsPurged(r) /\ ~ops[r].retire
    BY <2>1, <2>5 DEF BlobsPurged
  <2>6. CASE RetireAbsent(r) \/ OpCrash(r)
    BY <2>1, <2>6 DEF RetireAbsent, OpCrash
  <2>7. CASE UiDelete(r) \/ HardDelete(r) \/ \E o \in Outcomes : Hold(r, o)
    BY <2>7 DEF UiDelete, HardDelete, Hold
  <2>8. ASSUME NEW o \in Outcomes, PurgeList(r, o) PROVE PurgeBegun(r)'
    <3>1. CASE Raised(o)
      BY <2>1, <2>8, <3>1 DEF PurgeList
    <3>2. CASE ~Raised(o)
      <4>1. ops' = [ops EXCEPT ![r].pc = "deleting", ![r].keys = Present(r)]
        BY <2>8, <3>2 DEF PurgeList
      <4> QED
        BY <1>t, <4>1
    <3> QED
      BY <3>1, <3>2
  <2>9. ASSUME NEW o \in Outcomes, NEW batch \in SUBSET Keys, NEW gone \in SUBSET batch,
               PurgeBatch(r, batch, gone, o)
        PROVE  PurgeBegun(r)'
    BY <1>t, <2>1, <2>9 DEF PurgeBatch, OpRecord
  <2>10. ASSUME NEW o \in Outcomes, Retire(r, o) PROVE PurgeBegun(r)'
    <3>1. OpStops(r, "raised") \/ OpStops(r, "purged")
      BY <2>10 DEF Retire
    <3> QED
      BY <2>1, <3>1
  <2> QED
    BY <2>2, <2>3, <2>4, <2>5, <2>6, <2>7, <2>8, <2>9, <2>10 DEF OpStep, OpCall
<1>3. PurgeBegun(r) \/ Present(r) \subseteq Present(r)'
  <2>1. \/ objects' = objects
        \/ PutObject(r, Marker)
        \/ ops[r].pc = "deleting"
    BY DEF OpStep, OpCall, Resolve, Purge, BlobsPurged, RetireAbsent, OpCrash, UiDelete,
           HardDelete, Hold, PurgeList, PurgeBatch, Retire, storeVars
  <2> QED
    BY <1>t, <2>1, PutPresent DEF Present, PurgeBegun
<1> QED
  BY <1>1, <1>2, <1>3 DEF UploadsOf

\* A sweep that asks the owner deletes nothing of a run that is being logged or is usable.
LEMMA JanitorStepUploads ==
    ASSUME StoreTypeOK, JanitorTypeOK, SweepOrder, "empty" \notin Servers, JanitorNext,
           NEW r \in Runs, OrderOf(r), UploadsOf(r)
    PROVE  UploadsOf(r)'
<1>1. /\ UNCHANGED <<runs, log, ops>>
      /\ \/ objects' = objects
         \/ jpc = "deleting" /\ \E gone : DeleteObjects(current.prefix, gone)
  BY JanitorFrame DEF JanitorNext
<1>2. CASE Present(r)' = Present(r)
  BY <1>1, <1>2 DEF UploadsOf, PurgeBegun
<1>3. CASE objects' = objects
  BY <1>2, <1>3 DEF Present
<1>4. ASSUME jpc = "deleting", NEW gone, DeleteObjects(current.prefix, gone)
      PROVE  UploadsOf(r)'
  <2>1. current.prefix \in Prefixes /\ r \in Prefixes
    BY <1>4 DEF JanitorTypeOK, Prefixes
  <2>2. CASE r # current.prefix
    BY <1>2, <1>4, <2>1, <2>2, DeletePresent
  <2>3. CASE r = current.prefix
    <3>1. ~Stopped
      BY <1>4 DEF Stopped
    <3>2. sweep.server = "owner" /\ Condemned(r)
      BY <1>4, <2>3, <3>1, JanitorAssumption DEF SweepOrder, JanitorAssumption
    <3>3. Dead(r)
      BY <3>1, <3>2 DEF SweepOrder
    <3>4. runs[r].deleted \/ log[r].pc \notin {"uploading", "content", "uri", "finish", "returned"}
      BY <3>3 DEF Dead, OrderOf
    <3> QED
      BY <1>1, <3>4 DEF UploadsOf
  <2> QED
    BY <2>2, <2>3
<1> QED
  BY <1>1, <1>3, <1>4

\* Every step keeps what a log() that goes on, or has returned, uploaded for a run nobody retired.
LEMMA NextUploads ==
    ASSUME TypeOK, LogOrder, SweepOrder, UploadsStay, [Next]_vars
    PROVE  UploadsStay'
<1> SUFFICES ASSUME "empty" \notin Servers, NEW q \in Runs PROVE UploadsOf(q)'
  BY DEF UploadsStay
<1>t. StoreTypeOK /\ LogTypeOK /\ JanitorTypeOK /\ OpTypeOK /\ OrderOf(q) /\ UploadsOf(q)
  BY DEF TypeOK, LogOrder, UploadsStay
<1>1. ASSUME NEW r \in Runs, LogStep(r), UNCHANGED ops PROVE UploadsOf(q)'
  <2>1. CASE q = r
    BY <1>1, <1>t, <2>1, LogStepUploads
  <2>2. CASE q # r
    BY <1>1, <1>t, <2>2, LogFrame DEF UploadsOf, PurgeBegun
  <2> QED
    BY <2>1, <2>2
<1>2. ASSUME NEW r \in Runs, OpStep(r), UNCHANGED log PROVE UploadsOf(q)'
  <2>1. CASE q = r
    BY <1>2, <1>t, <2>1, OpStepUploads
  <2>2. CASE q # r
    BY <1>2, <1>t, <2>2, OpFrame DEF UploadsOf, PurgeBegun
  <2> QED
    BY <2>1, <2>2
<1>3. CASE JanitorNext
  BY <1>3, <1>t, JanitorStepUploads
<1>4. CASE TimeNext \/ UNCHANGED vars
  BY <1>4, <1>t DEF TimeNext, Tick, vars, storeVars, UploadsOf, PurgeBegun, Present
<1> QED
  BY <1>1, <1>2, <1>3, <1>4 DEF Next, ProducerNext, OperatorNext

\* The inductive invariant holds at the start.
LEMMA InitIsInductive == Init => IInv
<1>1. Init => UploadsStay
  BY DEF Init, LogInit, UploadsStay, UploadsOf
<1>2. Init => SweepAges
  BY DEF Init, JanitorInit, SweepAges, Stopped
<1> QED
  BY <1>1, <1>2, InitType, InitOrder DEF IInv

\* Every step of the platform keeps it.
LEMMA StepIsInductive == IInv /\ [Next]_vars => IInv'
<1> SUFFICES ASSUME IInv, [Next]_vars PROVE IInv'
  OBVIOUS
<1> QED
  BY NextType, NextOrder, NextSweepOrder, NextSweepAges, NextUploads DEF IInv

\* So it always holds.
THEOREM Inductive == Spec => []IInv
BY InitIsInductive, StepIsInductive, PTL DEF Spec

\* When every sweep asks the server that owns the runs, a run whose log() returned keeps all it
\* uploaded for as long as it is not deleted and no operator purges it.
THEOREM UploadsAreKept == "empty" \notin Servers => (Spec => []LoggedIsIntact)
<1> SUFFICES ASSUME "empty" \notin Servers PROVE Spec => []LoggedIsIntact
  OBVIOUS
<1>1. IInv => LoggedIsIntact
  BY DEF IInv, LogOrder, OrderOf, UploadsStay, UploadsOf, LoggedIsIntact, Usable
<1> QED
  BY <1>1, Inductive, PTL
-----------------------------------------------------------------------------
(* Foreign data. *)

\* Producers and operators write under their own run's prefix, the janitor condemns runs only.
LEMMA NextForeign ==
    ASSUME TypeOK, SweepOrder, [Next]_vars, NEW p \in Foreign
    PROVE  objects'[p] = objects[p]
<1>t. /\ StoreTypeOK /\ JanitorTypeOK
      /\ p \in Prefixes /\ p \notin Runs /\ Runs \subseteq Prefixes
  BY StoreAssumption DEF TypeOK, Prefixes, StoreAssumption
<1>1. ASSUME NEW r \in Runs, LogStep(r) PROVE objects'[p] = objects[p]
  <2>1. \/ objects' = objects
        \/ \E a \in Artifacts : PutObject(r, a)
        \/ \E gone : DeleteObjects(r, gone)
    BY <1>1 DEF LogStep, LogCall, Reject, CreateRun, PlanUploads, PlanFails, Upload,
           UploadsDone, LogContent, NoContent, SetUri, SetFinished, FinalizeCall, CleanList,
           CleanBatch, CleanDone, FailRun, Crash, storeVars, DeleteRound
  <2> QED
    BY <1>t, <2>1, PutPresent, DeletePresent DEF Keys
<1>2. ASSUME NEW r \in Runs, OpStep(r) PROVE objects'[p] = objects[p]
  <2>1. \/ objects' = objects
        \/ PutObject(r, Marker)
        \/ \E gone : DeleteObjects(r, gone)
    BY <1>2 DEF OpStep, OpCall, Resolve, Purge, BlobsPurged, RetireAbsent, OpCrash, UiDelete,
           HardDelete, Hold, PurgeList, PurgeBatch, Retire, storeVars, DeleteRound
  <2> QED
    BY <1>t, <2>1, PutPresent, DeletePresent DEF Keys
<1>3. CASE JanitorNext
  <2>1. jpc = "deleting" => current.prefix \in Runs
    BY <1>t DEF SweepOrder, Stopped, Condemned, JanitorTypeOK
  <2> QED
    BY <1>3, <1>t, <2>1, JanitorFrame, DeletePresent DEF JanitorNext
<1>4. CASE TimeNext \/ UNCHANGED vars
  BY <1>4 DEF TimeNext, Tick, vars, storeVars
<1> QED
  BY <1>1, <1>2, <1>3, <1>4 DEF Next, ProducerNext, OperatorNext

\* Data no producer wrote is never touched, whatever server a sweep talks to and whatever it
\* answers.
THEOREM ForeignIsSafe == Spec => []ForeignIsLeftAlone
<1>1. Init => ForeignIsLeftAlone
  BY StoreAssumption DEF Init, StoreInit, ForeignIsLeftAlone, Prefixes, StoreAssumption
<1>2. TypeOK /\ SweepOrder /\ ForeignIsLeftAlone /\ [Next]_vars => ForeignIsLeftAlone'
  BY NextForeign DEF ForeignIsLeftAlone
<1> QED
  BY <1>1, <1>2, OrderInvariant, PTL DEF Spec

-----------------------------------------------------------------------------
(* What never comes back. *)

\* A run that is being retired is not retained again.
LEMMA RetiredStays ==
    ASSUME TypeOK, [Next]_vars, NEW q \in Runs
    PROVE  /\ runs[q].deleted => runs'[q].deleted
           /\ PurgeBegun(q) => PurgeBegun(q)'
<1>t. /\ StoreTypeOK /\ OpTypeOK /\ runs \in [Runs -> RunRecord] /\ runs[q] \in RunRecord
      /\ ops \in [Runs -> OpRecord]
  BY DEF TypeOK, StoreTypeOK, OpTypeOK
<1>1. ASSUME NEW r \in Runs, LogStep(r) PROVE runs[q].deleted => runs'[q].deleted
  <2>1. \/ runs' = runs
        \/ runs' = [runs EXCEPT ![r].status = "RUNNING"]
        \/ runs' = [runs EXCEPT ![r].content = TRUE]
        \/ runs' = [runs EXCEPT ![r].status = "FAILED"]
        \/ Writable(r) /\ \E updated : runs' = [runs EXCEPT ![r] = updated]
    BY <1>1 DEF LogStep, LogCall, Reject, CreateRun, PlanUploads, PlanFails, Upload,
                UploadsDone, LogContent, NoContent, SetUri, SetFinished, FinalizeCall,
                CleanList, CleanBatch, CleanDone, FailRun, Crash, storeVars
  <2> QED
    BY <1>t, <2>1 DEF Writable, RunRecord
<1>2. ASSUME NEW r \in Runs, OpStep(r) PROVE runs[q].deleted => runs'[q].deleted
  <2>1. \/ runs' = runs
        \/ runs' = [runs EXCEPT ![r].deleted = TRUE]
        \/ runs' = [runs EXCEPT ![r].status = "ABSENT"]
    BY <1>2
       DEF OpStep, OpCall, Resolve, Purge, BlobsPurged, RetireAbsent, OpCrash, UiDelete,
           HardDelete, Hold, PurgeList, PurgeBatch, Retire, SoftDeleteRun, storeVars
  <2> QED
    BY <1>t, <2>1 DEF RunRecord
<1>3. ASSUME NEW r \in Runs, OpStep(r) PROVE PurgeBegun(q) => PurgeBegun(q)'
  <2>1. CASE q # r
    BY <1>3, <1>t, <2>1, OpFrame DEF PurgeBegun
  <2>2. CASE q = r
    <3>1. ASSUME NEW pc, OpStops(q, pc) PROVE ops'[q].pc = pc
      BY <1>t, <3>1 DEF OpStops, OpRecord
    <3>2. \/ ops[q].pc \in {"idle", "resolved"}
          \/ ops' = ops
          \/ \E batch \in SUBSET Keys : ops' = [ops EXCEPT ![q].keys = @ \ batch]
          \/ ops'[q].pc \in {"listing", "deleting", "retiring", "purged", "kept", "raised"}
      BY <1>3, <1>t, <2>2, <3>1
         DEF OpStep, OpCall, Resolve, Purge, BlobsPurged, RetireAbsent, OpCrash,
             UiDelete, HardDelete, Hold, PurgeList, PurgeBatch, Retire, OpRecord
    <3> QED
      BY <1>t, <3>2 DEF PurgeBegun, OpRecord
  <2> QED
    BY <2>1, <2>2
<1>4. ASSUME runs' = runs PROVE runs[q].deleted => runs'[q].deleted
  BY <1>4
<1>5. ASSUME ops' = ops PROVE PurgeBegun(q) => PurgeBegun(q)'
  BY <1>5 DEF PurgeBegun
<1> QED
  BY <1>1, <1>2, <1>3, <1>4, <1>5, JanitorFrame
     DEF Next, ProducerNext, JanitorNext, OperatorNext, TimeNext, Tick, vars, storeVars

\* Failures are counted, never forgotten.
LEMMA FaultsGrow ==
    ASSUME TypeOK, [Next]_vars
    PROVE  faults' = 0 => faults = 0
<1>t. faults \in Nat
  BY DEF TypeOK, StoreTypeOK
<1>s. ASSUME NEW o, Spend(o) PROVE faults' = 0 => faults = 0
  BY <1>s, <1>t DEF Spend
<1>c. ASSUME SpendCrash PROVE faults' = 0 => faults = 0
  BY <1>c, <1>t DEF SpendCrash
<1>1. ASSUME NEW r \in Runs, LogStep(r)
      PROVE  UNCHANGED faults \/ SpendCrash \/ \E o : Spend(o)
  BY <1>1 DEF LogStep, LogCall, Reject, CreateRun, PlanUploads, PlanFails, Upload,
              UploadsDone, LogContent, NoContent, SetUri, SetFinished, FinalizeCall,
              CleanList, CleanBatch, CleanDone, FailRun, Crash, DeleteRound, storeVars
<1>2. ASSUME JanitorStep PROVE UNCHANGED faults \/ SpendCrash \/ \E o : Spend(o)
  BY <1>2 DEF JanitorStep, JanitorCall, StartSome, StartSweep, ListAliases, ListAlias, Listed,
              Scan, Classify, Scanned, ListOrphan, DeleteBatchOf, OrphanPurged, SweepDone,
              JanitorCrash, DeleteRound, storeVars
<1>3. ASSUME NEW r \in Runs, OpStep(r)
      PROVE  UNCHANGED faults \/ SpendCrash \/ \E o : Spend(o)
  BY <1>3
     DEF OpStep, OpCall, Resolve, Purge, BlobsPurged, RetireAbsent, OpCrash, UiDelete,
         HardDelete, Hold, PurgeList, PurgeBatch, Retire, DeleteRound, storeVars
<1> QED
  BY <1>s, <1>c, <1>1, <1>2, <1>3
     DEF Next, ProducerNext, JanitorNext, OperatorNext, TimeNext, Tick, vars, storeVars
=============================================================================
