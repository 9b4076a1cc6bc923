--------------------------- MODULE Platform_proofs ---------------------------
(* Proofs about Platform, for every value of its constants. *)
EXTENDS Platform, TLAPS

-----------------------------------------------------------------------------
(* What the calls on the two services keep. *)

\* The outcome of a call stays within the budget of faults.
LEMMA SpendType ==
    ASSUME faults \in 0..MaxFaults, NEW o, Spend(o)
    PROVE  faults' \in 0..MaxFaults
BY StoreAssumption DEF Spend, StoreAssumption

\* A crash stays within the budget of faults.
LEMMA CrashType ==
    ASSUME faults \in 0..MaxFaults, SpendCrash
    PROVE  faults' \in 0..MaxFaults
BY StoreAssumption DEF SpendCrash, StoreAssumption

\* A put leaves objects with times.
LEMMA PutType ==
    ASSUME StoreTypeOK, NEW p \in Prefixes, NEW k \in Keys, PutObject(p, k)
    PROVE  objects' \in [Prefixes -> [Keys -> {Missing} \cup (0..MaxClock)]]
BY DEF PutObject, StoreTypeOK

\* A deletion leaves objects with times.
LEMMA DeleteType ==
    ASSUME StoreTypeOK, NEW p \in Prefixes, NEW gone, DeleteObjects(p, gone)
    PROVE  objects' \in [Prefixes -> [Keys -> {Missing} \cup (0..MaxClock)]]
BY DEF DeleteObjects, StoreTypeOK

\* A round of delete_prefix leaves objects with times and the budget kept.
LEMMA RoundType ==
    ASSUME StoreTypeOK, NEW p \in Prefixes, NEW batch, NEW gone, NEW o,
           DeleteRound(p, batch, gone, o)
    PROVE  /\ objects' \in [Prefixes -> [Keys -> {Missing} \cup (0..MaxClock)]]
           /\ faults' \in 0..MaxFaults
BY SpendType, DeleteType DEF DeleteRound, StoreTypeOK

\* A soft-deleted run is a run still.
LEMMA SoftDeleteType ==
    ASSUME runs \in [Runs -> RunRecord], NEW r \in Runs, SoftDeleteRun(r)
    PROVE  runs' \in [Runs -> RunRecord]
BY DEF SoftDeleteRun, RunRecord, Statuses

-----------------------------------------------------------------------------
(* Type correctness. *)

\* The initial states are typed.
LEMMA InitType == Init => TypeOK
BY StoreAssumption
   DEF Init, TypeOK, StoreInit, LogInit, JanitorInit, OpInit, StoreTypeOK, LogTypeOK,
       JanitorTypeOK, OpTypeOK, StoreAssumption, RunRecord, Statuses, LogRecord, LogPCs,
       JanitorPCs, OpRecord, OpPCs, NoSweep, Nothing, NoCurrent, EmptyReport, SweepReport, Keys, Prefixes

\* A step of log() keeps the types of the store and its own.
LEMMA LogStepType ==
    ASSUME StoreTypeOK, LogTypeOK, NEW r \in Runs, LogStep(r)
    PROVE  StoreTypeOK' /\ LogTypeOK'
<1> USE DEF LogTypeOK, LogRecord, LogPCs
<1>s. r \in Prefixes
  BY DEF Prefixes
<1>1. CASE Reject(r)
  BY <1>1 DEF Reject, GoTo, StoreTypeOK, storeVars
<1>2. ASSUME NEW o \in Outcomes, CreateRun(r, o) PROVE StoreTypeOK' /\ LogTypeOK'
  <2>1. runs' \in [Runs -> RunRecord]
    BY <1>2 DEF CreateRun, StoreTypeOK, RunRecord, Statuses
  <2>2. LogTypeOK'
    BY <1>2 DEF CreateRun, GoTo
  <2> QED
    BY <1>2, <2>1, <2>2, SpendType DEF CreateRun, StoreTypeOK
<1>3. ASSUME NEW plan \in SUBSET Artifacts, PlanUploads(r, plan) PROVE StoreTypeOK' /\ LogTypeOK'
  <2>1. StoreTypeOK'
    BY <1>3 DEF PlanUploads, StoreTypeOK, storeVars
  <2>2. LogTypeOK'
    BY <1>3 DEF PlanUploads
  <2> QED
    BY <2>1, <2>2
<1>4. CASE PlanFails(r)
  BY <1>4 DEF PlanFails, GoTo, StoreTypeOK, storeVars
<1>5. ASSUME NEW o \in Outcomes, NEW a \in Artifacts, Upload(r, a, o)
      PROVE  StoreTypeOK' /\ LogTypeOK'
  <2>1. objects' \in [Prefixes -> [Keys -> {Missing} \cup (0..MaxClock)]]
    BY <1>5, <1>s, PutType DEF Upload, StoreTypeOK, Keys
  <2>2. LogTypeOK'
    BY <1>5 DEF Upload
  <2> QED
    BY <1>5, <2>1, <2>2, SpendType DEF Upload, StoreTypeOK
<1>6. CASE UploadsDone(r)
  BY <1>6 DEF UploadsDone, GoTo, StoreTypeOK, storeVars
<1>7. ASSUME NEW o \in Outcomes, NEW updated \in RunRecord, NEW next \in LogPCs,
             FinalizeCall(r, o, updated, next)
      PROVE  StoreTypeOK' /\ LogTypeOK'
  <2>1. runs' \in [Runs -> RunRecord]
    BY <1>7 DEF FinalizeCall, StoreTypeOK
  <2>2. LogTypeOK'
    BY <1>7 DEF FinalizeCall, GoTo
  <2>3. faults' \in 0..MaxFaults
    BY <1>7, SpendType DEF FinalizeCall, StoreTypeOK
  <2> QED
    BY <1>7, <2>1, <2>2, <2>3 DEF FinalizeCall, StoreTypeOK
<1>8. /\ [runs[r] EXCEPT !.content = TRUE] \in RunRecord
      /\ [runs[r] EXCEPT !.uri = TRUE] \in RunRecord
      /\ [runs[r] EXCEPT !.status = "FINISHED"] \in RunRecord
  BY ZenonT(60) DEF StoreTypeOK, RunRecord, Statuses
<1>9. ASSUME NEW o \in Outcomes, LogContent(r, o) \/ SetUri(r, o) \/ SetFinished(r, o)
      PROVE  StoreTypeOK' /\ LogTypeOK'
  BY <1>7, <1>8, <1>9 DEF LogContent, SetUri, SetFinished
<1>10. CASE NoContent(r)
  <2>1. runs' \in [Runs -> RunRecord]
    BY <1>10 DEF NoContent, StoreTypeOK, RunRecord, Statuses
  <2>2. LogTypeOK'
    BY <1>10 DEF NoContent, GoTo
  <2> QED
    BY <1>10, <2>1, <2>2 DEF NoContent, StoreTypeOK
<1>11. ASSUME NEW o \in Outcomes, CleanList(r, o) PROVE StoreTypeOK' /\ LogTypeOK'
  <2>1. LogTypeOK'
    BY <1>11, ZenonT(60) DEF CleanList, Present
  <2> QED
    BY <1>11, <2>1, SpendType DEF CleanList, StoreTypeOK
<1>12. ASSUME NEW o \in Outcomes, NEW batch \in SUBSET Keys, NEW gone \in SUBSET batch,
              CleanBatch(r, batch, gone, o)
       PROVE  StoreTypeOK' /\ LogTypeOK'
  <2>1. LogTypeOK'
    BY <1>12 DEF CleanBatch
  <2> QED
    BY <1>12, <1>s, <2>1, RoundType DEF CleanBatch, StoreTypeOK
<1>13. CASE CleanDone(r)
  BY <1>13 DEF CleanDone, GoTo, StoreTypeOK, storeVars
<1>14. ASSUME NEW o \in Outcomes, FailRun(r, o) PROVE StoreTypeOK' /\ LogTypeOK'
  <2>1. runs' \in [Runs -> RunRecord]
    BY <1>14 DEF FailRun, StoreTypeOK, RunRecord, Statuses
  <2>2. LogTypeOK'
    BY <1>14 DEF FailRun, GoTo
  <2>3. faults' \in 0..MaxFaults
    BY <1>14, SpendType DEF FailRun, StoreTypeOK
  <2> QED
    BY <1>14, <2>1, <2>2, <2>3 DEF FailRun, StoreTypeOK
<1>15. CASE Crash(r)
  BY <1>15, CrashType, ZenonT(60) DEF Crash, StoreTypeOK
<1> QED
  BY <1>1, <1>2, <1>3, <1>4, <1>5, <1>6, <1>9, <1>10, <1>11, <1>12, <1>13, <1>14, <1>15
     DEF LogStep, LogCall

\* Stop resets everything but the report that a finished sweep returns.
LEMMA StopType ==
    ASSUME JanitorTypeOK, NEW pc \in {"done", "aborted", "tripped", "raised"}, Stop(pc)
    PROVE  JanitorTypeOK'
<1>1. EmptyReport \in SweepReport
  BY DEF EmptyReport, SweepReport
<1>2. NoSweep \in [apply : BOOLEAN, server : {"owner", "empty"}, now : 0..MaxClock]
  BY StoreAssumption DEF NoSweep, StoreAssumption
<1>3. /\ Nothing \in [aliases : SUBSET Aliases, prefixes : SUBSET Prefixes]
      /\ NoCurrent \in [prefix : Prefixes \cup {NoPrefix}, marker : BOOLEAN, silent : BOOLEAN]
  BY DEF Nothing, NoCurrent
<1> QED
  BY <1>1, <1>2, <1>3 DEF Stop, JanitorTypeOK, JanitorPCs

\* Filing a prefix under one more list of a report.
LEMMA ReportGrows ==
    ASSUME NEW rep \in SweepReport, NEW p \in Prefixes
    PROVE  /\ [rep EXCEPT !.scanned = @ \cup {p}] \in SweepReport
           /\ [rep EXCEPT !.recent = @ \cup {p}] \in SweepReport
           /\ [rep EXCEPT !.foreign = @ \cup {p}] \in SweepReport
           /\ [rep EXCEPT !.orphans = @ \cup {p}] \in SweepReport
           /\ [rep EXCEPT !.kept = @ \cup {p}] \in SweepReport
           /\ [rep EXCEPT !.stale = @ \cup {p}] \in SweepReport
           /\ [rep EXCEPT !.purged = @ \cup {p}] \in SweepReport
BY DEF SweepReport

\* A step of the janitor keeps the types of the store and its own.
LEMMA JanitorStepType ==
    ASSUME StoreTypeOK, JanitorTypeOK, JanitorStep
    PROVE  StoreTypeOK' /\ JanitorTypeOK'
<1>0. /\ "listing" \in JanitorPCs /\ "aliases" \in JanitorPCs /\ "scanning" \in JanitorPCs
      /\ "classify" \in JanitorPCs /\ "purging" \in JanitorPCs /\ "deleting" \in JanitorPCs
      /\ "done" \in JanitorPCs /\ "aborted" \in JanitorPCs /\ "tripped" \in JanitorPCs
      /\ "raised" \in JanitorPCs
  BY DEF JanitorPCs
<1>1. ASSUME NEW o \in Outcomes, NEW apply \in ApplyModes, NEW server \in Servers,
             StartSweep(apply, server, o)
      PROVE  StoreTypeOK' /\ JanitorTypeOK'
  <2>1. CASE Raised(o)
    BY <1>0, <1>1, <2>1, StopType, SpendType DEF StartSweep, StoreTypeOK
  <2>2. CASE ~Raised(o)
    BY <1>0, <1>1, <2>2, SpendType, JanitorAssumption
       DEF StartSweep, StoreTypeOK, JanitorTypeOK, JanitorAssumption, EmptyReport, SweepReport
  <2> QED
    BY <2>1, <2>2
<1>2. ASSUME NEW o \in Outcomes, ListAliases(o) PROVE StoreTypeOK' /\ JanitorTypeOK'
  <2>1. {AliasOf[p] : p \in Occupied} \in SUBSET Aliases
    BY StoreAssumption DEF StoreAssumption, Occupied
  <2> QED
    BY <1>0, <1>2, <2>1, StopType, SpendType DEF ListAliases, StoreTypeOK, JanitorTypeOK
<1>3. ASSUME NEW o \in Outcomes, NEW a \in Aliases, ListAlias(a, o)
      PROVE  StoreTypeOK' /\ JanitorTypeOK'
  BY <1>0, <1>3, StopType, SpendType DEF ListAlias, StoreTypeOK, JanitorTypeOK, Occupied
<1>4. CASE Listed
  BY <1>0, <1>4 DEF Listed, StoreTypeOK, JanitorTypeOK, storeVars
<1>5. ASSUME NEW o \in Outcomes, NEW p \in Prefixes, Scan(p, o)
      PROVE  StoreTypeOK' /\ JanitorTypeOK'
  <2>1. StoreTypeOK'
    BY <1>5, SpendType DEF Scan, StoreTypeOK
  <2>2. CASE Raised(o)
    BY <1>5, <2>1, <2>2, StopType DEF Scan
  <2>3. CASE ~Raised(o)
    <3>1. HasMarker(p) \in BOOLEAN /\ Silent(p) \in BOOLEAN
      BY DEF HasMarker, Silent
    <3>2. report' \in SweepReport
      <4> DEFINE counted == [report EXCEPT !.scanned = @ \cup {p}]
      <4>1. \/ report' = counted
            \/ report' = [counted EXCEPT !.recent = @ \cup {p}]
            \/ report' = [counted EXCEPT !.foreign = @ \cup {p}]
        BY <1>5, <2>3 DEF Scan, ScanVerdict, Skip
      <4>2. counted \in SweepReport
        BY ReportGrows DEF JanitorTypeOK
      <4> HIDE DEF counted
      <4> QED
        BY <4>1, <4>2, ReportGrows
    <3>3. \/ UNCHANGED <<jpc, current>> /\ jpc = "scanning"
          \/ /\ jpc' = "classify"
             /\ current' = [prefix |-> p, marker |-> HasMarker(p), silent |-> Silent(p)]
      BY <1>5, <2>3 DEF Scan, ScanVerdict, Skip
    <3>4. /\ current' \in [prefix : Prefixes \cup {NoPrefix}, marker : BOOLEAN, silent : BOOLEAN]
          /\ jpc' \in JanitorPCs
          /\ jpc' \in {"classify", "deleting"} => current'.prefix \in Prefixes
      BY <1>0, <3>1, <3>3 DEF JanitorTypeOK
    <3>5. /\ UNCHANGED <<sweep, doomed>>
          /\ pending' = [pending EXCEPT !.prefixes = @ \ {p}]
      BY <1>5, <2>3 DEF Scan, ScanVerdict, Skip
    <3> QED
      BY <1>5, <2>1, <3>2, <3>4, <3>5 DEF StoreTypeOK, JanitorTypeOK
  <2> QED
    BY <2>2, <2>3
<1>6. ASSUME NEW o \in Outcomes, Classify(o)
      PROVE  StoreTypeOK' /\ JanitorTypeOK'
  <2>1. CASE Raised(o)
    BY <1>0, <1>6, <2>1, StopType, SpendType DEF Classify, StoreTypeOK
  <2>2. CASE ~Raised(o)
    <3> DEFINE p == current.prefix
    <3>1. p \in Prefixes
      BY <1>6 DEF Classify, JanitorTypeOK
    <3>2. PICK filed : /\ \/ filed = report
                          \/ filed = [report EXCEPT !.kept = @ \cup {p}]
                          \/ filed = [report EXCEPT !.orphans = @ \cup {p}]
                          \/ filed = [report EXCEPT !.stale = @ \cup {p}]
                       /\ File(filed)
      BY <1>6, <2>2 DEF Classify, Disposition
    <3> HIDE DEF p
    <3>3. filed \in SweepReport
      <4>1. report \in SweepReport
        BY DEF JanitorTypeOK
      <4>2. /\ [report EXCEPT !.kept = @ \cup {p}] \in SweepReport
            /\ [report EXCEPT !.orphans = @ \cup {p}] \in SweepReport
            /\ [report EXCEPT !.stale = @ \cup {p}] \in SweepReport
        BY <3>1, <4>1, ReportGrows
      <4> QED
        BY <3>2, <4>1, <4>2
    <3>4. StoreTypeOK'
      BY <1>6, SpendType DEF Classify, StoreTypeOK
    <3> QED
      BY <1>0, <3>2, <3>3, <3>4 DEF File, JanitorTypeOK, NoCurrent
  <2> QED
    BY <2>1, <2>2
<1>7. CASE Scanned
  <2>1. CASE \E pc \in {"done", "tripped"} : Stop(pc)
    BY <1>7, <2>1, StopType DEF Scanned, StoreTypeOK, storeVars
  <2>2. CASE ~\E pc \in {"done", "tripped"} : Stop(pc)
    BY <1>0, <1>7, <2>2 DEF Scanned, StoreTypeOK, JanitorTypeOK, storeVars
  <2> QED
    BY <2>1, <2>2
<1>8. ASSUME NEW o \in Outcomes, NEW p \in Prefixes, ListOrphan(p, o)
      PROVE  StoreTypeOK' /\ JanitorTypeOK'
  <2>1. StoreTypeOK'
    BY <1>8, SpendType DEF ListOrphan, StoreTypeOK
  <2>2. CASE Raised(o)
    BY <1>8, <2>1, <2>2, StopType DEF ListOrphan
  <2>3. CASE ~Raised(o)
    BY <1>0, <1>8, <2>1, <2>3 DEF ListOrphan, JanitorTypeOK, NoCurrent, Present
  <2> QED
    BY <2>2, <2>3
<1>9. ASSUME NEW o \in Outcomes, NEW batch \in SUBSET Keys, NEW gone \in SUBSET batch,
             DeleteBatchOf(batch, gone, o)
      PROVE  StoreTypeOK' /\ JanitorTypeOK'
  <2>1. StoreTypeOK'
    BY <1>9, RoundType DEF DeleteBatchOf, StoreTypeOK, JanitorTypeOK
  <2>2. CASE Raised(o)
    BY <1>9, <2>1, <2>2, StopType DEF DeleteBatchOf
  <2>3. CASE ~Raised(o)
    BY <1>9, <2>1, <2>3 DEF DeleteBatchOf, JanitorTypeOK
  <2> QED
    BY <2>2, <2>3
<1>10. CASE OrphanPurged
  <2>1. report' \in SweepReport
    BY <1>10 DEF OrphanPurged, JanitorTypeOK, SweepReport
  <2> QED
    BY <1>0, <1>10, <2>1 DEF OrphanPurged, StoreTypeOK, JanitorTypeOK, storeVars, NoCurrent
<1>11. CASE SweepDone
  BY <1>11, StopType DEF SweepDone, StoreTypeOK, storeVars
<1>12. CASE JanitorCrash
  BY <1>12, StopType, CrashType DEF JanitorCrash, StoreTypeOK
<1> QED
  BY <1>1, <1>2, <1>3, <1>4, <1>5, <1>6, <1>7, <1>8, <1>9, <1>10, <1>11, <1>12
     DEF JanitorStep, StartSome, JanitorCall

\* A step of the operator keeps the types of the store and its own.
LEMMA OpStepType ==
    ASSUME StoreTypeOK, OpTypeOK, NEW r \in Runs, OpStep(r)
    PROVE  StoreTypeOK' /\ OpTypeOK'
<1> USE DEF OpTypeOK, OpRecord, OpPCs
<1>s. r \in Prefixes
  BY DEF Prefixes
<1>0. ASSUME NEW pc \in OpPCs, OpStops(r, pc) PROVE OpTypeOK'
  BY <1>0, ZenonT(60) DEF OpStops
<1>1. CASE Resolve(r)
  <2>1. runs[r].uri \in BOOLEAN
    BY DEF StoreTypeOK, RunRecord
  <2>2. ops' = [ops EXCEPT ![r] = [ops[r] EXCEPT !.pc = "resolved", !.uri = runs[r].uri]]
    BY <1>1 DEF Resolve
  <2>3. OpTypeOK'
    BY <2>1, <2>2
  <2> QED
    BY <1>1, <2>3 DEF Resolve, StoreTypeOK, storeVars
<1>2. ASSUME NEW retire \in BOOLEAN, Purge(r, retire) PROVE StoreTypeOK' /\ OpTypeOK'
  <2>1. PICK pc \in {"listing", "retiring"} :
          ops' = [ops EXCEPT ![r] = [ops[r] EXCEPT !.pc = pc, !.retire = retire]]
    BY <1>2 DEF Purge
  <2>2. OpTypeOK'
    BY <2>1
  <2> QED
    BY <1>2, <2>2 DEF Purge, StoreTypeOK, storeVars
<1>3. CASE BlobsPurged(r)
  <2>1. OpTypeOK'
    BY <1>0, <1>3 DEF BlobsPurged
  <2> QED
    BY <1>3, <2>1 DEF BlobsPurged, StoreTypeOK, storeVars
<1>4. CASE RetireAbsent(r)
  BY <1>0, <1>4, SpendType DEF RetireAbsent, StoreTypeOK
<1>5. CASE OpCrash(r)
  BY <1>0, <1>5, CrashType DEF OpCrash, StoreTypeOK
<1>6. CASE UiDelete(r)
  BY <1>6, SoftDeleteType DEF UiDelete, StoreTypeOK
<1>7. CASE HardDelete(r)
  <2>1. runs' \in [Runs -> RunRecord]
    BY <1>7 DEF HardDelete, StoreTypeOK, RunRecord, Statuses
  <2> QED
    BY <1>7, <2>1 DEF HardDelete, StoreTypeOK
<1>8. ASSUME NEW o \in Outcomes, Hold(r, o) PROVE StoreTypeOK' /\ OpTypeOK'
  <2>1. objects' \in [Prefixes -> [Keys -> {Missing} \cup (0..MaxClock)]]
    BY <1>8, <1>s, PutType DEF Hold, StoreTypeOK, Keys
  <2> QED
    BY <1>8, <2>1, SpendType DEF Hold, StoreTypeOK
<1>9. ASSUME NEW o \in Outcomes, PurgeList(r, o) PROVE StoreTypeOK' /\ OpTypeOK'
  <2>1. OpTypeOK'
    BY <1>0, <1>9 DEF PurgeList, Present
  <2> QED
    BY <1>9, <2>1, SpendType DEF PurgeList, StoreTypeOK
<1>10. ASSUME NEW o \in Outcomes, NEW batch \in SUBSET Keys, NEW gone \in SUBSET batch,
              PurgeBatch(r, batch, gone, o)
       PROVE  StoreTypeOK' /\ OpTypeOK'
  <2>1. OpTypeOK'
    BY <1>0, <1>10 DEF PurgeBatch
  <2> QED
    BY <1>10, <1>s, <2>1, RoundType DEF PurgeBatch, StoreTypeOK
<1>11. ASSUME NEW o \in Outcomes, Retire(r, o) PROVE StoreTypeOK' /\ OpTypeOK'
  BY <1>0, <1>11, SpendType, SoftDeleteType DEF Retire, StoreTypeOK
<1> QED
  BY <1>1, <1>2, <1>3, <1>4, <1>5, <1>6, <1>7, <1>8, <1>9, <1>10, <1>11 DEF OpStep, OpCall

\* Every step of the platform keeps all types.
LEMMA NextType == TypeOK /\ [Next]_vars => TypeOK'
<1> SUFFICES ASSUME TypeOK, [Next]_vars PROVE TypeOK'
  OBVIOUS
<1> USE DEF TypeOK
<1>1. CASE ProducerNext
  <2>1. StoreTypeOK' /\ LogTypeOK'
    BY <1>1, LogStepType DEF ProducerNext
  <2> QED
    BY <1>1, <2>1 DEF ProducerNext, JanitorTypeOK, OpTypeOK, janitorVars
<1>2. CASE JanitorNext
  BY <1>2, JanitorStepType DEF JanitorNext, LogTypeOK, OpTypeOK
<1>3. CASE OperatorNext
  <2>1. StoreTypeOK' /\ OpTypeOK'
    BY <1>3, OpStepType DEF OperatorNext
  <2> QED
    BY <1>3, <2>1 DEF OperatorNext, LogTypeOK, JanitorTypeOK, janitorVars
<1>4. CASE TimeNext
  BY <1>4, StoreAssumption
     DEF TimeNext, Tick, StoreTypeOK, LogTypeOK, JanitorTypeOK, OpTypeOK, janitorVars,
         StoreAssumption
<1>5. CASE UNCHANGED vars
  BY <1>5 DEF vars, storeVars, janitorVars, StoreTypeOK, LogTypeOK, JanitorTypeOK, OpTypeOK
<1> QED
  BY <1>1, <1>2, <1>3, <1>4, <1>5 DEF Next

\* Every variable keeps its shape: whatever is called, fails or crashes, no process leaves the
\* control points of its code, and a prefix being classified or deleted is one of the bucket's.
THEOREM TypeCorrect == Spec => []TypeOK
<1> QED
  BY InitType, NextType, PTL DEF Spec
=============================================================================
