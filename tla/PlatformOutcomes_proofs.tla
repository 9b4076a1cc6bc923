----------------------- MODULE PlatformOutcomes_proofs -----------------------
(***************************************************************************)
(* What becomes of runs, for every value of the constants: Platform        *)
(* implements RunLifecycle when every sweep asks the tracking server that  *)
(* owns the runs; and how calls end: clean failures, complete purges,      *)
(* caught misconfigurations.                                               *)
(***************************************************************************)
EXTENDS PlatformSafety_proofs, FiniteSetTheorems


-----------------------------------------------------------------------------
(* Plans. *)

\* What the call of r itself does to its plan.
LEMMA LogStepPlans ==
    ASSUME StoreTypeOK, LogTypeOK, NEW r \in Runs, LogStep(r),
           log[r].left \subseteq log[r].plan,
           log[r].pc \in {"idle", "planning"} => BlobsOf(r) = {}
    PROVE  /\ log'[r].left \subseteq log'[r].plan
           /\ log'[r].pc \in {"idle", "planning"} => BlobsOf(r)' = {}
<1>t. log \in [Runs -> LogRecord] /\ log[r] \in LogRecord
  BY DEF LogTypeOK
<1>1. log'[r].left \subseteq log'[r].plan
  BY <1>t
     DEF LogStep, LogCall, Reject, CreateRun, PlanUploads, PlanFails, Upload, UploadsDone,
         LogContent, NoContent, SetUri, SetFinished, FinalizeCall, CleanList, CleanBatch,
         CleanDone, FailRun, Crash, GoTo, LogRecord
<1>2. ASSUME log'[r].pc \in {"idle", "planning"}
      PROVE  log[r].pc \in {"idle", "planning"} /\ objects' = objects
  BY <1>t, <1>2
     DEF LogStep, LogCall, Reject, CreateRun, PlanUploads, PlanFails, Upload, UploadsDone,
         LogContent, NoContent, SetUri, SetFinished, FinalizeCall, CleanList, CleanBatch,
         CleanDone, FailRun, Crash, GoTo, LogRecord, storeVars
<1> QED
  BY <1>1, <1>2 DEF BlobsOf, Present

\* Operators and the janitor add no artifact.
LEMMA OthersAddNothing ==
    ASSUME TypeOK, NEW q \in Runs, JanitorNext \/ OperatorNext \/ TimeNext \/ UNCHANGED vars
    PROVE  BlobsOf(q)' \subseteq BlobsOf(q)
<1>t. StoreTypeOK /\ JanitorTypeOK /\ OpTypeOK /\ q \in Prefixes /\ Marker \in Keys
  BY DEF TypeOK, Prefixes, Keys
<1>1. CASE objects' = objects
  BY <1>1 DEF BlobsOf, Present
<1>2. ASSUME NEW p \in Prefixes, NEW gone, DeleteObjects(p, gone)
      PROVE  BlobsOf(q)' \subseteq BlobsOf(q)
  <2>1. Present(q)' \subseteq Present(q)
    BY <1>2, <1>t, DeletePresent
  <2> QED
    BY <2>1 DEF BlobsOf
<1>3. ASSUME NEW r \in Runs, PutObject(r, Marker) PROVE BlobsOf(q)' \subseteq BlobsOf(q)
  <2>1. Present(q)' \subseteq Present(q) \cup {Marker}
    BY <1>3, <1>t, PutPresent DEF Prefixes
  <2> QED
    BY <2>1 DEF BlobsOf
<1>4. CASE JanitorNext
  BY <1>1, <1>2, <1>4, <1>t, JanitorFrame DEF JanitorNext, JanitorTypeOK
<1>5. ASSUME NEW r \in Runs, OpStep(r) PROVE BlobsOf(q)' \subseteq BlobsOf(q)
  <2>1. \/ objects' = objects
        \/ PutObject(r, Marker)
        \/ \E gone : DeleteObjects(r, gone)
    BY <1>5 DEF OpStep, OpCall, Resolve, Purge, BlobsPurged, RetireAbsent, OpCrash, UiDelete,
         HardDelete, Hold, PurgeList, PurgeBatch, Retire, storeVars, DeleteRound
  <2> QED
    BY <1>1, <1>2, <1>3, <2>1 DEF Prefixes
<1> QED
  BY <1>1, <1>4, <1>5 DEF OperatorNext, TimeNext, Tick, vars, storeVars

\* Every step keeps what is left to upload within the plan, and none uploads before there is one.
LEMMA PlansInductive ==
    ASSUME TypeOK, PlansHold, [Next]_vars
    PROVE  PlansHold'
<1> SUFFICES ASSUME NEW q \in Runs
             PROVE  /\ log'[q].left \subseteq log'[q].plan
                    /\ log'[q].pc \in {"idle", "planning"} => BlobsOf(q)' = {}
  BY DEF PlansHold
<1>t. /\ StoreTypeOK /\ LogTypeOK
      /\ log[q].left \subseteq log[q].plan
      /\ log[q].pc \in {"idle", "planning"} => BlobsOf(q) = {}
  BY DEF TypeOK, PlansHold
<1>1. ASSUME NEW r \in Runs, LogStep(r)
      PROVE  /\ log'[q].left \subseteq log'[q].plan
             /\ log'[q].pc \in {"idle", "planning"} => BlobsOf(q)' = {}
  <2>1. CASE q = r
    BY <1>1, <1>t, <2>1, LogStepPlans
  <2>2. CASE q # r
    BY <1>1, <1>t, <2>2, LogFrame DEF BlobsOf
  <2> QED
    BY <2>1, <2>2
<1>2. CASE JanitorNext \/ OperatorNext \/ TimeNext \/ UNCHANGED vars
  <2>1. log' = log
    BY <1>2 DEF JanitorNext, OperatorNext, TimeNext, vars
  <2> QED
    BY <1>2, <1>t, <2>1, OthersAddNothing
<1> QED
  BY <1>1, <1>2 DEF Next, ProducerNext

\* Before log() begins nothing is planned and nothing uploaded.
LEMMA PlansInit == Init => PlansHold
<1> SUFFICES ASSUME Init, NEW r \in Runs
             PROVE  log[r].left \subseteq log[r].plan /\ BlobsOf(r) = {}
  BY DEF PlansHold
<1>1. log[r].left \subseteq log[r].plan
  BY DEF Init, LogInit
<1>2. r \in Prefixes /\ r \notin Foreign
  BY StoreAssumption DEF Prefixes, StoreAssumption
<1>3. BlobsOf(r) = {}
  BY <1>2 DEF Init, StoreInit, BlobsOf, Present
<1> QED
  BY <1>1, <1>3
-----------------------------------------------------------------------------
(* How the life of one run moves. *)

\* Nothing of the life of r changes.
Same(r) == /\ PhaseOf(r)' = PhaseOf(r)
           /\ PlanOf(r)' = PlanOf(r)
           /\ BlobsOf(r)' = BlobsOf(r)

\* Only its phase does.
Becomes(r, phase) == /\ PhaseOf(r)' = phase
                     /\ PlanOf(r)' = PlanOf(r)
                     /\ BlobsOf(r)' = BlobsOf(r)

\* The steps of RunLifecycle, about one run.
Moves(r) ==
    \/ PhaseOf(r) = "unknown" /\ \E p \in {"writing", "retired", "abandoned"} : Becomes(r, p)
    \/ PhaseOf(r) = "writing" /\ PlanOf(r) \subseteq BlobsOf(r) /\ Becomes(r, "published")
    \/ PhaseOf(r) \in {"writing", "failing"} /\ Becomes(r, "abandoned")
    \/ PhaseOf(r) # "unknown" /\ Becomes(r, "retired")
    \/ /\ PhaseOf(r) = "writing" /\ BlobsOf(r) = {}
       /\ PhaseOf(r)' = PhaseOf(r) /\ BlobsOf(r)' = BlobsOf(r)
       /\ PlanOf(r)' \in SUBSET Artifacts
    \/ /\ PhaseOf(r) = "writing"
       /\ PhaseOf(r)' = PhaseOf(r) /\ PlanOf(r)' = PlanOf(r)
       /\ \E a \in PlanOf(r) : BlobsOf(r)' = BlobsOf(r) \cup {a}
    \/ /\ PhaseOf(r) = "writing"
       /\ PhaseOf(r)' = "failing" /\ PlanOf(r)' = PlanOf(r)
       /\ \/ BlobsOf(r)' = BlobsOf(r)
          \/ \E a \in PlanOf(r) : BlobsOf(r)' = BlobsOf(r) \cup {a}
    \/ /\ PhaseOf(r) = "failing"
       /\ PhaseOf(r)' = PhaseOf(r) /\ PlanOf(r)' = PlanOf(r)
       /\ BlobsOf(r)' \in SUBSET BlobsOf(r)
    \/ /\ PhaseOf(r) = "retired"
       /\ PhaseOf(r)' = PhaseOf(r)
       /\ PlanOf(r)' \in SUBSET Artifacts
       /\ BlobsOf(r)' \in SUBSET Artifacts

\* The phase of a run says where its log() is and whether it is retired, and the other way round.
LEMMA PhaseCases ==
    ASSUME NEW r \in Runs
    PROVE  /\ log[r].pc = "idle" <=> PhaseOf(r) = "unknown"
           /\ log[r].pc # "idle" /\ (Dead(r) \/ PurgeBegun(r)) <=> PhaseOf(r) = "retired"
           /\ ~(Dead(r) \/ PurgeBegun(r)) =>
                /\ log[r].pc = "returned" => PhaseOf(r) = "published"
                /\ log[r].pc \in {"cleanlist", "clean", "fail"} => PhaseOf(r) = "failing"
                /\ log[r].pc \in {"raised", "crashed"} => PhaseOf(r) = "abandoned"
                /\ log[r].pc \in {"planning", "uploading", "content", "uri", "finish"}
                      => PhaseOf(r) = "writing"
BY DEF PhaseOf

\* A retired run stays retired, and its blobs are anybody's.
LEMMA RetiredMoves ==
    ASSUME TypeOK, TypeOK', LogOrder, [Next]_vars, NEW r \in Runs, PhaseOf(r) = "retired"
    PROVE  Moves(r)
<1>1. log[r].pc # "idle" /\ (Dead(r) \/ PurgeBegun(r))
  BY PhaseCases
<1>2. log'[r].pc # "idle"
  BY <1>1, LogBegun
<1>3. (Dead(r) \/ PurgeBegun(r))'
  BY <1>1, DeadStays, RetiredStays
<1>4. PhaseOf(r)' = "retired"
  BY <1>2, <1>3 DEF PhaseOf
<1>5. PlanOf(r)' \subseteq Artifacts /\ BlobsOf(r)' \subseteq Artifacts
  <2>1. log'[r] \in LogRecord
    BY DEF TypeOK, LogTypeOK
  <2> QED
    BY <2>1 DEF PlanOf, BlobsOf, LogRecord, Present, Keys
<1> QED
  BY <1>4, <1>5 DEF Moves

\* The log() call of a run that is not retired.
LEMMA LogMoves ==
    ASSUME TypeOK, LogOrder, UploadsStay, PlansHold, "empty" \notin Servers,
           NEW r \in Runs, LogStep(r), UNCHANGED <<janitorVars, ops>>, PhaseOf(r) # "retired"
    PROVE  Same(r) \/ Moves(r)
<1>t. /\ StoreTypeOK /\ LogTypeOK /\ OrderOf(r) /\ UploadsOf(r)
      /\ runs \in [Runs -> RunRecord] /\ runs[r] \in RunRecord
      /\ log \in [Runs -> LogRecord] /\ log[r] \in LogRecord
      /\ r \in Prefixes
  BY DEF TypeOK, StoreTypeOK, LogTypeOK, LogOrder, UploadsStay, Prefixes
<1>p. PurgeBegun(r)' <=> PurgeBegun(r)
  BY DEF PurgeBegun
<1>q. log[r].pc # "idle" => ~Dead(r) /\ ~PurgeBegun(r)
  BY PhaseCases
\* A step that changes neither the run nor the bucket moves the phase as it moves the call.
<1>g. ASSUME NEW pc, log'[r].pc = pc, log'[r].plan = log[r].plan, log[r].pc # "idle",
             runs'[r] = runs[r], pc # "idle"
      PROVE  /\ PlanOf(r)' = PlanOf(r)
             /\ pc = "returned" => PhaseOf(r)' = "published"
             /\ pc \in {"cleanlist", "clean", "fail"} => PhaseOf(r)' = "failing"
             /\ pc \in {"raised", "crashed"} => PhaseOf(r)' = "abandoned"
             /\ pc \in {"planning", "uploading", "content", "uri", "finish"}
                   => PhaseOf(r)' = "writing"
  <2>1. ~Dead(r)' /\ ~PurgeBegun(r)'
    BY <1>g, <1>p, <1>q DEF Dead
  <2> QED
    BY <1>g, <2>1 DEF PhaseOf, PlanOf
<1>1. CASE Reject(r)
  <2>1. log'[r].pc = "raised" /\ log'[r].plan = log[r].plan /\ log[r].pc = "idle"
    BY <1>1, <1>t DEF Reject, GoTo, LogRecord
  <2>2. runs' = runs /\ objects' = objects
    BY <1>1 DEF Reject, storeVars
  <2>3. PhaseOf(r)' = "retired" /\ PhaseOf(r) = "unknown"
    BY <1>t, <2>1, <2>2 DEF PhaseOf, Dead, OrderOf
  <2> QED
    BY <2>1, <2>2, <2>3 DEF Moves, Becomes, PlanOf, BlobsOf, Present
<1>2. ASSUME NEW o \in Outcomes, CreateRun(r, o) PROVE Moves(r)
  <2>1. /\ log'[r].pc \in {"raised", "planning"} /\ log'[r].plan = log[r].plan
        /\ log[r].pc = "idle"
    BY <1>2, <1>t DEF CreateRun, GoTo, LogRecord
  <2>2. objects' = objects
    BY <1>2 DEF CreateRun
  <2>3. PhaseOf(r)' \in {"retired", "abandoned", "writing"} /\ PhaseOf(r) = "unknown"
    BY <2>1 DEF PhaseOf
  <2> QED
    BY <2>1, <2>2, <2>3 DEF Moves, Becomes, PlanOf, BlobsOf, Present
<1>3. ASSUME NEW plan \in SUBSET Artifacts, PlanUploads(r, plan) PROVE Moves(r)
  <2>1. /\ log'[r].pc = "uploading" /\ log'[r].plan = plan
        /\ log[r].pc = "planning"
    BY <1>3, <1>t DEF PlanUploads
  <2>2. runs' = runs /\ objects' = objects
    BY <1>3 DEF PlanUploads, storeVars
  <2>3. PhaseOf(r) = "writing" /\ PhaseOf(r)' = "writing"
    BY <1>p, <1>q, <2>1, <2>2 DEF PhaseOf, Dead
  <2>4. BlobsOf(r) = {} /\ BlobsOf(r)' = BlobsOf(r)
    BY <2>1, <2>2 DEF PlansHold, BlobsOf, Present
  <2> QED
    BY <2>1, <2>3, <2>4 DEF Moves, PlanOf
<1>4. CASE PlanFails(r)
  <2>1. log'[r].pc = "cleanlist" /\ log'[r].plan = log[r].plan /\ log[r].pc = "planning"
    BY <1>4, <1>t DEF PlanFails, GoTo, LogRecord
  <2>2. runs' = runs /\ objects' = objects
    BY <1>4 DEF PlanFails, storeVars
  <2> QED
    BY <1>g, <1>q, <2>1, <2>2, PhaseCases DEF Moves, BlobsOf, Present
<1>5. ASSUME NEW a \in Artifacts, NEW o \in Outcomes, Upload(r, a, o) PROVE Moves(r) \/ Same(r)
  <2>1. /\ log'[r].pc \in {"uploading", "cleanlist"} /\ log'[r].plan = log[r].plan
        /\ log[r].pc = "uploading" /\ a \in log[r].left
    BY <1>5, <1>t DEF Upload, LogRecord
  <2>2. runs' = runs /\ (objects' = objects \/ PutObject(r, a))
    BY <1>5 DEF Upload
  <2>3. BlobsOf(r)' = BlobsOf(r) \/ BlobsOf(r)' = BlobsOf(r) \cup {a}
    <3>1. CASE objects' = objects
      BY <3>1 DEF BlobsOf, Present
    <3>2. CASE PutObject(r, a)
      <4>1. Present(r)' = Present(r) \cup {a} /\ a # Marker
        BY <1>t, <3>2, PutPresent, StoreAssumption DEF Keys, StoreAssumption
      <4> QED
        BY <4>1 DEF BlobsOf
    <3> QED
      BY <2>2, <3>1, <3>2
  <2>4. a \in PlanOf(r)
    BY <2>1 DEF PlansHold, PlanOf
  <2>5. PhaseOf(r) = "writing" /\ PlanOf(r)' = PlanOf(r)
    BY <1>q, <2>1, PhaseCases DEF PlanOf
  <2>6. PhaseOf(r)' \in {"writing", "failing"}
    BY <1>g, <2>1, <2>2
  <2> QED
    BY <2>3, <2>4, <2>5, <2>6 DEF Moves, Same
<1>6. CASE UploadsDone(r)
  <2>1. log'[r].pc = "content" /\ log'[r].plan = log[r].plan /\ log[r].pc = "uploading"
    BY <1>6, <1>t DEF UploadsDone, GoTo, LogRecord
  <2>2. runs' = runs /\ objects' = objects
    BY <1>6 DEF UploadsDone, storeVars
  <2> QED
    BY <1>g, <1>q, <2>1, <2>2, PhaseCases DEF Same, BlobsOf, Present
\* finalize_run writes the run, not the bucket, and leaves it RUNNING until its last call.
<1>7. ASSUME log[r].pc \in {"content", "uri", "finish"}, log'[r].plan = log[r].plan,
             Present(r)' = Present(r), ~Dead(r)',
             log'[r].pc \in {"uri", "finish", "returned", "cleanlist"}
      PROVE  Same(r) \/ Moves(r)
  <2>1. ~PurgeBegun(r)' /\ PhaseOf(r) = "writing"
    BY <1>7, <1>p, <1>q, PhaseCases
  <2>2. PhaseOf(r)' \in {"writing", "published", "failing"}
    BY <1>7, <2>1 DEF PhaseOf
  <2>3. PlanOf(r) \subseteq BlobsOf(r)
    <3>1. log[r].plan \subseteq Present(r)
      BY <1>7, <1>q, <1>t DEF UploadsOf, Dead
    <3>2. Marker \notin log[r].plan
      BY <1>t, StoreAssumption DEF LogRecord, StoreAssumption
    <3> QED
      BY <3>1, <3>2 DEF PlanOf, BlobsOf
  <2>4. PlanOf(r)' = PlanOf(r) /\ BlobsOf(r)' = BlobsOf(r)
    BY <1>7 DEF PlanOf, BlobsOf
  <2> QED
    BY <2>1, <2>2, <2>3, <2>4 DEF Same, Moves, Becomes
<1>8. ASSUME NEW o \in Outcomes, LogContent(r, o) \/ SetUri(r, o) \/ SetFinished(r, o)
      PROVE  Same(r) \/ Moves(r)
  <2>1. /\ log[r].pc \in {"content", "uri", "finish"}
        /\ log'[r].plan = log[r].plan
        /\ Present(r)' = Present(r)
        /\ log'[r].pc \in {"uri", "finish", "returned", "cleanlist"}
    BY <1>8, <1>t, FinalizeEffect DEF LogContent, SetUri, SetFinished
  <2>2. /\ runs'[r].status \in {runs[r].status, "FINISHED"}
        /\ runs'[r].deleted = runs[r].deleted
    BY <1>8, <1>t, FinalizeEffect DEF LogContent, SetUri, SetFinished, RunRecord
  <2>3. ~Dead(r)'
    BY <1>q, <2>1, <2>2 DEF Dead
  <2> QED
    BY <1>7, <2>1, <2>3
<1>9. CASE NoContent(r)
  <2>1. log[r].pc = "content" /\ log'[r].plan = log[r].plan /\ log'[r].pc = "uri"
    BY <1>9, <1>t DEF NoContent, GoTo, LogRecord
  <2>2. Present(r)' = Present(r)
    BY <1>9 DEF NoContent, Present
  <2>3. ~Dead(r)'
    BY <1>9, <1>q, <1>t, <2>1 DEF NoContent, Dead, RunRecord
  <2> QED
    BY <1>7, <2>1, <2>2, <2>3
<1>10. ASSUME NEW o \in Outcomes, CleanList(r, o) PROVE Same(r) \/ Moves(r)
  <2>1. /\ log'[r].pc \in {"clean", "fail"} /\ log'[r].plan = log[r].plan
        /\ log[r].pc = "cleanlist"
    BY <1>10, <1>t DEF CleanList, LogRecord
  <2>2. runs' = runs /\ objects' = objects
    BY <1>10 DEF CleanList
  <2> QED
    BY <1>g, <1>q, <2>1, <2>2, PhaseCases DEF Same, BlobsOf, Present
<1>11. ASSUME NEW o \in Outcomes, NEW batch \in SUBSET Keys, NEW gone \in SUBSET batch,
              CleanBatch(r, batch, gone, o)
       PROVE  Same(r) \/ Moves(r)
  <2>1. /\ log'[r].pc \in {"clean", "fail"} /\ log'[r].plan = log[r].plan
        /\ log[r].pc = "clean"
    BY <1>11, <1>t DEF CleanBatch, LogRecord
  <2>2. runs' = runs /\ DeleteObjects(r, gone)
    BY <1>11 DEF CleanBatch, DeleteRound
  <2>3. BlobsOf(r)' \in SUBSET BlobsOf(r)
    <3>1. Present(r)' \subseteq Present(r)
      BY <1>t, <2>2, DeletePresent
    <3> QED
      BY <3>1 DEF BlobsOf
  <2>4. PhaseOf(r) = "failing" /\ PhaseOf(r)' = "failing" /\ PlanOf(r)' = PlanOf(r)
    BY <1>g, <1>q, <2>1, <2>2, PhaseCases
  <2> QED
    BY <2>3, <2>4 DEF Moves
<1>12. CASE CleanDone(r)
  <2>1. log'[r].pc = "fail" /\ log'[r].plan = log[r].plan /\ log[r].pc = "clean"
    BY <1>12, <1>t DEF CleanDone, GoTo, LogRecord
  <2>2. runs' = runs /\ objects' = objects
    BY <1>12 DEF CleanDone, storeVars
  <2> QED
    BY <1>g, <1>q, <2>1, <2>2, PhaseCases DEF Same, BlobsOf, Present
<1>13. ASSUME NEW o \in Outcomes, FailRun(r, o) PROVE Moves(r)
  <2>1. log'[r].pc = "raised" /\ log'[r].plan = log[r].plan /\ log[r].pc = "fail"
    BY <1>13, <1>t DEF FailRun, GoTo, LogRecord
  <2>2. objects' = objects
    BY <1>13 DEF FailRun
  <2>3. PhaseOf(r) = "failing" /\ PhaseOf(r)' \in {"retired", "abandoned"}
    BY <1>q, <2>1, PhaseCases DEF PhaseOf
  <2> QED
    BY <2>1, <2>2, <2>3 DEF Moves, Becomes, PlanOf, BlobsOf, Present
<1>14. CASE Crash(r)
  <2>1. /\ log'[r].pc = "crashed" /\ log'[r].plan = log[r].plan
        /\ log[r].pc \notin {"idle", "returned", "raised", "crashed"}
    BY <1>14, <1>t DEF Crash, LogRecord
  <2>2. runs' = runs /\ objects' = objects
    BY <1>14 DEF Crash
  <2>3. PhaseOf(r) \in {"writing", "failing"}
    BY <1>q, <1>t, <2>1, PhaseCases DEF LogRecord, LogPCs
  <2>4. PhaseOf(r)' = "abandoned" /\ PlanOf(r)' = PlanOf(r)
    BY <1>g, <2>1, <2>2
  <2> QED
    BY <2>2, <2>3, <2>4 DEF Moves, Becomes, BlobsOf, Present
<1> QED
  BY <1>1, <1>2, <1>3, <1>4, <1>5, <1>6, <1>8, <1>9, <1>10, <1>11, <1>12, <1>13, <1>14
     DEF LogStep, LogCall

\* An operator's work on a run that is not retired: at most it retires it.
LEMMA OpMoves ==
    ASSUME TypeOK, LogOrder, NEW r \in Runs, OpStep(r), UNCHANGED <<log, janitorVars>>,
           PhaseOf(r) # "retired"
    PROVE  Same(r) \/ Moves(r)
<1>t. /\ StoreTypeOK /\ OpTypeOK /\ OrderOf(r) /\ r \in Prefixes /\ Marker \in Keys
      /\ runs \in [Runs -> RunRecord] /\ runs[r] \in RunRecord /\ ops \in [Runs -> OpRecord]
  BY DEF TypeOK, StoreTypeOK, OpTypeOK, LogOrder, Prefixes, Keys
<1>1. PlanOf(r)' = PlanOf(r)
  BY DEF PlanOf
<1>2. BlobsOf(r)' = BlobsOf(r)
  <2>1. \/ objects' = objects
        \/ PutObject(r, Marker)
        \/ ops[r].pc = "deleting"
    BY DEF OpStep, OpCall, Resolve, Purge, BlobsPurged, RetireAbsent, OpCrash, UiDelete,
           HardDelete, Hold, PurgeList, PurgeBatch, Retire, storeVars
  <2>2. ops[r].pc # "deleting"
    BY <1>t, PhaseCases DEF PurgeBegun, OrderOf
  <2>3. PutObject(r, Marker) => Present(r)' = Present(r) \cup {Marker}
    BY <1>t, PutPresent
  <2> QED
    BY <2>1, <2>2, <2>3 DEF BlobsOf, Present
<1>3. CASE log[r].pc = "idle"
  <2>1. PhaseOf(r)' = "unknown" /\ PhaseOf(r) = "unknown"
    BY <1>3 DEF PhaseOf
  <2> QED
    BY <1>1, <1>2, <2>1 DEF Same
<1>4. CASE log[r].pc # "idle"
  <2>1. PhaseOf(r)' \in {PhaseOf(r), "retired"} /\ PhaseOf(r) # "unknown"
    BY <1>4 DEF PhaseOf
  <2> QED
    BY <1>1, <1>2, <2>1 DEF Same, Moves, Becomes
<1> QED
  BY <1>3, <1>4

\* The janitor leaves a run that is not retired alone.
LEMMA JanitorMoves ==
    ASSUME TypeOK, SweepOrder, "empty" \notin Servers, JanitorNext, NEW r \in Runs,
           PhaseOf(r) # "retired"
    PROVE  Same(r)
<1>1. /\ UNCHANGED <<runs, log, ops>>
      /\ \/ objects' = objects
         \/ jpc = "deleting" /\ \E gone : DeleteObjects(current.prefix, gone)
  BY JanitorFrame DEF JanitorNext
<1>2. PhaseOf(r)' = PhaseOf(r) /\ PlanOf(r)' = PlanOf(r)
  BY <1>1 DEF PhaseOf, PlanOf, Dead, PurgeBegun
<1>3. CASE objects' = objects
  BY <1>2, <1>3 DEF Same, BlobsOf, Present
<1>4. ASSUME jpc = "deleting", NEW gone, DeleteObjects(current.prefix, gone)
      PROVE  Same(r)
  <2>1. StoreTypeOK /\ current.prefix \in Prefixes /\ r \in Prefixes
    BY <1>4 DEF TypeOK, JanitorTypeOK, Prefixes
  <2>2. ~Stopped
    BY <1>4 DEF Stopped
  <2>3. sweep.server = "owner" /\ Condemned(current.prefix)
    BY <1>4, <2>2, JanitorAssumption DEF SweepOrder, JanitorAssumption
  <2>4. r # current.prefix
    BY <2>1, <2>2, <2>3, PhaseCases DEF SweepOrder
  <2>5. Present(r)' = Present(r)
    BY <1>4, <2>1, <2>4, DeletePresent
  <2> QED
    BY <1>2, <2>5 DEF Same, BlobsOf
<1> QED
  BY <1>1, <1>3, <1>4

\* Every step moves each run as RunLifecycle has it, or not at all.
LEMMA EveryRunMoves ==
    ASSUME IInv, PlansHold, IInv', [Next]_vars, "empty" \notin Servers, NEW r \in Runs
    PROVE  Same(r) \/ Moves(r)
<1>t. TypeOK /\ TypeOK' /\ LogOrder /\ SweepOrder /\ UploadsStay /\ StoreTypeOK /\ LogTypeOK /\ OpTypeOK
  BY DEF IInv, TypeOK
<1>0. CASE PhaseOf(r) = "retired"
  BY <1>0, <1>t, RetiredMoves
<1>1. ASSUME PhaseOf(r) # "retired", NEW q \in Runs, LogStep(q), UNCHANGED <<janitorVars, ops>>
      PROVE  Same(r) \/ Moves(r)
  <2>1. CASE q = r
    BY <1>1, <1>t, <2>1, LogMoves
  <2>2. CASE q # r
    BY <1>1, <1>t, <2>2, LogFrame
       DEF Same, PhaseOf, PlanOf, BlobsOf, Dead, PurgeBegun
  <2> QED
    BY <2>1, <2>2
<1>2. ASSUME PhaseOf(r) # "retired", NEW q \in Runs, OpStep(q), UNCHANGED <<log, janitorVars>>
      PROVE  Same(r) \/ Moves(r)
  <2>1. CASE q = r
    BY <1>2, <1>t, <2>1, OpMoves
  <2>2. CASE q # r
    BY <1>2, <1>t, <2>2, OpFrame
       DEF Same, PhaseOf, PlanOf, BlobsOf, Dead, PurgeBegun
  <2> QED
    BY <2>1, <2>2
<1>3. CASE PhaseOf(r) # "retired" /\ JanitorNext
  BY <1>3, <1>t, JanitorMoves
<1>4. CASE TimeNext \/ UNCHANGED vars
  BY <1>4 DEF TimeNext, Tick, vars, storeVars, Same, PhaseOf, PlanOf, BlobsOf, Dead, PurgeBegun,
              Present
<1> QED
  BY <1>0, <1>1, <1>2, <1>3, <1>4 DEF Next, ProducerNext, OperatorNext

\* A step is a step of one run.
LEMMA OneRunMoves ==
    ASSUME TypeOK, [Next]_vars, NEW r \in Runs, NEW s \in Runs, s # r, ~Same(r)
    PROVE  Same(s)
<1> USE DEF Same, PhaseOf, PlanOf, BlobsOf, Dead, PurgeBegun
<1>t. StoreTypeOK /\ LogTypeOK /\ OpTypeOK /\ JanitorTypeOK /\ r \in Prefixes /\ s \in Prefixes
  BY DEF TypeOK, Prefixes
<1>1. ASSUME NEW q \in Runs, LogStep(q), UNCHANGED <<janitorVars, ops>> PROVE Same(s)
  <2>1. q = r
    BY <1>1, <1>t, LogFrame
  <2> QED
    BY <1>1, <1>t, <2>1, LogFrame
<1>2. ASSUME NEW q \in Runs, OpStep(q), UNCHANGED <<log, janitorVars>> PROVE Same(s)
  <2>1. q = r
    BY <1>2, <1>t, OpFrame
  <2> QED
    BY <1>2, <1>t, <2>1, OpFrame
<1>3. CASE JanitorNext
  <2>1. UNCHANGED <<runs, log, ops>>
    BY <1>3, JanitorFrame DEF JanitorNext
  <2>2. Present(r)' # Present(r)
    BY <2>1
  <2>3. Present(s)' = Present(s)
    <3>1. PICK gone : DeleteObjects(current.prefix, gone) /\ jpc = "deleting"
      BY <1>3, <2>2, JanitorFrame DEF JanitorNext, Present
    <3>2. current.prefix \in Prefixes
      BY <1>t, <3>1 DEF JanitorTypeOK
    <3>3. current.prefix = r
      BY <1>t, <2>2, <3>1, <3>2, DeletePresent
    <3> QED
      BY <1>t, <3>1, <3>3, DeletePresent
  <2> QED
    BY <2>1, <2>3
<1>4. CASE TimeNext \/ UNCHANGED vars
  BY <1>4 DEF TimeNext, Tick, vars, storeVars, Present
<1> QED
  BY <1>1, <1>2, <1>3, <1>4 DEF Next, ProducerNext, OperatorNext
-----------------------------------------------------------------------------
(* The refinement. *)

\* A function that changes at one point only.
LEMMA OnePoint ==
    ASSUME NEW S, NEW r \in S, NEW f, NEW g,
           f = [s \in S |-> f[s]], g = [s \in S |-> g[s]],
           \A s \in S : s # r => g[s] = f[s]
    PROVE  g = [f EXCEPT ![r] = g[r]]
OBVIOUS

\* An initial state of the platform is one of RunLifecycle.
LEMMA LifeInitial == Init => Lifecycle!LifeInit
<1> SUFFICES ASSUME Init, NEW r \in Runs
             PROVE  PhaseOf(r) = "unknown" /\ PlanOf(r) = {} /\ BlobsOf(r) = {}
  BY DEF Lifecycle!LifeInit
<1>1. PhaseOf(r) = "unknown" /\ PlanOf(r) = {}
  BY DEF Init, LogInit, PhaseOf, PlanOf
<1> QED
  BY <1>1, PlansInit DEF PlansHold, Init, LogInit

\* Every step of the platform is a step of RunLifecycle, or changes nothing of it.
LEMMA LifeSteps ==
    ASSUME IInv, PlansHold, IInv', [Next]_vars, "empty" \notin Servers
    PROVE  [Lifecycle!LifeNext]_(Lifecycle!lifeVars)
<1> DEFINE ph == [r \in Runs |-> PhaseOf(r)]
           pl == [r \in Runs |-> PlanOf(r)]
           bl == [r \in Runs |-> BlobsOf(r)]
<1>1. CASE \A s \in Runs : Same(s)
  <2>1. ph' = ph /\ pl' = pl /\ bl' = bl
    BY <1>1 DEF Same
  <2> QED
    BY <2>1 DEF Lifecycle!lifeVars
<1>2. ASSUME NEW r \in Runs, ~Same(r) PROVE Lifecycle!LifeNext
  <2>1. \A s \in Runs : s # r => Same(s)
    BY <1>2, OneRunMoves DEF IInv
  <2>2. Moves(r)
    BY <1>2, EveryRunMoves
  <2>3. /\ ph[r] = PhaseOf(r) /\ ph'[r] = PhaseOf(r)'
        /\ pl[r] = PlanOf(r) /\ pl'[r] = PlanOf(r)'
        /\ bl[r] = BlobsOf(r) /\ bl'[r] = BlobsOf(r)'
    OBVIOUS
  <2>4. /\ ph' = [ph EXCEPT ![r] = PhaseOf(r)']
        /\ pl' = [pl EXCEPT ![r] = PlanOf(r)']
        /\ bl' = [bl EXCEPT ![r] = BlobsOf(r)']
    <3>1. \A s \in Runs : s # r => ph'[s] = ph[s] /\ pl'[s] = pl[s] /\ bl'[s] = bl[s]
      BY <2>1 DEF Same
    <3>2. /\ ph = [s \in Runs |-> ph[s]] /\ ph' = [s \in Runs |-> ph'[s]]
          /\ pl = [s \in Runs |-> pl[s]] /\ pl' = [s \in Runs |-> pl'[s]]
          /\ bl = [s \in Runs |-> bl[s]] /\ bl' = [s \in Runs |-> bl'[s]]
      OBVIOUS
    <3> HIDE DEF ph, pl, bl
    <3> QED
      BY <2>3, <3>1, <3>2, OnePoint
  <2>5. /\ PhaseOf(r)' = PhaseOf(r) => ph' = ph
        /\ PlanOf(r)' = PlanOf(r) => pl' = pl
        /\ BlobsOf(r)' = BlobsOf(r) => bl' = bl
    BY <2>1 DEF Same
  <2> HIDE DEF ph, pl, bl
  <2>6. Lifecycle!LifeStep(r)
    BY <2>2, <2>3, <2>4, <2>5, ZenonT(60)
       DEF ph, pl, bl, Moves, Becomes, Lifecycle!LifeStep, Lifecycle!Become, Lifecycle!Begin, Lifecycle!Publish,
           Lifecycle!Fail, Lifecycle!Abandon, Lifecycle!Retire, Lifecycle!Plan,
           Lifecycle!Write, Lifecycle!Clean, Lifecycle!Decay
  <2> QED
    BY <2>6 DEF Lifecycle!LifeNext
<1> QED
  BY <1>1, <1>2

\* When every sweep asks the tracking server that owns the runs, producers, sweeps and operators
\* together keep the promise RunLifecycle makes of every run.
THEOREM LifecycleIsKept == "empty" \notin Servers => (Spec => ImplementsLifecycle)
<1> SUFFICES ASSUME "empty" \notin Servers PROVE Spec => ImplementsLifecycle
  OBVIOUS
<1>1. Init => IInv /\ PlansHold /\ Lifecycle!LifeInit
  BY InitIsInductive, PlansInit, LifeInitial
<1>2. IInv /\ PlansHold /\ [Next]_vars => IInv' /\ PlansHold'
  BY StepIsInductive, PlansInductive DEF IInv
<1>3. IInv /\ PlansHold /\ IInv' /\ [Next]_vars => [Lifecycle!LifeNext]_(Lifecycle!lifeVars)
  BY LifeSteps
<1> QED
  BY <1>1, <1>2, <1>3, PTL DEF Spec, ImplementsLifecycle, Lifecycle!LifeSpec


-----------------------------------------------------------------------------
(* A log() that raises while every service answers leaves nothing. *)

\* The call of r itself, in a step without a failure.
LEMMA LogStepFailures ==
    ASSUME StoreTypeOK, LogTypeOK, NEW r \in Runs, OrderOf(r), LogStep(r), faults' = 0, faults = 0,
           log[r].pc = "clean" => BlobsOf(r) \subseteq log[r].keys,
           log[r].pc \in {"fail", "raised"} => BlobsOf(r) = {},
           log[r].pc = "raised" => Dead(r)
    PROVE  /\ log'[r].pc = "clean" => BlobsOf(r)' \subseteq log'[r].keys
           /\ log'[r].pc \in {"fail", "raised"} => BlobsOf(r)' = {}
           /\ log'[r].pc = "raised" => Dead(r)'
<1> DEFINE Good == /\ log'[r].pc = "clean" => BlobsOf(r)' \subseteq log'[r].keys
                   /\ log'[r].pc \in {"fail", "raised"} => BlobsOf(r)' = {}
                   /\ log'[r].pc = "raised" => Dead(r)'
<1>t. /\ runs \in [Runs -> RunRecord] /\ runs[r] \in RunRecord
      /\ log \in [Runs -> LogRecord] /\ log[r] \in LogRecord
      /\ r \in Prefixes
  BY DEF StoreTypeOK, LogTypeOK, Prefixes
<1>s. ASSUME NEW o \in Outcomes, Spend(o) PROVE o = "ok" /\ ~Raised(o) /\ Applied(o)
  BY <1>s DEF Spend, Raised, Applied, Outcomes
<1>g. ASSUME NEW pc, log'[r].pc = pc, pc \notin {"clean", "fail", "raised"} PROVE Good
  BY <1>g
<1>1. CASE Reject(r)
  <2>1. log'[r].pc = "raised" /\ log[r].pc = "idle"
    BY <1>1, <1>t DEF Reject, GoTo
  <2>2. runs' = runs /\ objects' = objects
    BY <1>1 DEF Reject, storeVars
  <2> QED
    BY <1>t, <2>1, <2>2 DEF OrderOf, Dead, BlobsOf, Present
<1>2. ASSUME NEW o \in Outcomes, CreateRun(r, o) PROVE Good
  <2>1. ~Raised(o)
    BY <1>2, <1>s DEF CreateRun
  <2>2. log'[r].pc = "planning"
    BY <1>2, <1>t, <2>1 DEF CreateRun, GoTo
  <2> QED
    BY <1>g, <2>2
<1>3. CASE \/ PlanFails(r) \/ UploadsDone(r) \/ NoContent(r)
           \/ \E plan \in SUBSET Artifacts : PlanUploads(r, plan)
  <2>1. ASSUME NEW plan \in SUBSET Artifacts, PlanUploads(r, plan)
        PROVE  log'[r].pc = "uploading"
    BY <1>t, <2>1 DEF PlanUploads
  <2>2. PlanFails(r) \/ UploadsDone(r) \/ NoContent(r)
          => log'[r].pc \in {"cleanlist", "content", "uri"}
    BY <1>t DEF PlanFails, UploadsDone, NoContent, GoTo, LogRecord
  <2>3. log'[r].pc \in {"cleanlist", "content", "uri", "uploading"}
    BY <1>3, <2>1, <2>2
  <2> QED
    BY <1>g, <2>3
<1>4. ASSUME NEW o \in Outcomes, NEW a \in Artifacts, Upload(r, a, o) PROVE Good
  <2>1. log'[r].pc \in {"uploading", "cleanlist"}
    BY <1>4, <1>t DEF Upload, LogRecord
  <2> QED
    BY <1>g, <2>1
<1>5. ASSUME NEW o \in Outcomes, LogContent(r, o) \/ SetUri(r, o) \/ SetFinished(r, o) PROVE Good
  <2>1. log'[r].pc \in {"uri", "finish", "returned", "cleanlist"}
    BY <1>5, <1>t, FinalizeEffect DEF LogContent, SetUri, SetFinished
  <2> QED
    BY <1>g, <2>1
<1>6. ASSUME NEW o \in Outcomes, CleanList(r, o) PROVE Good
  <2>1. ~Raised(o)
    BY <1>6, <1>s DEF CleanList
  <2>2. log'[r].pc = "clean" /\ log'[r].keys = Present(r) /\ objects' = objects
    BY <1>6, <1>t, <2>1 DEF CleanList
  <2> QED
    BY <2>2 DEF BlobsOf, Present
<1>7. ASSUME NEW o \in Outcomes, NEW batch \in SUBSET Keys, NEW gone \in SUBSET batch,
             CleanBatch(r, batch, gone, o)
      PROVE  Good
  <2>1. log[r].pc = "clean" /\ DeleteRound(r, batch, gone, o)
    BY <1>7 DEF CleanBatch
  <2>2. o = "ok" /\ ~Raised(o)
    BY <1>s, <2>1 DEF DeleteRound
  <2>3. gone = batch /\ DeleteObjects(r, gone)
    BY <2>1, <2>2 DEF DeleteRound
  <2>4. Present(r)' = Present(r) \ batch
    BY <1>t, <2>3, DeletePresent
  <2>5. log'[r].pc = "clean" /\ log'[r].keys = log[r].keys \ batch
    BY <1>7, <1>t, <2>2 DEF CleanBatch, LogRecord
  <2> QED
    BY <2>1, <2>4, <2>5 DEF BlobsOf
<1>8. CASE CleanDone(r)
  <2>1. log[r].pc = "clean" /\ log[r].keys = {} /\ log'[r].pc = "fail"
    BY <1>8, <1>t DEF CleanDone, GoTo
  <2>2. objects' = objects
    BY <1>8 DEF CleanDone, storeVars
  <2> QED
    BY <2>1, <2>2 DEF BlobsOf, Present
<1>9. ASSUME NEW o \in Outcomes, FailRun(r, o) PROVE Good
  <2>1. log[r].pc = "fail" /\ log'[r].pc = "raised" /\ objects' = objects
    BY <1>9, <1>t DEF FailRun, GoTo
  <2>2. Dead(r)'
    <3>1. CASE Writable(r)
      <4>1. Applied(o)
        BY <1>9, <1>s, <3>1 DEF FailRun
      <4>2. runs' = [runs EXCEPT ![r].status = "FAILED"]
        BY <1>9, <3>1, <4>1 DEF FailRun
      <4> QED
        BY <1>t, <4>2 DEF Dead, RunRecord
    <3>2. CASE ~Writable(r)
      BY <1>9, <3>2 DEF FailRun, Writable, Dead
    <3> QED
      BY <3>1, <3>2
  <2> QED
    BY <2>1, <2>2 DEF BlobsOf, Present
<1>10. CASE Crash(r)
  <2>1. log'[r].pc = "crashed"
    BY <1>10, <1>t DEF Crash
  <2> QED
    BY <1>g, <2>1
<1> QED
  BY <1>1, <1>2, <1>3, <1>4, <1>5, <1>6, <1>7, <1>8, <1>9, <1>10 DEF LogStep, LogCall

\* Every step keeps what the failure path knows while no call has failed.
LEMMA FailuresInductive ==
    ASSUME TypeOK, LogOrder, FailuresHold, [Next]_vars
    PROVE  FailuresHold'
<1> SUFFICES ASSUME faults' = 0, NEW q \in Runs
             PROVE  /\ log'[q].pc = "clean" => BlobsOf(q)' \subseteq log'[q].keys
                    /\ log'[q].pc \in {"fail", "raised"} => BlobsOf(q)' = {}
                    /\ log'[q].pc = "raised" => Dead(q)'
  BY DEF FailuresHold
<1>0. faults = 0
  BY FaultsGrow
<1>t. /\ StoreTypeOK /\ LogTypeOK /\ OrderOf(q)
      /\ log[q].pc = "clean" => BlobsOf(q) \subseteq log[q].keys
      /\ log[q].pc \in {"fail", "raised"} => BlobsOf(q) = {}
      /\ log[q].pc = "raised" => Dead(q)
  BY <1>0 DEF TypeOK, FailuresHold, LogOrder
<1>1. ASSUME NEW r \in Runs, LogStep(r)
      PROVE  /\ log'[q].pc = "clean" => BlobsOf(q)' \subseteq log'[q].keys
             /\ log'[q].pc \in {"fail", "raised"} => BlobsOf(q)' = {}
             /\ log'[q].pc = "raised" => Dead(q)'
  <2>1. CASE q = r
    BY <1>0, <1>1, <1>t, <2>1, LogStepFailures
  <2>2. CASE q # r
    BY <1>1, <1>t, <2>2, LogFrame DEF BlobsOf, Dead
  <2> QED
    BY <2>1, <2>2
<1>2. CASE JanitorNext \/ OperatorNext \/ TimeNext \/ UNCHANGED vars
  <2>1. log' = log
    BY <1>2 DEF JanitorNext, OperatorNext, TimeNext, vars
  <2>2. BlobsOf(q)' \subseteq BlobsOf(q)
    BY <1>2, OthersAddNothing
  <2>3. log[q].pc = "raised" => Dead(q)'
    BY <1>t, DeadStays
  <2> QED
    BY <1>t, <2>1, <2>2, <2>3
<1> QED
  BY <1>1, <1>2 DEF Next, ProducerNext

\* While no call fails and nobody crashes, a log() that raises leaves no artifact of its run, and
\* no run that still looks alive.
THEOREM FailuresAreClean == Spec => []CleanFailureLeavesNothing
<1>1. Init => FailuresHold
  BY DEF Init, LogInit, FailuresHold
<1>2. IInv /\ FailuresHold /\ [Next]_vars => FailuresHold'
  BY FailuresInductive DEF IInv
<1>3. FailuresHold => CleanFailureLeavesNothing
  BY DEF FailuresHold, CleanFailureLeavesNothing, BlobsOf
<1> QED
  BY <1>1, <1>2, <1>3, Inductive, PTL DEF Spec
-----------------------------------------------------------------------------
(* A purge that returns took everything. *)

\* The call of r itself: once artifacts_uri may be set, nothing more is uploaded.
LEMMA LogStepOver ==
    ASSUME StoreTypeOK, LogTypeOK, NEW r \in Runs, LogStep(r),
           runs[r].uri => WritesOver(r)
    PROVE  /\ WritesOver(r) => WritesOver(r)' /\ BlobsOf(r)' \subseteq BlobsOf(r)
           /\ runs'[r].uri => WritesOver(r)'
<1>t. /\ runs \in [Runs -> RunRecord] /\ runs[r] \in RunRecord
      /\ log \in [Runs -> LogRecord] /\ log[r] \in LogRecord
      /\ r \in Prefixes
  BY DEF StoreTypeOK, LogTypeOK, Prefixes
<1>1. WritesOver(r) => WritesOver(r)'
  BY <1>t
     DEF WritesOver, LogStep, LogCall, Reject, CreateRun, PlanUploads, PlanFails, Upload,
         UploadsDone, LogContent, NoContent, SetUri, SetFinished, FinalizeCall, CleanList,
         CleanBatch, CleanDone, FailRun, Crash, GoTo, LogRecord
<1>2. WritesOver(r) => BlobsOf(r)' \subseteq BlobsOf(r)
  <2>1. WritesOver(r) => objects' = objects \/ \E gone : DeleteObjects(r, gone)
    BY DEF WritesOver, LogStep, LogCall, Reject, CreateRun, PlanUploads, PlanFails, Upload,
           UploadsDone, LogContent, NoContent, SetUri, SetFinished, FinalizeCall, CleanList,
           CleanBatch, CleanDone, FailRun, Crash, storeVars, DeleteRound
  <2>2. ASSUME NEW gone, DeleteObjects(r, gone) PROVE Present(r)' \subseteq Present(r)
    BY <1>t, <2>2, DeletePresent
  <2> QED
    BY <2>1, <2>2 DEF BlobsOf, Present
<1>3. ASSUME runs'[r].uri, ~runs[r].uri PROVE WritesOver(r)'
  <2>1. PICK o \in Outcomes : SetUri(r, o)
    <3>1. \/ \E o \in Outcomes : SetUri(r, o)
          \/ runs'[r].uri = runs[r].uri
      BY <1>t
         DEF LogStep, LogCall, Reject, CreateRun, PlanUploads, PlanFails, Upload, UploadsDone,
             LogContent, NoContent, SetFinished, FinalizeCall, CleanList, CleanBatch, CleanDone,
             FailRun, Crash, storeVars, RunRecord
    <3> QED
      BY <1>3, <3>1
  <2>2. log'[r].pc \in {"finish", "cleanlist"}
    BY <1>t, <2>1, FinalizeEffect DEF SetUri
  <2> QED
    BY <2>2 DEF WritesOver
<1> QED
  BY <1>1, <1>2, <1>3

\* The operator's own work on r.
LEMMA OpStepOver ==
    ASSUME StoreTypeOK, OpTypeOK, NEW r \in Runs, OpStep(r), UNCHANGED log,
           BlobsOf(r)' \subseteq BlobsOf(r),
           runs[r].uri \/ ops[r].uri => WritesOver(r),
           ops[r].uri /\ ops[r].pc = "deleting" => BlobsOf(r) \subseteq ops[r].keys,
           ops[r].uri /\ ops[r].pc \in {"retiring", "purged", "kept"} => BlobsOf(r) = {}
    PROVE  /\ runs'[r].uri \/ ops'[r].uri => WritesOver(r)'
           /\ ops'[r].uri /\ ops'[r].pc = "deleting" => BlobsOf(r)' \subseteq ops'[r].keys
           /\ ops'[r].uri /\ ops'[r].pc \in {"retiring", "purged", "kept"} => BlobsOf(r)' = {}
<1> DEFINE Kept == /\ ops'[r].uri /\ ops'[r].pc = "deleting" => BlobsOf(r)' \subseteq ops'[r].keys
                   /\ ops'[r].uri /\ ops'[r].pc \in {"retiring", "purged", "kept"}
                         => BlobsOf(r)' = {}
<1>t. /\ runs \in [Runs -> RunRecord] /\ runs[r] \in RunRecord
      /\ ops \in [Runs -> OpRecord] /\ ops[r] \in OpRecord
      /\ r \in Prefixes
  BY DEF StoreTypeOK, OpTypeOK, Prefixes
<1>1. runs'[r].uri \/ ops'[r].uri => WritesOver(r)'
  <2>1. \/ runs' = runs
        \/ runs' = [runs EXCEPT ![r].deleted = TRUE]
        \/ runs' = [runs EXCEPT ![r].status = "ABSENT"]
    BY DEF OpStep, OpCall, Resolve, Purge, BlobsPurged, RetireAbsent, OpCrash, UiDelete,
           HardDelete, Hold, PurgeList, PurgeBatch, Retire, SoftDeleteRun, storeVars
  <2>2. runs'[r].uri = runs[r].uri
    BY <1>t, <2>1 DEF RunRecord
  <2>3. ASSUME NEW pc, OpStops(r, pc) PROVE ops'[r].uri = ops[r].uri
    BY <1>t, <2>3 DEF OpStops, OpRecord
  <2>4. \/ Resolve(r)
        \/ ops' = ops
        \/ \E pc : OpStops(r, pc)
        \/ \E pc : ops' = [ops EXCEPT ![r].pc = pc]
        \/ \E pc, retire : ops' = [ops EXCEPT ![r].pc = pc, ![r].retire = retire]
        \/ \E pc, keys : ops' = [ops EXCEPT ![r].pc = pc, ![r].keys = keys]
        \/ \E batch : ops' = [ops EXCEPT ![r].keys = @ \ batch]
    BY DEF OpStep, OpCall, Purge, BlobsPurged, RetireAbsent, OpCrash, UiDelete,
           HardDelete, Hold, PurgeList, PurgeBatch, Retire
  <2>5. Resolve(r) => ops'[r].uri = runs[r].uri
    BY <1>t DEF Resolve, OpRecord
  <2>6. ops'[r].uri \in {ops[r].uri, runs[r].uri}
    BY <1>t, <2>3, <2>4, <2>5 DEF OpRecord
  <2> QED
    BY <2>2, <2>6 DEF WritesOver
<1>k. SUFFICES Kept
  BY <1>1
<1>o. ASSUME NEW pc, OpStops(r, pc) PROVE ops'[r].pc = pc /\ ops'[r].uri = ops[r].uri
  BY <1>o, <1>t DEF OpStops, OpRecord
<1>2. CASE ops' = ops
  BY <1>2
<1>3. CASE Resolve(r)
  <2>1. ops'[r].pc = "resolved"
    BY <1>3, <1>t DEF Resolve, OpRecord
  <2> QED
    BY <2>1
<1>4. ASSUME NEW retire \in BOOLEAN, Purge(r, retire) PROVE Kept
  <2>1. /\ ops'[r].uri = ops[r].uri
        /\ ops'[r].pc \in {"listing", "retiring"}
        /\ ops[r].uri => ops'[r].pc = "listing"
    BY <1>4, <1>t DEF Purge, OpRecord
  <2> QED
    BY <2>1
<1>5. ASSUME NEW o \in Outcomes, PurgeList(r, o) PROVE Kept
  <2>1. CASE Raised(o)
    BY <1>5, <1>o, <2>1 DEF PurgeList
  <2>2. CASE ~Raised(o)
    <3>1. ops'[r].pc = "deleting" /\ ops'[r].keys = Present(r)
      BY <1>5, <1>t, <2>2 DEF PurgeList, OpRecord
    <3> QED
      BY <3>1 DEF BlobsOf
  <2> QED
    BY <2>1, <2>2
<1>6. ASSUME NEW o \in Outcomes, NEW batch \in SUBSET Keys, NEW gone \in SUBSET batch,
             PurgeBatch(r, batch, gone, o)
      PROVE  Kept
  <2>1. CASE Raised(o)
    BY <1>6, <1>o, <2>1 DEF PurgeBatch
  <2>2. CASE ~Raised(o)
    <3>1. /\ ops'[r].pc = "deleting" /\ ops[r].pc = "deleting" /\ ops'[r].uri = ops[r].uri
          /\ ops'[r].keys = ops[r].keys \ batch
      BY <1>6, <1>t, <2>2 DEF PurgeBatch, OpRecord
    <3>2. gone = batch /\ DeleteObjects(r, gone)
      BY <1>6, <2>2 DEF PurgeBatch, DeleteRound, Raised
    <3>3. Present(r)' = Present(r) \ batch
      BY <1>t, <3>2, DeletePresent
    <3> QED
      BY <3>1, <3>3 DEF BlobsOf
  <2> QED
    BY <2>1, <2>2
<1>7. CASE BlobsPurged(r)
  <2>1. ops[r].pc = "deleting" /\ ops[r].keys = {}
    BY <1>7 DEF BlobsPurged
  <2>2. ops'[r].uri = ops[r].uri /\ ops'[r].pc # "deleting"
    <3>1. CASE ops[r].retire
      BY <1>7, <1>t, <3>1 DEF BlobsPurged, OpRecord
    <3>2. CASE ~ops[r].retire
      BY <1>7, <1>o, <3>2 DEF BlobsPurged
    <3> QED
      BY <3>1, <3>2
  <2> QED
    BY <2>1, <2>2
<1>8. ASSUME NEW o \in Outcomes, Retire(r, o) PROVE Kept
  <2>1. ops[r].pc = "retiring" /\ (OpStops(r, "raised") \/ OpStops(r, "purged"))
    BY <1>8 DEF Retire
  <2> QED
    BY <1>o, <2>1
<1>9. CASE RetireAbsent(r)
  BY <1>9, <1>o DEF RetireAbsent
<1>10. CASE OpCrash(r)
  BY <1>10, <1>o DEF OpCrash
<1>11. CASE UiDelete(r) \/ HardDelete(r) \/ \E o \in Outcomes : Hold(r, o)
  BY <1>2, <1>11 DEF UiDelete, HardDelete, Hold
<1> QED
  BY <1>3, <1>4, <1>5, <1>6, <1>7, <1>8, <1>9, <1>10, <1>11 DEF OpStep, OpCall

\* Every step keeps what a purge knows: who has the uri comes after the last upload.
LEMMA PurgesInductive ==
    ASSUME TypeOK, PurgesHold, [Next]_vars
    PROVE  PurgesHold'
<1> SUFFICES ASSUME NEW q \in Runs
             PROVE  /\ runs'[q].uri \/ ops'[q].uri => WritesOver(q)'
                    /\ ops'[q].uri /\ ops'[q].pc = "deleting" => BlobsOf(q)' \subseteq ops'[q].keys
                    /\ ops'[q].uri /\ ops'[q].pc \in {"retiring", "purged", "kept"}
                          => BlobsOf(q)' = {}
  BY DEF PurgesHold
<1> DEFINE Kept == /\ runs'[q].uri \/ ops'[q].uri => WritesOver(q)'
                   /\ ops'[q].uri /\ ops'[q].pc = "deleting" => BlobsOf(q)' \subseteq ops'[q].keys
                   /\ ops'[q].uri /\ ops'[q].pc \in {"retiring", "purged", "kept"}
                         => BlobsOf(q)' = {}
<1>t. /\ StoreTypeOK /\ LogTypeOK /\ OpTypeOK
      /\ runs[q].uri \/ ops[q].uri => WritesOver(q)
      /\ ops[q].uri /\ ops[q].pc = "deleting" => BlobsOf(q) \subseteq ops[q].keys
      /\ ops[q].uri /\ ops[q].pc \in {"retiring", "purged", "kept"} => BlobsOf(q) = {}
  BY DEF TypeOK, PurgesHold
<1>1. ASSUME NEW r \in Runs, LogStep(r), UNCHANGED ops PROVE Kept
  <2>1. CASE q = r
    BY <1>1, <1>t, <2>1, LogStepOver
  <2>2. CASE q # r
    BY <1>1, <1>t, <2>2, LogFrame DEF BlobsOf, WritesOver
  <2> QED
    BY <2>1, <2>2
<1>2. ASSUME NEW r \in Runs, OpStep(r), UNCHANGED <<log, janitorVars>> PROVE Kept
  <2>1. CASE q = r
    <3>1. BlobsOf(q)' \subseteq BlobsOf(q)
      BY <1>2, OthersAddNothing DEF OperatorNext
    <3> QED
      BY <1>2, <1>t, <2>1, <3>1, OpStepOver
  <2>2. CASE q # r
    BY <1>2, <1>t, <2>2, OpFrame DEF BlobsOf, WritesOver
  <2> QED
    BY <2>1, <2>2
<1>3. CASE JanitorNext \/ TimeNext \/ UNCHANGED vars
  <2>1. runs' = runs /\ log' = log /\ ops' = ops
    BY <1>3, JanitorFrame DEF JanitorNext, TimeNext, Tick, vars, storeVars
  <2>2. BlobsOf(q)' \subseteq BlobsOf(q)
    BY <1>3, OthersAddNothing
  <2> QED
    BY <1>t, <2>1, <2>2 DEF WritesOver
<1> QED
  BY <1>1, <1>2, <1>3 DEF Next, ProducerNext, OperatorNext

\* A purge that returns, of a RunRef with an artifacts_uri, left no artifact of the run behind,
\* and none appears later.
THEOREM PurgesAreComplete == Spec => []PurgeIsComplete
<1>1. Init => PurgesHold
  BY DEF Init, StoreInit, OpInit, PurgesHold
<1>2. IInv /\ PurgesHold /\ [Next]_vars => PurgesHold'
  BY PurgesInductive DEF IInv
<1>3. PurgesHold => PurgeIsComplete
  BY DEF PurgesHold, PurgeIsComplete, BlobsOf
<1> QED
  BY <1>1, <1>2, <1>3, Inductive, PTL DEF Spec
-----------------------------------------------------------------------------
(* A sweep pointed at the wrong server is stopped by the breaker. *)

\* The verdict on a prefix takes it from those to scan and counts it once.
LEMMA ScanCounts ==
    ASSUME JanitorTypeOK, CountsHold, ~Stopped, NEW p \in pending.prefixes, jpc = "scanning",
           ScanVerdict(p), pending' = [pending EXCEPT !.prefixes = @ \ {p}]
    PROVE  CountsHold'
<1>t. pending \in [aliases : SUBSET Aliases, prefixes : SUBSET Prefixes] /\ report \in SweepReport
  BY DEF JanitorTypeOK
<1>1. report.scanned \cup {p} = report'.scanned
  BY <1>t DEF ScanVerdict, Skip, SweepReport
<1>2. /\ report'.recent \in {report.recent, report.recent \cup {p}}
      /\ report'.foreign \in {report.foreign, report.foreign \cup {p}}
      /\ report'.recent = report.recent \/ report'.foreign = report.foreign
      /\ jpc' \in {"scanning", "classify"}
  BY <1>t DEF ScanVerdict, Skip, SweepReport
<1>3. IsFiniteSet(report'.scanned)
  BY <1>1, FS_AddElement DEF CountsHold
<1>4. pending'.prefixes = pending.prefixes \ {p}
  BY <1>t
<1>5. p \notin report.scanned
  BY DEF CountsHold
<1>6. pending'.prefixes \cap report'.scanned = {}
  BY <1>1, <1>4 DEF CountsHold
<1>7. /\ report'.recent \cup report'.foreign \subseteq report'.scanned
      /\ report'.recent \cap report'.foreign = {}
  BY <1>1, <1>2, <1>5 DEF CountsHold
<1> QED
  BY <1>2, <1>3, <1>6, <1>7 DEF CountsHold

\* Every step keeps the counts of a sweep, and that one that purges has passed the breaker.
LEMMA CountsInductive ==
    ASSUME TypeOK, CountsHold, [Next]_vars
    PROVE  CountsHold'
<1>t. /\ JanitorTypeOK /\ report \in SweepReport
      /\ pending \in [aliases : SUBSET Aliases, prefixes : SUBSET Prefixes]
  BY DEF TypeOK, JanitorTypeOK
<1>s. ASSUME NEW pc \in {"done", "aborted", "tripped", "raised"}, Stop(pc) PROVE CountsHold'
  BY <1>s, StopEnds DEF CountsHold
\* A step that counts nothing.
<1>g. ASSUME ~Stopped, report'.scanned = report.scanned, report'.recent = report.recent,
             report'.foreign = report.foreign, pending' = pending,
             jpc' \in {"listing", "aliases"} => jpc \in {"listing", "aliases"},
             jpc' \in {"purging", "deleting"} => ~BreakerTrips'
      PROVE  CountsHold'
  BY <1>g DEF CountsHold
<1>b. ASSUME ~Stopped, jpc \in {"purging", "deleting"}, report'.scanned = report.scanned,
             report'.recent = report.recent, report'.foreign = report.foreign,
             report'.orphans = report.orphans
      PROVE  ~BreakerTrips'
  <2>1. ~BreakerTrips
    BY <1>b DEF CountsHold
  <2>2. Considered' = Considered
    BY <1>b DEF Considered
  <2> QED
    BY <1>b, <2>1, <2>2 DEF BreakerTrips
<1>1. ASSUME NEW apply, NEW server, NEW o \in Outcomes, StartSweep(apply, server, o)
      PROVE  CountsHold'
  <2>1. CASE Raised(o)
    BY <1>1, <1>s, <2>1 DEF StartSweep
  <2>2. CASE ~Raised(o)
    <3>1. jpc' = "listing" /\ report' = EmptyReport
      BY <1>1, <2>2 DEF StartSweep
    <3> QED
      BY <3>1, FS_EmptySet DEF CountsHold, EmptyReport
  <2> QED
    BY <2>1, <2>2
<1>2. ASSUME NEW o \in Outcomes, ListAliases(o) PROVE CountsHold'
  <2>1. CASE Raised(o)
    BY <1>2, <1>s, <2>1 DEF ListAliases
  <2>2. CASE ~Raised(o)
    <3>1. /\ jpc = "listing" /\ jpc' = "aliases" /\ report' = report
          /\ pending'.prefixes = pending.prefixes
      BY <1>2, <1>t, <2>2 DEF ListAliases
    <3> QED
      BY <3>1 DEF CountsHold, Stopped
  <2> QED
    BY <2>1, <2>2
<1>3. ASSUME NEW o \in Outcomes, NEW a \in Aliases, ListAlias(a, o) PROVE CountsHold'
  <2>1. CASE Raised(o)
    BY <1>3, <1>s, <2>1 DEF ListAlias
  <2>2. CASE ~Raised(o)
    <3>1. jpc = "aliases" /\ jpc' = jpc /\ report' = report
      BY <1>3, <2>2 DEF ListAlias
    <3>2. ~Stopped
      BY <3>1 DEF Stopped
    <3> QED
      BY <3>1, <3>2 DEF CountsHold
  <2> QED
    BY <2>1, <2>2
<1>4. CASE Listed
  <2>1. jpc = "aliases" /\ jpc' = "scanning" /\ UNCHANGED <<pending, report>>
    BY <1>4 DEF Listed
  <2> QED
    BY <1>g, <2>1 DEF Stopped
<1>5. ASSUME NEW o \in Outcomes, NEW p \in Prefixes, Scan(p, o) PROVE CountsHold'
  <2>1. CASE Raised(o)
    BY <1>5, <1>s, <2>1 DEF Scan
  <2>2. CASE ~Raised(o)
    BY <1>5, <1>t, <2>2, ScanCounts DEF Scan, Stopped
  <2> QED
    BY <2>1, <2>2
<1>6. ASSUME NEW o \in Outcomes, Classify(o) PROVE CountsHold'
  <2>1. CASE Raised(o)
    BY <1>6, <1>s, <2>1 DEF Classify
  <2>2. CASE ~Raised(o)
    <3>1. Disposition(current.prefix) /\ jpc = "classify"
      BY <1>6, <2>2 DEF Classify
    <3>2. /\ jpc' = "scanning" /\ pending' = pending
          /\ report'.scanned = report.scanned /\ report'.recent = report.recent
          /\ report'.foreign = report.foreign
      BY <1>t, <3>1 DEF Disposition, File, SweepReport
    <3> QED
      BY <1>g, <3>1, <3>2 DEF Stopped
  <2> QED
    BY <2>1, <2>2
<1>7. CASE Scanned
  <2>1. CASE ~sweep.apply
    BY <1>7, <1>s, <2>1 DEF Scanned
  <2>2. CASE sweep.apply /\ BreakerTrips
    BY <1>7, <1>s, <2>2 DEF Scanned
  <2>3. CASE sweep.apply /\ ~BreakerTrips
    <3>1. jpc = "scanning" /\ jpc' = "purging" /\ UNCHANGED <<pending, report>>
      BY <1>7, <2>3 DEF Scanned
    <3>2. ~BreakerTrips'
      BY <2>3, <3>1 DEF BreakerTrips, Considered
    <3> QED
      BY <1>g, <3>1, <3>2 DEF Stopped
  <2> QED
    BY <2>1, <2>2, <2>3
<1>8. ASSUME NEW o \in Outcomes, NEW p \in Prefixes, ListOrphan(p, o) PROVE CountsHold'
  <2>1. CASE Raised(o)
    BY <1>8, <1>s, <2>1 DEF ListOrphan
  <2>2. CASE ~Raised(o)
    <3>1. jpc = "purging" /\ jpc' = "deleting" /\ UNCHANGED <<pending, report>>
      BY <1>8, <2>2 DEF ListOrphan
    <3> QED
      BY <1>b, <1>g, <3>1 DEF Stopped
  <2> QED
    BY <2>1, <2>2
<1>9. ASSUME NEW o \in Outcomes, NEW batch, NEW gone, DeleteBatchOf(batch, gone, o)
      PROVE  CountsHold'
  <2>1. CASE Raised(o)
    BY <1>9, <1>s, <2>1 DEF DeleteBatchOf
  <2>2. CASE ~Raised(o)
    <3>1. jpc = "deleting" /\ UNCHANGED <<jpc, pending, report>>
      BY <1>9, <2>2 DEF DeleteBatchOf
    <3> QED
      BY <1>b, <1>g, <3>1 DEF Stopped
  <2> QED
    BY <2>1, <2>2
<1>10. CASE OrphanPurged
  <2>1. /\ jpc = "deleting" /\ jpc' = "purging" /\ pending' = pending
        /\ report'.scanned = report.scanned /\ report'.recent = report.recent
        /\ report'.foreign = report.foreign /\ report'.orphans = report.orphans
    BY <1>10, <1>t DEF OrphanPurged, SweepReport
  <2> QED
    BY <1>b, <1>g, <2>1 DEF Stopped
<1>11. CASE SweepDone
  BY <1>11, <1>s DEF SweepDone
<1>12. CASE JanitorCrash
  BY <1>12, <1>s DEF JanitorCrash
<1>13. CASE UNCHANGED janitorVars
  BY <1>13 DEF janitorVars, CountsHold, Stopped, BreakerTrips, Considered
<1> QED
  BY <1>1, <1>2, <1>3, <1>4, <1>5, <1>6, <1>7, <1>8, <1>9, <1>10, <1>11, <1>12, <1>13
     DEF Next, ProducerNext, JanitorNext, OperatorNext, TimeNext, vars, JanitorStep, JanitorCall, StartSome

\* With a breaker that lets less than everything through, a sweep that would purge all it
\* considered never starts to delete.
THEOREM BreakerCatchesMispointed ==
    OrphanNum < OrphanDen /\ MinScanned > 0 => (Spec => []MispointedIsCaught)
<1> SUFFICES ASSUME OrphanNum < OrphanDen, MinScanned > 0 PROVE Spec => []MispointedIsCaught
  OBVIOUS
<1>1. Init => CountsHold
  BY DEF Init, JanitorInit, CountsHold, Stopped
<1>2. IInv /\ CountsHold /\ [Next]_vars => CountsHold'
  BY CountsInductive DEF IInv
<1>3. CountsHold => MispointedIsCaught
  <2> DEFINE considered == report.scanned \ (report.recent \cup report.foreign)
  <2> SUFFICES ASSUME CountsHold, jpc \in {"purging", "deleting"},
                      Cardinality(considered) >= MinScanned, considered = report.orphans
               PROVE  FALSE
    BY DEF MispointedIsCaught
  <2>0. ~Stopped
    BY DEF Stopped
  <2>1. /\ IsFiniteSet(report.scanned) /\ IsFiniteSet(report.recent) /\ IsFiniteSet(report.foreign)
        /\ report.recent \subseteq report.scanned /\ report.foreign \subseteq report.scanned
        /\ report.recent \cap report.foreign = {}
    BY <2>0, FS_Subset DEF CountsHold
  <2>2. Cardinality(report.recent \cup report.foreign)
          = Cardinality(report.recent) + Cardinality(report.foreign)
    <3>1. Cardinality(report.recent \cap report.foreign) = 0
      BY <2>1, FS_EmptySet
    <3>2. Cardinality(report.recent) \in Nat /\ Cardinality(report.foreign) \in Nat
      BY <2>1, FS_CardinalityType
    <3>3. Cardinality(report.recent \cup report.foreign)
            = Cardinality(report.recent) + Cardinality(report.foreign)
                - Cardinality(report.recent \cap report.foreign)
      BY <2>1, FS_Union
    <3> QED
      BY <3>1, <3>2, <3>3
  <2>3. /\ IsFiniteSet(considered)
        /\ Cardinality(considered)
             = Cardinality(report.scanned) - Cardinality(report.recent \cup report.foreign)
    <3>1. report.scanned \cap (report.recent \cup report.foreign) = report.recent \cup report.foreign
      BY <2>1
    <3> QED
      BY <2>1, <3>1, FS_Difference
  <2>4. Cardinality(considered) = Considered
    <3>1. /\ Cardinality(report.recent) \in Nat /\ Cardinality(report.foreign) \in Nat
          /\ Cardinality(report.scanned) \in Nat
      BY <2>1, FS_CardinalityType
    <3> QED
      BY <2>2, <2>3, <3>1 DEF Considered
  <2>5. ~BreakerTrips
    BY <2>0 DEF CountsHold
  <2>6. Cardinality(considered) \in Nat
    BY <2>3, FS_CardinalityType
  <2> HIDE DEF considered
  <2>7. PICK c \in Nat : c = Cardinality(considered)
    BY <2>6
  <2>8. c >= MinScanned /\ ~(c * OrphanDen > OrphanNum * c)
    BY <2>4, <2>5, <2>7 DEF BreakerTrips
  <2>9. OrphanNum * c < c * OrphanDen
    BY <2>7, <2>8, JanitorAssumption DEF JanitorAssumption
  <2> QED
    BY <2>7, <2>8, <2>9, JanitorAssumption DEF JanitorAssumption
<1> QED
  BY <1>1, <1>2, <1>3, Inductive, PTL DEF Spec
=============================================================================
