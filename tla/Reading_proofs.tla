---------------------------- MODULE Reading_proofs ----------------------------
(***************************************************************************)
(* For every number of runs, artifacts, failures and readers' calls: who   *)
(* reads a retained run reads all of it.                                   *)
(***************************************************************************)
EXTENDS Reading, PlatformSafety_proofs

-----------------------------------------------------------------------------
(* Readers leave the platform as it is. *)

\* A reader changes nothing but its own state and, by failing, the number of failures.
LEMMA ReadFrame ==
    ASSUME ReaderNext
    PROVE  /\ UNCHANGED <<clock, objects, runs, log, janitorVars, ops>>
           /\ UNCHANGED faults \/ \E o \in ReadOutcomes : Spend(o)
<1>1. UNCHANGED <<log, janitorVars, ops>>
  BY DEF ReaderNext
<1>2. PICK r \in Runs : ReadStep(r)
  BY DEF ReaderNext
<1>3. CASE WalkEnds(r) \/ FetchEnds(r)
  BY <1>1, <1>3 DEF WalkEnds, FetchEnds, storeVars
<1>4. CASE \E files \in SUBSET Artifacts : Command(r, files)
  BY <1>1, <1>4 DEF Command, storeVars
<1>5. ASSUME NEW o \in ReadOutcomes, ReadCall(r, o)
      PROVE  Spend(o) /\ UNCHANGED <<clock, objects, runs>>
  <2>1. CASE \E op \in ReadOps : Ask(r, op, o)
    BY <2>1 DEF Ask
  <2>2. CASE IsDir(r, o) \/ IsBase(r, o)
    BY <2>2 DEF IsDir, IsBase
  <2>3. CASE \E k \in Keys : Visit(r, k, o)
    BY <2>3 DEF Visit
  <2>4. CASE Inventory(r, o) \/ ListKeys(r, o)
    BY <2>4 DEF Inventory, ListKeys
  <2>5. CASE \E k \in Keys : Fetch(r, k, o)
    BY <2>5 DEF Fetch
  <2> QED
    BY <1>5, <2>1, <2>2, <2>3, <2>4, <2>5 DEF ReadCall
<1> QED
  BY <1>1, <1>2, <1>3, <1>4, <1>5 DEF ReadStep

\* So the platform's invariant is kept by readers.
LEMMA ReaderKeepsIInv ==
    ASSUME IInv, ReaderNext
    PROVE  IInv'
<1>1. UNCHANGED <<clock, objects, runs, log, janitorVars, ops>>
  BY ReadFrame
<1>2. TypeOK'
  <2>1. faults' \in 0..MaxFaults
    BY ReadFrame, SpendType DEF IInv, TypeOK, StoreTypeOK
  <2> QED
    BY <1>1, <2>1
    DEF IInv, TypeOK, StoreTypeOK, LogTypeOK, JanitorTypeOK, OpTypeOK, janitorVars
<1>3. LogOrder'
  BY <1>1 DEF IInv, LogOrder, OrderOf, Present
<1>4. SweepOrder'
  BY <1>1 DEF IInv, SweepOrder, Stopped, Condemned, Questioned, Dead, janitorVars
<1>5. SweepAges'
  BY <1>1 DEF IInv, SweepAges, Stopped, Condemned, Questioned, AgedOrNew, HeldLate, Present,
              janitorVars
<1>6. UploadsStay'
  BY <1>1 DEF IInv, UploadsStay, UploadsOf, PurgeBegun, Present
<1> QED
  BY <1>2, <1>3, <1>4, <1>5, <1>6 DEF IInv

-----------------------------------------------------------------------------
(* Steps of the platform, as a reader of one run sees them. *)

\* A log() call that is past its uploads stays so, and it never comes to return.
LEMMA PastStays ==
    ASSUME TypeOK, [Next]_vars, NEW q \in Runs, Past(q)
    PROVE  /\ Past(q)'
           /\ log'[q].plan = log[q].plan
           /\ log'[q].pc = "returned" => log[q].pc = "returned"
<1>t. StoreTypeOK /\ LogTypeOK /\ log \in [Runs -> LogRecord]
  BY DEF TypeOK, LogTypeOK
<1>1. ASSUME NEW r \in Runs, LogStep(r)
      PROVE  /\ Past(q)'
             /\ log'[q].plan = log[q].plan
             /\ log'[q].pc = "returned" => log[q].pc = "returned"
  <2>1. CASE q # r
    BY <1>1, <1>t, <2>1, LogFrame DEF Past
  <2>2. CASE q = r
    BY <1>1, <1>t, <2>2
    DEF Past, LogStep, LogCall, Reject, CreateRun, PlanUploads, PlanFails, Upload, UploadsDone,
        LogContent, NoContent, SetUri, SetFinished, CleanList, CleanBatch, CleanDone,
        FailRun, Crash, GoTo, LogRecord
  <2> QED
    BY <2>1, <2>2
<1>2. CASE UNCHANGED log
  BY <1>2 DEF Past
<1> QED
  BY <1>1, <1>2 DEF Next, ProducerNext, JanitorNext, OperatorNext, TimeNext, vars

-----------------------------------------------------------------------------
(* Steps of the platform keep what is known of the readers. *)

\* A run retained after a step of the platform, whose log() was past its uploads before it,
\* was retained before the step.
LEMMA WasRetained ==
    ASSUME TypeOK, [Next]_vars, NEW q \in Runs, Past(q), Retained(q)'
    PROVE  Retained(q) /\ log'[q].plan = log[q].plan
BY PastStays, RetiredStays DEF Retained

\* The platform's steps keep the invariant of the readers.
LEMMA PlatformKeepsRInv ==
    ASSUME TypeOK, RInv, [Next]_vars, UNCHANGED reads
    PROVE  RInv'
<1>1. ReadTypeOK' /\ ReadModes'
  BY DEF RInv, ReadTypeOK, ReadModes
<1>2. ReadOrder'
  BY PastStays DEF RInv, ReadOrder
<1>3. Gathered'
  <2> SUFFICES ASSUME "empty" \notin Servers, NEW q \in Runs, Retained(q)'
               PROVE  DownloadOf(q)' /\ (faults' = 0 => InventoryOf(q)')
    BY DEF Gathered
  <2>1. CASE Past(q)
    <3>1. Retained(q) /\ log'[q].plan = log[q].plan
      BY <2>1, WasRetained
    <3>2. DownloadOf(q) /\ (faults' = 0 => InventoryOf(q))
      BY <3>1, FaultsGrow DEF RInv, Gathered
    <3> QED
      BY <3>1, <3>2 DEF DownloadOf, InventoryOf
  <2>2. CASE ~Past(q)
    BY <2>2 DEF RInv, ReadOrder, DownloadOf, InventoryOf
  <2> QED
    BY <2>1, <2>2
<1> QED
  BY <1>1, <1>2, <1>3 DEF RInv

-----------------------------------------------------------------------------
(* Steps of a reader. *)

\* A run that resolve returns with an artifacts_uri is past its uploads.
LEMMA ReadableIsPast ==
    ASSUME LogOrder, NEW r \in Runs, Readable(r)
    PROVE  Past(r)
BY DEF LogOrder, OrderOf, Readable, Usable, Past

\* The reader of one run leaves the others alone.
LEMMA OtherReads ==
    ASSUME ReadTypeOK, NEW r \in Runs, ReadStep(r), NEW q \in Runs, q # r
    PROVE  reads'[q] = reads[q]
BY DEF ReadTypeOK, ReadStep, ReadCall, WalkEnds, Command, FetchEnds, Ask, IsDir, IsBase, Visit,
       Inventory, ListKeys, Fetch, ReadGoesTo, ReadRaises, Gather

\* A reader's step keeps the types.
LEMMA ReadStepTypes ==
    ASSUME ReadTypeOK, NEW r \in Runs, ReadStep(r)
    PROVE  ReadTypeOK'
<1>t. reads \in [Runs -> ReadRecord] /\ reads[r] \in ReadRecord
  BY DEF ReadTypeOK
<1> USE DEF ReadTypeOK, ReadRecord, ReadPCs, ReadEnds, ReadGoesTo, ReadRaises, Gather
<1>p. Present(r) \subseteq Keys
  BY DEF Present
<1>1. ASSUME NEW o \in ReadOutcomes, NEW op \in ReadOps, Ask(r, op, o) PROVE ReadTypeOK'
  BY <1>t, <1>1 DEF Ask
<1>2. ASSUME NEW o \in ReadOutcomes, IsDir(r, o) \/ IsBase(r, o) PROVE ReadTypeOK'
  BY <1>t, <1>2 DEF IsDir, IsBase
<1>3. ASSUME NEW o \in ReadOutcomes, NEW k \in Keys, Visit(r, k, o) PROVE ReadTypeOK'
  BY <1>t, <1>3 DEF Visit
<1>4. ASSUME NEW o \in ReadOutcomes, Inventory(r, o) \/ ListKeys(r, o) PROVE ReadTypeOK'
  BY <1>t, <1>p, <1>4 DEF Inventory, ListKeys
<1>5. ASSUME NEW o \in ReadOutcomes, NEW k \in Keys, Fetch(r, k, o) PROVE ReadTypeOK'
  BY <1>t, <1>5 DEF Fetch
<1>6. ASSUME NEW files \in SUBSET Artifacts, Command(r, files) PROVE ReadTypeOK'
  BY <1>t, <1>6 DEF Command, Keys
<1>7. CASE WalkEnds(r) \/ FetchEnds(r)
  BY <1>t, <1>7 DEF WalkEnds, FetchEnds
<1> QED
  BY <1>1, <1>2, <1>3, <1>4, <1>5, <1>6, <1>7 DEF ReadStep, ReadCall

\* Where a reader's step leads, and that it came from a run past its uploads.
LEMMA ReadStepOrder ==
    ASSUME LogOrder, RInv, NEW r \in Runs, ReadStep(r), UNCHANGED log
    PROVE  /\ reads'[r].pc \notin {"idle", "raised"} => Past(r)'
           /\ reads'[r].pc \in {"list", "fetch"} => reads'[r].op = "download"
           /\ reads'[r].pc \in {"located", "base", "walk", "staged", "again"}
                 => reads'[r].op # "download"
<1>t. /\ reads \in [Runs -> ReadRecord] /\ reads[r] \in ReadRecord
      /\ reads[r].pc \notin {"idle", "raised"} => Past(r)
      /\ reads[r].pc \in {"list", "fetch"} => reads[r].op = "download"
      /\ reads[r].pc \in {"located", "base", "walk", "staged", "again"} => reads[r].op # "download"
  BY DEF RInv, ReadTypeOK, ReadOrder, ReadModes
<1>p. Past(r)' <=> Past(r)
  BY DEF Past
<1>1. ASSUME NEW o \in ReadOutcomes, NEW op \in ReadOps, Ask(r, op, o)
      PROVE  /\ reads'[r].pc \notin {"idle", "raised"} => Past(r)
             /\ reads'[r].pc \in {"list", "fetch"} => reads'[r].op = "download"
             /\ reads'[r].pc \in {"located", "base", "walk", "staged", "again"}
                   => reads'[r].op # "download"
  BY <1>t, <1>1, ReadableIsPast DEF Ask, ReadRecord
<1>2. ASSUME NEW pc, pc \notin {"idle", "raised"}, ReadGoesTo(r, pc)
      PROVE  reads'[r].pc = pc /\ reads'[r].op = reads[r].op
  BY <1>t, <1>2 DEF ReadGoesTo, ReadRecord
<1>3. ASSUME NEW pc, NEW keys, Gather(r, pc, keys)
      PROVE  reads'[r].pc = pc /\ reads'[r].op = reads[r].op
  BY <1>t, <1>3 DEF Gather, ReadRecord
<1>4. ASSUME NEW o \in ReadOutcomes, NEW k \in Keys, Visit(r, k, o)
      PROVE  reads'[r].pc = reads[r].pc /\ reads'[r].op = reads[r].op
  BY <1>t, <1>4 DEF Visit, ReadRecord
<1>5. ASSUME NEW o \in ReadOutcomes, NEW k \in Keys, Fetch(r, k, o)
      PROVE  reads'[r].pc \in {reads[r].pc, "raised"} /\ reads'[r].op = reads[r].op
  BY <1>t, <1>3, <1>5 DEF Fetch, ReadRaises, ReadRecord
<1>6. ASSUME NEW files \in SUBSET Artifacts, Command(r, files)
      PROVE  reads'[r].pc \in {"returned", "raised"} /\ reads'[r].op = reads[r].op
  BY <1>t, <1>3, <1>6 DEF Command, ReadRaises, ReadRecord
<1>7. ASSUME NEW o \in ReadOutcomes, IsDir(r, o) \/ IsBase(r, o) \/ Inventory(r, o) \/ ListKeys(r, o)
      PROVE  /\ reads'[r].pc \notin {"idle", "raised"} => Past(r)
             /\ reads'[r].pc \in {"list", "fetch"} => reads'[r].op = "download"
             /\ reads'[r].pc \in {"located", "base", "walk", "staged", "again"}
                   => reads'[r].op # "download"
  BY <1>t, <1>2, <1>3, <1>7 DEF IsDir, IsBase, Inventory, ListKeys, ReadRaises
<1>8. CASE WalkEnds(r) \/ FetchEnds(r)
  BY <1>t, <1>p, <1>2, <1>8 DEF WalkEnds, FetchEnds
<1>9. ASSUME NEW o \in ReadOutcomes, NEW k \in Keys, Visit(r, k, o) \/ Fetch(r, k, o)
      PROVE  /\ reads'[r].pc \notin {"idle", "raised"} => Past(r)
             /\ reads'[r].pc \in {"list", "fetch"} => reads'[r].op = "download"
             /\ reads'[r].pc \in {"located", "base", "walk", "staged", "again"}
                   => reads'[r].op # "download"
  <2>1. reads[r].pc \in {"walk", "again", "fetch"}
    BY <1>9 DEF Visit, Fetch
  <2> QED
    BY <1>t, <1>4, <1>5, <1>9, <2>1
<1>10. ASSUME NEW files \in SUBSET Artifacts, Command(r, files)
       PROVE  /\ reads'[r].pc \notin {"idle", "raised"} => Past(r)
              /\ reads'[r].pc \in {"list", "fetch"} => reads'[r].op = "download"
              /\ reads'[r].pc \in {"located", "base", "walk", "staged", "again"}
                    => reads'[r].op # "download"
  BY <1>t, <1>6, <1>10 DEF Command
<1> QED
  BY <1>p, <1>1, <1>7, <1>8, <1>9, <1>10 DEF ReadStep, ReadCall

\* A download gathers what it has not found yet: all of a retained run is there to be fetched.
LEMMA ReadStepDownload ==
    ASSUME RInv, NEW r \in Runs, ReadStep(r), log[r].plan \subseteq Present(r), DownloadOf(r),
           UNCHANGED <<log, objects>>
    PROVE  DownloadOf(r)'
<1>t. /\ reads \in [Runs -> ReadRecord] /\ reads[r] \in ReadRecord
      /\ reads[r].pc \in {"located", "base", "walk", "staged", "again"} => reads[r].op # "download"
  BY DEF RInv, ReadTypeOK, ReadModes
<1> USE DEF DownloadOf, ReadRecord
<1>1. ASSUME NEW o \in ReadOutcomes, NEW op \in ReadOps, Ask(r, op, o) PROVE DownloadOf(r)'
  BY <1>t, <1>1 DEF Ask
<1>2. ASSUME NEW o \in ReadOutcomes, IsDir(r, o) \/ IsBase(r, o) \/ Inventory(r, o)
      PROVE  DownloadOf(r)'
  BY <1>t, <1>2 DEF IsDir, IsBase, Inventory, ReadGoesTo, ReadRaises, Gather
<1>3. ASSUME NEW o \in ReadOutcomes, NEW k \in Keys, Visit(r, k, o) PROVE DownloadOf(r)'
  BY <1>t, <1>3 DEF Visit
<1>4. ASSUME NEW o \in ReadOutcomes, ListKeys(r, o) PROVE DownloadOf(r)'
  BY <1>t, <1>4 DEF ListKeys, ReadRaises, Gather
<1>5. ASSUME NEW o \in ReadOutcomes, NEW k \in Keys, Fetch(r, k, o) PROVE DownloadOf(r)'
  BY <1>t, <1>5 DEF Fetch, ReadRaises, Gather
<1>6. ASSUME NEW files \in SUBSET Artifacts, Command(r, files) PROVE DownloadOf(r)'
  BY <1>t, <1>6 DEF Command, ReadRaises, Gather
<1>7. CASE WalkEnds(r) \/ FetchEnds(r)
  BY <1>t, <1>7 DEF WalkEnds, FetchEnds, ReadGoesTo
<1> QED
  BY <1>1, <1>2, <1>3, <1>4, <1>5, <1>6, <1>7 DEF ReadStep, ReadCall

\* So does a walk while the mount answers; and the directory of a retained run with artifacts
\* is there when it is asked for.
LEMMA ReadStepInventory ==
    ASSUME LogTypeOK, RInv, NEW r \in Runs, ReadStep(r), log[r].plan \subseteq Present(r),
           faults \in Nat, faults = 0 => InventoryOf(r), faults' = 0, UNCHANGED <<log, objects>>
    PROVE  InventoryOf(r)'
<1>t. /\ reads \in [Runs -> ReadRecord] /\ reads[r] \in ReadRecord
      /\ reads[r].pc \in {"list", "fetch"} => reads[r].op = "download"
      /\ log[r].plan \subseteq Keys
  BY DEF RInv, ReadTypeOK, ReadModes, LogTypeOK, LogRecord, Keys
<1>s. ASSUME NEW o, Spend(o) PROVE faults = 0 /\ ~Raised(o)
  BY <1>s DEF Spend
<1> USE DEF InventoryOf, ReadRecord
<1>1. ASSUME NEW o \in ReadOutcomes, NEW op \in ReadOps, Ask(r, op, o) PROVE InventoryOf(r)'
  BY <1>t, <1>1 DEF Ask
<1>2. ASSUME NEW o \in ReadOutcomes, IsDir(r, o) PROVE InventoryOf(r)'
  BY <1>t, <1>s, <1>2 DEF IsDir, ReadGoesTo, Gather
<1>3. ASSUME NEW o \in ReadOutcomes, IsBase(r, o) PROVE InventoryOf(r)'
  BY <1>t, <1>s, <1>3 DEF IsBase, ReadGoesTo
<1>4. ASSUME NEW o \in ReadOutcomes, NEW k \in Keys, Visit(r, k, o) PROVE InventoryOf(r)'
  BY <1>t, <1>s, <1>4 DEF Visit
<1>5. ASSUME NEW o \in ReadOutcomes, Inventory(r, o) PROVE InventoryOf(r)'
  BY <1>t, <1>s, <1>5 DEF Inventory, ReadRaises, Gather
<1>6. ASSUME NEW o \in ReadOutcomes, ListKeys(r, o) PROVE InventoryOf(r)'
  BY <1>t, <1>6 DEF ListKeys, ReadRaises, Gather
<1>7. ASSUME NEW o \in ReadOutcomes, NEW k \in Keys, Fetch(r, k, o) PROVE InventoryOf(r)'
  BY <1>t, <1>7 DEF Fetch, ReadRaises, Gather
<1>8. ASSUME NEW files \in SUBSET Artifacts, Command(r, files) PROVE InventoryOf(r)'
  BY <1>t, <1>8 DEF Command, ReadRaises, Gather
<1>9. CASE WalkEnds(r)
  BY <1>t, <1>9 DEF WalkEnds, ReadGoesTo, storeVars
<1>10. CASE FetchEnds(r)
  BY <1>t, <1>10 DEF FetchEnds, ReadGoesTo
<1> QED
  BY <1>1, <1>2, <1>3, <1>4, <1>5, <1>6, <1>7, <1>8, <1>9, <1>10 DEF ReadStep, ReadCall

\* The readers' steps keep their invariant.
LEMMA ReaderKeepsRInv ==
    ASSUME IInv, RInv, ReaderNext
    PROVE  RInv'
<1>f. UNCHANGED <<clock, objects, runs, log, janitorVars, ops>>
  BY ReadFrame
<1>t. /\ TypeOK /\ LogOrder /\ LogTypeOK /\ ReadTypeOK /\ faults \in Nat /\ faults' \in Nat
  <2>1. faults \in 0..MaxFaults /\ faults' \in 0..MaxFaults
    BY ReaderKeepsIInv DEF IInv, TypeOK, StoreTypeOK
  <2> QED
    BY <2>1 DEF IInv, RInv, TypeOK
<1>1. PICK r \in Runs : ReadStep(r)
  BY DEF ReaderNext
<1>2. ReadTypeOK'
  BY <1>t, <1>1, ReadStepTypes
<1>3. ReadOrder'
  <2> SUFFICES ASSUME NEW q \in Runs PROVE (reads[q].pc \notin {"idle", "raised"} => Past(q))'
    BY DEF ReadOrder
  <2>1. CASE q = r
    BY <1>f, <1>t, <1>1, <2>1, ReadStepOrder
  <2>2. CASE q # r
    BY <1>f, <1>t, <1>1, <2>2, OtherReads DEF RInv, ReadOrder, Past
  <2> QED
    BY <2>1, <2>2
<1>4. ReadModes'
  <2> SUFFICES ASSUME NEW q \in Runs
               PROVE  (/\ reads[q].pc \in {"list", "fetch"} => reads[q].op = "download"
                       /\ reads[q].pc \in {"located", "base", "walk", "staged", "again"}
                             => reads[q].op # "download")'
    BY DEF ReadModes
  <2>1. CASE q = r
    BY <1>f, <1>t, <1>1, <2>1, ReadStepOrder
  <2>2. CASE q # r
    BY <1>t, <1>1, <2>2, OtherReads DEF RInv, ReadModes
  <2> QED
    BY <2>1, <2>2
<1>5. Gathered'
  <2> SUFFICES ASSUME "empty" \notin Servers, NEW q \in Runs, Retained(q)'
               PROVE  DownloadOf(q)' /\ (faults' = 0 => InventoryOf(q)')
    BY DEF Gathered
  <2>1. Retained(q) /\ log[q].plan \subseteq Present(q)
    BY <1>f DEF Retained, PurgeBegun, IInv, UploadsStay, UploadsOf
  <2>2. DownloadOf(q) /\ (faults = 0 => InventoryOf(q))
    BY <2>1 DEF RInv, Gathered
  <2>3. CASE q = r
    BY <1>f, <1>t, <1>1, <2>1, <2>2, <2>3, ReadStepDownload, ReadStepInventory
  <2>4. CASE q # r
    <3>1. reads'[q] = reads[q] /\ log' = log
      BY <1>f, <1>t, <1>1, <2>4, OtherReads
    <3>2. faults' = 0 => faults = 0
      BY <1>t, ReadFrame DEF Spend
    <3> QED
      BY <2>2, <3>1, <3>2 DEF DownloadOf, InventoryOf
  <2> QED
    BY <2>3, <2>4
<1> QED
  BY <1>2, <1>3, <1>4, <1>5 DEF RInv

-----------------------------------------------------------------------------
\* The platform's invariant and the readers' hold together from the start, and every step of
\* either keeps both.
THEOREM ReadingInductive == ReadingSpec => [](IInv /\ RInv)
<1>1. ReadingInit => IInv /\ RInv
  <2> SUFFICES ASSUME ReadingInit PROVE IInv /\ RInv
    OBVIOUS
  <2>1. IInv
    BY InitIsInductive DEF ReadingInit
  <2>2. RInv
    BY DEF ReadingInit, ReadInit, RInv, ReadTypeOK, ReadRecord, ReadPCs, ReadEnds, ReadOrder,
           ReadModes, Gathered, DownloadOf, InventoryOf
  <2> QED
    BY <2>1, <2>2
<1>2. IInv /\ RInv /\ [ReadingNext]_readingVars => IInv' /\ RInv'
  <2> SUFFICES ASSUME IInv, RInv, [ReadingNext]_readingVars PROVE IInv' /\ RInv'
    OBVIOUS
  <2>1. CASE ReaderNext
    BY <2>1, ReaderKeepsIInv, ReaderKeepsRInv
  <2>2. CASE [Next]_vars /\ UNCHANGED reads
    BY <2>2, StepIsInductive, PlatformKeepsRInv DEF IInv
  <2> QED
    BY <2>1, <2>2 DEF ReadingNext, readingVars
<1> QED
  BY <1>1, <1>2, PTL DEF ReadingSpec

\* When every sweep asks the server that owns the runs, a download of a retained run that
\* returns has every artifact.
THEOREM DownloadsAreWhole == "empty" \notin Servers => (ReadingSpec => []DownloadIsWhole)
<1> SUFFICES ASSUME "empty" \notin Servers PROVE ReadingSpec => []DownloadIsWhole
  OBVIOUS
<1>1. RInv => DownloadIsWhole
  BY DEF RInv, Gathered, DownloadIsWhole, DownloadOf
<1> QED
  BY <1>1, ReadingInductive, PTL

\* Nor does an inventory of it miss one, or a stage report it to have none, while the mount
\* answers.
THEOREM InventoriesAreWhole == "empty" \notin Servers => (ReadingSpec => []InventoryIsWhole)
<1> SUFFICES ASSUME "empty" \notin Servers PROVE ReadingSpec => []InventoryIsWhole
  OBVIOUS
<1>1. RInv => InventoryIsWhole
  BY DEF RInv, Gathered, InventoryIsWhole, InventoryOf
<1> QED
  BY <1>1, ReadingInductive, PTL
=============================================================================
