# A formal model of accelprof

This directory models the two parts of the repository in which a mistake costs something that no
one notices at once. In the experiment store it costs data: producers log runs, consumers read
them, the janitor deletes blobs, operators hold and purge them, all on one S3 bucket and one MLflow
server, at the same time and without a lock. In the server analyzer it costs the truth: calls that
start, ask and tear down servers share one port, and may answer for the wrong run. The modules are
written in TLA+, checked on small instances with TLC, and the safety of both designs is proved with
TLAPS for every number of runs, artifacts, failures, instants and calls. Around these two stand
smaller models of what the library does by itself: verified uploads, look-ups, keys and URIs, the advice of
command analyzers, and the benchmark loop that feeds it; their safety is proved as well. Every
invariant and every action property that a passing run checks is a theorem here; only what must happen
eventually is left to TLC.

## 1. The system

| part | source | state it keeps | operations | what makes it correct |
|---|---|---|---|---|
| trace bucket, tracking server | external; used through `s3_layout.py`, `mlflow_io.py` | objects with `LastModified`; runs with status, lifecycle stage, tags | put, list, delete; get, create, update, delete run | given: a call is applied or not, and its answer may be lost |
| producer | `store.py` `log`, `mlflow_io.py`, `s3_layout.py` | the position in `log`, the artifacts uploaded | create run, upload, log content, set `artifacts_uri`, set FINISHED; clean up and `fail_run` | FINISHED means complete; a failure leaves neither blobs nor a live run |
| janitor | `janitor.py` | the captured clock, prefixes to scan, the report | canary, list, scan, classify, breaker, delete | deletes garbage, only garbage, and eventually all of it |
| operator | `store.py` `hold`, `purge`, `resolve` | a `RunRef` resolved some time ago | hold, purge, purge again; soft-delete in the UI; `mlflow gc` | a purge that returns is complete; a hold holds |
| transfer | `s3_layout.py` `upload_verified`, `hashing.py` | digest, size, attempt | digest, send, confirm, retry | what returns is what was digested; an alarm is deserved |
| layout | `s3_layout.py`, `ids.py` | none | keys, prefixes, URIs, the retention marker | whoever has the URI reaches the run, all of it |
| look-up | `mlflow_io.py` `_experiment_id`, `resolve_alias`, `search`; `service.py` `_select_run` | a page token, the runs read so far | get or create the experiment; paged search; the latest run of a chip | a race is won; no usable run is lost to paging |
| consumer | `store.py` `locate`, `download` | none; a position in a listing | read a prefix | reads whole runs only |
| analysis service | `analysis_mcp/service.py` | none; a position in a walk | `stage`, `resolve_artifacts`, `analyze` | an empty inventory means no artifacts |
| server analyzer | `analysis_mcp/analyzers.py` | a server process on a fixed port | start, query, stop a server | the answer comes from this run's server |
| command analyzers | `analysis_mcp/analyzers.py`, `config.py` | a scratch directory | validate and expand a template, run a tool, shape its output | a typo fails at boot; a failure never reads like a success |
| benchmark loop | `examples/benchmark_iteration/` | the tool's output file | load the last record, take an accuracy, flatten, `log` | the record is this turn's; bad numbers stop nothing |
| MCP server, environment | `analysis_mcp/server.py`, `experiment_store/env.py` | none | wiring, parsing at boot | plain |
| producer examples | `examples/gpu_nsys`, `neuron_cpu_compile.py` | none | call `log` | out of scope |

How they interact: producers, janitor and operators never call each other. The bucket and the
server are their shared state, every access to it is a remote call that can fail on either side,
and what one of them read is stale when it acts on it. In particular

* `log` issues one call per artifact, per tag and per status; a crash, an error or a soft-delete may
  come between any two, and an error may mean that the call was applied (a lost answer);
* `sweep` reads the clock first, then lists, scans and classifies prefix by prefix, and deletes at
  the very end, without looking again at a run, an age or a marker;
* `purge` deletes blobs before it deletes the run, and works from a snapshot;
* the canary shows that *a* server answers, not that it is the one that owns the runs;
* a consumer asks MLflow once whether a run is usable, then reads its prefix in many steps, through
  boto or a mount that answers an error and an absence alike;
* `upload_verified` reads a file at least twice, once to digest it and once per attempt to send it,
  while its writer may still be at work;
* `resolve_alias` and `search` read page after page of a listing that grows at its front and shrinks anywhere;
* the processes that `ServerQueryAnalyzer` starts move on their own, and may outlive the call.

## 2. The modules

    TraceStore          the bucket, the server, remote calls, time
      Producer          ExperimentStore.log, one process per run
      Janitor           Janitor.sweep, one process that sweeps again and again
      Operator          hold, purge, the UI's soft-delete, mlflow gc
        Platform        the three composed; properties; the inductive invariant
          MCPlatform             small instances for TLC
          Platform_proofs        type correctness
            PlatformSafety_proofs   the inductive invariant and what it implies
              PlatformOutcomes_proofs  failures, purges, the breaker; the platform
                                       implements RunLifecycle
      Consumer            download, stage, resolve_artifacts, analyze
        Reading         Platform and Consumer composed; properties; the invariant
          MCReading              a small instance for TLC
          Reading_proofs         the invariant and what it implies

    RunLifecycle        what the platform promises about one run; Platform instantiates it

    ServerAnalyzer      ServerQueryAnalyzer and the processes it starts
      MCServerAnalyzer         small instances for TLC
      ServerAnalyzer_proofs    the inductive invariant of its calls and what it implies

    Transfer            what the store trusts one upload for; UploadVerified instantiates it
    UploadVerified      one upload_verified call and the file's writer

    Picking             strings that lose characters; used by Layout and Advice
    Layout              aliases, keys, URIs, the marker
    Advice              a command analyzer from template to advice
    Lookup              the creation race, paged look-ups, the choice of a run
      Lookup_proofs            the inductive invariants of the race and of paging, and what they imply
    Iteration           one turn of the benchmark loop

    UploadVerified and Layout
      S3Layout_proofs          both parts of s3_layout.py: invariants, refinement, termination's measure
    UploadVerified, Lookup, Iteration, Advice and Layout
      MCLibrary                the five side by side for TLC
        Library_proofs           the loop and the command analyzer, and the five together

**TraceStore.** `objects[p][k]` is the `LastModified` of object `k` under prefix `p`, or `Missing`.
`runs[r]` is what the server says of run `r`: `status`, with ABSENT for a run that `get_run` does
not find, `deleted` (`lifecycle_stage`), `content` (all tags, params and metrics are there) and `uri` (the
`artifacts_uri` tag). A run id names its prefix as well. A remote call has an outcome: `ok`, `lost`
(applied, the caller gets an exception) or `failed` (not applied); the last two draw on a budget
`MaxFaults`, as crashes do. `DeleteRound` is one round of `delete_prefix`, with per-key errors.

**Producer.** `log[r].pc` is the position in `ExperimentStore.log`: `planning` is the walk of the
artifacts (`upload_artifacts`, with its collision check), `uploading` the calls of
`upload_verified`, `content`, `uri` and `finish` the calls of `finalize_run` in its order,
`cleanlist`, `clean` and `fail` the `except` block. `create_run` is outside the `try` block, as in the code, so
its lost answer leaves a run nobody knows. A crash stands also for exceptions the block does not
catch (`KeyboardInterrupt`). An upload is one step: the up to five attempts of `upload_verified`
end with the object verified, or with an exception and the object there or not; `UploadVerified`
has them in detail, and implements `Transfer`, which says what that one step relies on.

**Janitor.** One action per call of `sweep`. `StartSweep` is the canary and the captured clock;
`ListAliases` and `ListAlias` the two levels of `_list_run_prefixes`; `Scan` is `_scan_prefix` with the checks
that need no answer from MLflow; `Classify` is `_classify` and the filing into the report;
`Scanned` decides between dry run, breaker and deletion; `ListOrphan` and `DeleteBatchOf` are
`delete_prefix`. The lists of `SweepReport` are sets. The prefixes of one list are taken in any order.
`sweep.server` is `owner` for the server that owns the runs and `empty` for one that answers
not-found for all. An exception takes the report with it, as in the code.

**Operator.** `ops[r]` is the work on one run: the `RunRef` (only its `artifacts_uri` matters) and
the progress of a purge. A purge can be repeated after an exception or a crash. `RetireAbsent` is
`delete_run` meeting a stopped App. `UiDelete` and `HardDelete` are MLflow's own operations.

**Platform** takes a step of one of them, or lets time pass. Nothing synchronises them.

**RunLifecycle** is the abstract specification: the phase of each run (unknown, writing, published,
failing, abandoned, retired), the artifacts it is to have and the blobs it has. Its actions say what
may change in which phase: blobs grow one by one while writing, are all there at publication, never
change while published, shrink while a failed call cleans up, and are anybody's once the run is
retired. `PhaseOf`, `PlanOf` and `BlobsOf` of `Platform` are the refinement mapping, and
`ImplementsLifecycle` the abstract specification read through it.

**Consumer.** `reads[r]` is the reader of one run: its position, its operation, the keys it has not
come to and those it has found. `Ask` is `resolve` (or the alias) and the check for an `artifacts_uri`. A
`download` then takes one listing and fetches its keys one by one; a key that is gone raises. The
service's operations go through the mount: `IsDir` and `IsBase` are `_staged_dir`, which blames the run
or the mount; `Visit` is one directory of `os.walk`, which skips what it cannot list; `Inventory`
and `Command` are the two analyzers, which look at the directory anew. A mount that fails
draws on the same fault budget.

**Reading** composes the readers with the platform. Readers change nothing; the point is what
everybody else does between their steps.

**ServerAnalyzer.** `cur` and `pc` are the call under way and its position in
`ServerQueryAnalyzer.__call__`: start, poll the process, probe the port, query, and the `finally` block.
`server[c]` is the process of call `c`, `port` the one who holds the port. `rounds` counts the polls
of its readiness loop, and the deadline is `MaxRounds` of them. Processes boot, bind, get stuck on the
pipe that nobody drains, die, obey or ignore SIGTERM, and go after SIGKILL, at any moment.
`LauncherSpec` adds a start command whose child does the serving. `Finished` is the stutter of a
deployment that has made all its calls, so that TLC reports every other halt.

**UploadVerified.** `file` is a sequence of blocks, a block the number of the edit that wrote it;
`up` is the call and its local variables, `object` what is in the bucket. `Digest` reads block by block, `Size`
asks for the file again, `Open` and `SendBlock` are boto's transfer, which measures and reads the
file for itself, in parts of any order; `SendDone` puts the object and may lose the answer;
`Confirm` is the `head_object` with the two kinds of checksum. Between any two steps the
file's writer may overwrite, extend or truncate it. `StepsLeft` bounds from above the steps a call can still take.

**Transfer** is the abstract specification of an upload, what the rest of the store takes it for: the
object is absent, whole (what was digested) or torn, the call has no answer yet, succeeded or raised. Each
put makes the object appear at once and whole unless somebody edited the file; a success needs
an object; a raise may leave one; after the answer nothing is written. `Upload` of `Producer` takes put and answer for one
step. `Promised` in `UploadVerified` is the refinement mapping, and `ImplementsTransfer` the specification read through it.

**Lookup.** `making[r]` is the producer of run `r` in `_experiment_id` and `create_run`; `query` is
the consumer's `resolve_alias`, `search` (of an alias or of all), or `_select_run`: its page token, the runs
read so far with what they looked like when they were read, and the answer. `listing` is what the server lists: the active
runs, newest first. Its page token is an offset, so that runs which come or go shift the pages. `steady`, `left` and `joined` are history for the properties.

**Layout.** A string is a sequence of characters, and a file name counts as one. `SafeAlias` is the
regular expression, `ParsedKey` what `urlparse` and `lstrip` leave of a URI (`urlparse` drops newlines: `Picked` of `Picking` is what stays), `MarkerKey` where
`hold` writes. No file's name is a slash. `UploadArtifacts` gives keys to the files of a call's artifacts and refuses collisions; `Hold`, `Download` and `Purge`
have the prefix from the URI, the sweep (`SweepSeesMarker`) from a listing.

**Iteration.** `output` is the file a measuring tool appends to, with records of earlier turns and
half lines of tools that died; `turn` is `run_iteration`: `Load`, `Score` (`accuracy_from_eval`), `Log`
(`as_metrics`, the tags and the validation in `log`). One field stands for the common core and one for the extras; a value is a kind:
finite, NaN or infinite, an integer no float can hold, and so on.

**Advice.** `job` is one token of an analyzer's template on its way: validated at boot, expanded for a
run, and the tool's exit and output shaped into advice. A token is a sequence of the words that validation and expansion tell apart; `Replace`, Python's
`str.replace`, is `Picked` as well, of the token's positions that an occurrence does not swallow;
a text is its length and whether it has findings. `HeadLength` is the length of the line that says how the tool ended, with the analyzer's
name in it; two such lines and a truncation marker fit into the bound, as they do in the code by far.

**MCLibrary** puts `UploadVerified`, `Lookup`, `Layout`, `Iteration` and `Advice` side by side in one run: each behaviour takes steps of one of them,
and the others stay where they are. They share nothing, so nothing is lost (theorem `LibraryIsItsParts`).

## 3. The properties

| property | what it says |
|---|---|
| `TypeOK`, `LibraryTypeOK` | every variable keeps its shape |
| `FinishedIsComplete` | a FINISHED run has its content and its uri, whatever failed, crashed or was deleted in between |
| `LoggedIsIntact` | a run whose `log` returned keeps what it uploaded until it is deleted or purged |
| `CleanFailureLeavesNothing` | a `log` that raises while every service answers leaves no artifact and no live run |
| `PurgeIsComplete` | a purge that returned took every artifact, though it listed the prefix only once |
| `JanitorSparesLive` | the objects a sweep deletes belong to dead runs *at that moment*, not just when they were classified |
| `EarlierHoldSurvives` | a hold older than the sweep is never deleted by it |
| `GraceIsRespected` | what a sweep deletes was past the grace period when it began, or appeared during it |
| `MispointedIsCaught` | a sweep of an empty server never starts to delete when all it considered is orphaned |
| `ForeignIsLeftAlone` | data no producer wrote is never touched |
| `GarbageIsCollected` | blobs of failed, deleted or vanished runs are eventually deleted, unless the breaker trips |
| `AbandonedIsReported` | blobs of a producer that crashed, or could neither clean up nor mark its run FAILED, are eventually in the report of a sweep, unless the breaker trips |
| `DownloadIsWhole` | a download of a retained run that returns has every artifact that `log` planned |
| `InventoryIsWhole` | while the mount answers, an inventory of a retained run has every artifact, and none is called absent |
| `AnswerIsOwn` | the answer of a call comes from the server of that call |
| `EveryCallReturns` | a call that started a server returns, whatever the server does |
| `ImplementsLifecycle` | every step of the platform is a step that `RunLifecycle` allows, or changes nothing of it |
| `ReturnedIsDigested` | an upload that returned has in the bucket what was digested; only a file edited meanwhile can differ, and then only where no whole checksum exists |
| `AlarmIsDeserved` | a mismatch is reported of edited files only, whatever was retried |
| `EveryTransferEnds` | an upload returns or raises, whatever fails and whoever edits |
| `TransferRunsOut` | every step of an upload brings it nearer to its end, and there is a bound on how many it takes |
| `ImplementsTransfer` | an upload in many steps is one that `Transfer` allows: whole objects only while the file is left alone, success only over an object, nothing after the answer |
| `RaceIsWon` | a producer that loses the race to create the experiment registers its run all the same |
| `UsableIsFound` | a run usable during the whole look-up is found, unless a deletion shifted the pages or the limit was used up |
| `FoundOnce` | no run is read twice, unless a creation shifted the pages |
| `LatestIsSelected` | no run of the chip is later than the chosen one and was usable all along |
| `FilesAreKept` | every file of a successful call has an object of its own |
| `HoldsAreSeen` | the sweep sees a hold where the URI put it, and takes nothing else for one |
| `ReferencesReach` | download and purge reach through the URI all that was uploaded, each file under its own path |
| `RecordIsOwn` | an earlier turn's record is only logged when the tool died without a byte |
| `BadNumbersAreLogged` | NaN and infinity never keep a run from being logged |
| `ScalarsAreKept` | what was measured and is a scalar is a metric or a tag, not both |
| `AccuracyHasMeaning` | an accuracy from an eval comes with its metric; it is the number at the eval's top, of no named task, or the value of its only task, which is named |
| `TemplatesExpand` | no brace of a typo reaches the tool |
| `AdviceFits` | advice is as long as allowed, and says so when it was cut |
| `FailureShows` | the advice of a tool that failed or was killed never reads like that of a success |
| `ServersGoAway` | a call that is over leaves neither a process nor a busy port behind, in the end |

A run is *retained* when its `log` returned and nobody has begun to delete or purge it. The readers'
properties speak of a read that has ended and of a run retained still, so nobody began to retire it
during the read, although the read may have begun before `log` returned; who reads a run while it is purged may get part of it, an exception, or the
word that there is nothing. `InventoryIsWhole` asks for a mount that answers because the code
cannot do better: `isdir`, `os.walk` and `rglob` swallow its errors.

Where a property has an exception, the exception is exact, and some are worth knowing:

* `ImplementsLifecycle` is about sweeps that ask the owner of the runs. A log() whose last answer was lost is failing in its
  terms, and may delete what it wrote: that the run is FINISHED all the same is `UsableIsIntact`'s concern (section 5).
* `MispointedIsCaught`: held prefixes count in the breaker's denominator and not in its numerator, so a
  sweep of an empty server passes when half of what it considered is held.
* `ReturnedIsDigested`: a large file that is overwritten during the upload without a change of length returns, and the digest in
  the object's metadata is that of neither state.
* `UsableIsFound` and `FoundOnce`: a deletion during a look-up can hide a usable run, a creation can make one appear twice;
  and a `search` with `max_results` counts runs before it drops the unusable ones.
* `ReferencesReach` and `HoldsAreSeen`: an alias that ends in a newline is accepted, as `$` matches before it, and does not survive
  `urlparse`: holds, purges and downloads of its runs address a prefix that is empty. A file and a directory of the same name from two artifacts
  are uploaded, and their run cannot be downloaded. An artifact named `.retention-keep` is a hold, and a hold overwrites it.
* `BadNumbersAreLogged`: an accuracy that is not finite is refused by `log`, and an integer too large for
  a float makes `math.isfinite` raise, although `metrics.py:68` says "a bad number must never make the whole run unloggable".
* `AccuracyHasMeaning`: an eval with a number at its top is not looked into (`run_iteration.py:62-65`). If it has several tasks as
  well, it is logged with `eval_metric` alone, although `run_iteration.py:60` says "Multiple lm-eval tasks are rejected". Tags
  `eval_task` and `eval_metric` of the caller's own win over those of the eval.
* `CleanFailureLeavesNothing` is about a `log` whose run the server refuses while every call is answered: a call that fails
  may leave blobs, which are then `GarbageIsCollected`'s and `AbandonedIsReported`'s concern.
* `GarbageIsCollected` and `AbandonedIsReported` exempt a sweep that the breaker stops, as stopping is its purpose: a bucket
  that really is mostly garbage trips it every time, until somebody relaxes it by hand. `collection` has too few prefixes
  to trip it, so what the run shows does not rest on this exception.
* `TemplatesExpand`: a placeholder within a placeholder (`{{dir}tmp}`) and `{dir}` within a selector pass validation
  and reach the tool with braces.
* `AdviceFits`: the slack is for nine digits, so output of 10^9 characters would exceed the bound by one.

Five more state what the documentation promises and the code does not keep (section 5).
`AnswerIsOwn` is one of them where the start command is a launcher.

## 4. The runs that pass

| run | instance | states | question |
|---|---|---|---|
| `platform` | `Spec`; 1 run, 1 artifact and the marker, 2 faults, clock 0..2, one key per batch | 1.2 million | are `log`, the sweep's deletions and purge safe against each other, and do they implement `RunLifecycle`? |
| `grace` | `UnpurgedSpec`; 1 run, 2 artifacts and the marker, 1 fault, clock 0..3, `MinAge` 2, two keys per batch | 700 000 | do ages and holds protect what they should, on a prefix whose objects differ in age? |
| `mispointed` | `UnpurgedSpec`; 3 logged runs and a foreign prefix, no faults, clock 0..1, breaker from 2 prefixes, half of them | 31 000 | does the breaker stop a sweep of the wrong server, and is foreign data safe? |
| `collection` | `FairCollectionSpec`; 1 run, 3 faults, clock 0..2, purges from a RunRef without uri | 440 000 | is garbage collected, and are abandoned blobs reported? |
| `reading` | `UiSpec`; 1 run, 2 artifacts and the marker, 2 faults, clock 0..1, all four reads | 510 000 | do readers of a retained run see all of it, while it is logged, fails, is deleted and swept? |
| `library` | `FairLibrarySpec`; see below | 1.3 million | do the five smaller models keep their properties, and an upload the promise of `Transfer`? |
| `server` | `FairSpec`; 3 calls, 2 polls before the deadline | 98 000 | are answers own, do calls return, do servers go away? |

Bounds, and why they are enough. The properties of the `platform` run concern one run and its
prefix, and a producer or an operator touches nothing else, so one run suffices for the
interleavings; several runs matter to the report and the breaker,
which `mispointed` has.
In `grace` the grace period is two instants long and
the clock runs to 3, so that at the sweep's clock an object may be past the period, at its end or
within it, and one may be written during the sweep; an upload and a soft-delete of the run while it
goes on make the objects of one prefix differ in age. Elsewhere `MinAge = StaleAge = 1` and a clock
of 0..2 have an instant before the sweep, one at the end of the period and one during the sweep. Two faults allow a lost answer and a failing clean-up, or a
crash, in one behaviour; the three of `collection` let an upload, the clean-up after it and `fail_run` all fail. One key per batch makes a prefix of two objects take two rounds. The
breaker's minimum is 2 instead of 5: it is a constant, and the runs have as many prefixes as it
takes to be at it and above it. `MaxClock` and `MaxFaults` are bounds of the model, not of the code.
`SeededInit` starts after `log` has returned for the runs in `Logged`, a state `Spec` reaches;
`UnpurgedSpec` leaves out purges, and confines holds and deletions to the runs in `Managed`.
Deadlock is checked in these runs: a sweep can always be started again, so the system never stops.

In `reading`, a second artifact lets a read end between two keys, and the two are symmetric. One
reader per run is enough, as readers change nothing and share nothing. `UiSpec` leaves out purges
and holds: a purged run is not retained, so purges could only end the obligation, as the
soft-delete in the UI does; the theorems of section 6 cover them. In `server`, the third call
meets what two earlier ones left behind, and the second poll a server that was not ready at the first.

In `library`, an upload has three attempts instead of five (the first, one in the middle, the last), a file of up to three blocks of which one
fits into a single part, so that both kinds of checksum occur and parts can be read out of order, and two edits, as
one may hide between digest and size and another after them. No block, no edit and both kinds of
store, with and without checksums, are among its cases. A look-up meets three runs, two of one
chip, with pages of one or two, so that there are full, partial and empty pages, and a limit of zero or two; one call may
fail anywhere. A token has up to six words: a selector with an embed inside it, or a placeholder in
a placeholder, takes no more. The lengths of a tool's output are zero, the bound, one more, and the two sides of the ninth digit. An
alias has up to two characters, enough for each kind to stand at the start and at the end; a call has up to two artifacts, each a
file or a tree of depth two over two names, one of them the marker's. A turn finds no file, an old record, or an old record with a torn line.
These parts end (`CHECK_DEADLOCK FALSE`): a call returns, a turn is over.

Fairness of the upload: `WF(CallPart)`, as every read, request and delay of `upload_verified` ends in
one way or another; the writer of the file owes nothing, and its edits are bounded, without which hashing a
file that grows for ever would never end.

Fairness of the store: `WF(JanitorNext)` and `WF(TimeNext)`, nothing else. The janitor is a scheduled job
(`docs/PLATFORM.md`: a cron job, a function) whose calls return, and time passes; no producer and no
operator owes anything. A job that stops in the middle of a sweep is a crash, and the next
sweep starts again. Failing calls are bounded, which stands for services that recover. The
liveness properties ask for objects old enough to age before the bounded clock ends (`CanAge`).

Fairness of the server analyzer: `WF(CallStep)`, as every wait of the call ends, by an event or by
its timeout (the deadline, the query's timeout, five seconds after SIGTERM), and `WF(Reap)`, as the
kernel ends a killed process. Servers owe nothing: they may never get ready, answer or obey. The one wait without
a timeout is the last read of a dead server's output, which ends at once unless a child holds the pipe;
that is why `EveryCallReturns` is checked without launchers.

## 5. Where the documentation and the code disagree

Each has a run whose counterexample shows it; none is an error of the model.

* `lost_answer` / `UsableIsIntact`. When the answer of `set_terminated(FINISHED)` is lost, `log`
  deletes the artifacts of a run that is FINISHED. If `fail_run` fails as well, or the process dies
  before it, the run stays usable over an empty prefix. `store.py:78-80` says it is not "mistaken
  for complete".
* `late_hold` / `HoldIsHonoured`. A hold placed after the scan of its prefix is deleted by the sweep
  with the blobs (`janitor.py:253`); `janitor.py:22-23` says such a prefix is never purged.
* `crashed_kept` / `AbandonedIsCollected`. `docs/PLATFORM.md` lists crashed runs among those
  whose prefixes the janitor removes; the code reports them and removes nothing, on purpose
  (`janitor.py:54-57`, `222-229`).
* `absent_endpoint` / `PurgedIsRetired`. `delete_run` takes `NOT_FOUND` for success, which
  `janitor.py:35-37` names as the answer of an absent endpoint: `purge` succeeds and the run stays usable.
* `launcher` / `AnswerIsOwn`. `terminate` and `kill` reach the process that was started
  (`analyzers.py:230`). When the start command is a shell or a wrapper script, the serving child
  stays, and the next call gets its answer from the previous run's server, the "silent wrong answer" that
  `analyzers.py:181-184` rules out as long as calls are made one after the other.

## 6. What is proved

Assumptions: `StoreAssumption`, `JanitorAssumption`, `OperatorAssumption`, `ReadAssumption`,
`AnalyzerAssumption`, `SayingsAssumption`, `TransferAssumption`, `LookupAssumption`, `IterationAssumption`, `AdviceAssumption`,
`LayoutAssumption` and `LibraryAssumption` only (run ids and foreign ids are disjoint, the marker is no artifact of the store's runs, bounds are naturals, a call is
not the name of a failure, no file's name is a slash, the lines around an advice fit into its bound, and
a part that stands still has a file and a token to stand on).

* `TypeCorrect`: `Spec => []TypeOK`.
* `Inductive`: `Spec => []IInv`. `IInv` strengthens the properties, none of which is inductive:
  * `LogOrder` ties the position of `log` to what the server knows of the run. Only a call in
    `finish` can set FINISHED, and then content and uri are there; only `fail_run`, the last thing a
    call does, sets FAILED. This gives `CompletenessContract` (`FinishedIsComplete`).
  * `SweepOrder` says that what the sweep condemned was a run's prefix, and that the run is dead
    still. The latter needs that dead runs stay dead (lemma `DeadStays`): a deleted run refuses
    writes, a FAILED one has no call left, an ABSENT one is never created again. With lemma
    `OnlyTheSweep` it gives `SweepSparesLive` and `ForeignIsSafe`.
  * `SweepAges` says that objects under a condemned prefix were past the grace period when the sweep began, or
    carry a later time than its clock, and that a marker there carries a later time. It gives
    `GracePeriod` and `HoldSurvives`, and explains why reading the clock *before* listing is right.
  * `UploadsStay` says that what `log` has uploaded so far is there. It gives `UploadsAreKept` (`LoggedIsIntact`),
    under the assumption that no sweep is mis-pointed, without which it is false for small buckets.

The steps of a sweep are proved once by shape (lemma `SweepMoves`: it begins, goes on, takes a
prefix up, condemns it), and both sweep invariants use that.

* `ReadingInductive`: `ReadingSpec => []RInv`, next to `IInv` (lemma `StepIsInductive` is used for both).
  `ReadOrder` says that whoever found a run usable came after its last upload: `artifacts_uri` and
  FINISHED are the last two things `log` writes, and `Past` positions do not go back (`PastStays`). `Gathered` says that, of a
  retained run, what a read has not found it has yet to come to. A step of the platform keeps it
  because a retained run loses no artifact (`UploadsStay`), and retirement and faults only grow
  (`RetiredStays`, `FaultsGrow`). This gives `DownloadsAreWhole` and `InventoriesAreWhole`, both for
  sweeps that ask the owner of the runs.
* `AnswersInductive`: `Spec => []AnswerInv`. `OthersAreGone` says that every process but that of the call
  under way is unborn, dead or dying, so that whoever answers behind the port is its own server. It needs that a call leaves
  the `finally` block with its process exited or killed. This gives `AnswersAreOwn`, under the
  assumption, part of `Spec`, that the start command is the server itself.

* `LifecycleIsKept`: `Spec => ImplementsLifecycle`, for sweeps that ask the owner: initial states map to initial states, and each
  action of the platform to a step of `RunLifecycle` or a stutter. It rests on `IInv` and on `PlansHold`: what is left to upload was
  planned, and nothing was uploaded before the plan. The step that matters is the sweep's deletion: whom it condemned is dead, hence retired (`SweepOrder`).
* `FailuresAreClean` (`CleanFailureLeavesNothing`) from `FailuresHold`: while no call has failed, the failure path has
  listed all there is, and ends with a dead run. `PurgesAreComplete` (`PurgeIsComplete`) from `PurgesHold`: who has an
  `artifacts_uri` comes after the last upload (`WritesOver`), so one listing has everything, and a round with errors raises.
  `BreakerCatchesMispointed` (`MispointedIsCaught`) from `CountsHold`: the considered are counted once, and a
  sweep that purges has passed the breaker; the assumption is a fraction below one.
* `TransferInductive`: `TransferSpec => []TransferInv`. While nobody edits, what has been digested, measured and sent so far are
  the file's own blocks; once confirmed, digest and object agree, or sizes do where nothing else can be compared.
  It gives `TransfersAreDigested` and `AlarmsAreDeserved`, for every number of attempts, blocks and edits.
* `TransfersKeepPromise`: `TransferSpec => ImplementsTransfer`. Reads, retries and failed requests are stutters, `SendDone` a `Put` or a
  `Raise` with the object in place, `Confirm` a `Succeed` or a `Raise`, an edit an `Edit`. That the object that appears is whole
  (`WholeAppears`) and that a success has one that is (`StepsKeepPromise`) are where the invariant is needed: while the file is left alone,
  digest, size and what is sent are the file's (`SteadyIsWhole`). The digest grows while it is the mapping's standard, so
  `NothingYetKeeps` says that there is no object to compare with it until it is complete.
* `TransfersRunOut`: `TransferSpec => TransferRunsOut`, the safety half of `EveryTransferEnds`. Every step of the call takes
  at least one from `StepsLeft`, a natural number: a failed attempt gives up what was sent and costs a whole attempt
  (`FailureCosts`), a block that is sent is one less unsent (`BlockCosts`), and no edit gives any back. What is left
  to TLC is that the call takes its steps, which is fairness.
* `RaceInductive` and `RacesAreWon`: experiments are not deleted, so whoever's `create_experiment` raised without a
  failing call finds one when it asks again, for any number of producers.
* `PagingInductive`: `LookupSpec => []PagingInv`. A page token is an offset into a listing that moves, so the invariant says where
  what has been read stands now. `TokenStands`: every run usable from the beginning is among those read, or in the listing at the token
  or behind it, as long as none was deleted; and every run that was read is deleted or in front of the token, as long as none was created. A creation
  puts a run in front of all (lemma `Joins`), a deletion moves those behind it up by one (`Removed`), and
  a page moves the token past what it reads. With types (`LookupTyped`) this gives `UsableAreFound`, `FoundOnlyOnce` and `LatestAreSelected`, for
  any number of runs, pages of any sizes, limits and faults.
* `TurnInductive`: `IterationSpec => []TurnInv`. `OutputIsOwn` says that the last line, if it is valid, is this turn's as soon as its tool
  has written anything or the file was fresh; a torn line spoils the one it is joined to, so a half record is never taken for a
  whole one. `AboutToLog` ties the accuracy to the tags that explain it. They give `RecordsAreOwn`, `BadNumbersLogged`, `ScalarsKept`, `AccuracyIsExplicit`.
* `AdviceInductive`: `AdviceSpec => []AdviceInv`. The arithmetic is lemma `BoundedFits`: what `_bounded` returns is at most the
  bound while the count of dropped characters has nine digits (`NineDigits`), and is marked when it is cut. It gives `AdviceAlwaysFits` for every bound and
  output, and `FailuresShow`.
* `NoPlaceholderReachesTheTool`: `AdviceSpec => []TemplatesExpand`, for templates of any length. What stays of a string stays in its order (`PickedInOrder`), and
  what a replacement leaves of a token are its own words and the new one (`Replaced`, `Stays`). If no brace survives the removal
  of the embeds, each brace of the token belongs to one of them (`BracesBelong`), unless one is inside another; so
  the expansion, which puts a path in their place, has none either (`ExpansionIsBraceless`, `ExpandedArguments`). The two exceptions of
  the property are where validation and expansion read a token differently, and the proof breaks down at exactly these.
* `LayoutInductive`: `LayoutSpec => []LayoutInv`, for aliases of any length and any names. It rests on what the string functions do.
  `ParsedShape`: the prefix that a reader has from the URI of an accepted alias is the one the files were uploaded to, or, when the alias ends in
  a newline, one that lacks it (`NothingDropped`, `OneDropped`). `MarkerIsBelow`: the marker is directly below it. `KeysAreOwn`: below a
  prefix no two paths share a key, and each gets its path back. `KeysAreApart`: the two prefixes of a broken alias share no key.
  The invariant says that the bucket has an object for every file and nothing but those and the hold's marker; `Hold` overwrites an artifact only where the
  keys are equal, `Download` and `Purge` find all there is unless the alias is broken. It gives `FilesStay`, `HoldsShow` and `ReferencesAreWhole`.
* `AnalyzerTypes`, `AdviceTypes`: type correctness of both kinds of analyzers.
* `LibraryIsItsParts`: a behaviour of `LibrarySpec` is one of `TransferSpec`, `LookupSpec`, `IterationSpec`, `AdviceSpec` and `LayoutSpec` at once, so that
  whatever is proved of a part holds in the run that checks the five. `LibraryTypes` follows from it and the types of the parts.

Model-checked only: `GarbageIsCollected`, `AbandonedIsReported`, `EveryCallReturns`, `ServersGoAway` and `EveryTransferEnds`, which are about what
must happen under fairness and out of TLAPS's reach; and the counterexamples of section 5, which are about what does not hold.

## 7. What is not modelled

* A listing of the bucket is one step, although it has pages, and the clock ticks for all services together.
* Delays between the attempts of an upload; the transfer manager beyond what the code relies on.
* Wording of messages; the checks of chip, region and workload id, which concern one value and nothing else. In `Producer`,
  whether `log` rejects is a choice of the model.
* MLflow's filter and order DSL, deleted experiments, and other page tokens than offsets.
* The adapters' field names, parameters of a run, and the length limit of tags.
* Several janitors at once: the code assumes one scheduled job.
* The mount mirrors the bucket: no cache, no delay. Unset mount paths, buckets of other regions and the building of local paths are left out.
* The query tool's run is one step, and so is a command analyzer's tool; their children and output limits are left out.
* Calls of the server analyzer made at the same time: the code serves one call at a time, with one replica.
* Wiring of the MCP server, environment variables, the producer examples (section 1): they have no state and no order of their own.

## 8. The plan

Done: the store with its producers, janitor, operators and consumers, the promise they implement, the analyzers, the
smaller models of section 2, and the proofs of section 6. Left: listings of the bucket page by page, in `Janitor` and
`Consumer`, if a cheaper instance of `Platform` can be found; the proof of paging in `Lookup` shows what their invariant would be.

The disagreements of section 5 keep an instance each, as each is a counterexample to one property; new properties
of the store belong in an instance that is there already.
