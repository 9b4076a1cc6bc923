------------------------------- MODULE Janitor --------------------------------
(***************************************************************************)
(* Janitor.sweep: canary, capture the clock, list the run prefixes, then   *)
(* scan and classify them one by one, test the circuit breaker, and only   *)
(* then delete.  Every call to S3 or MLflow is a step of its own, so that  *)
(* producers, operators and the clock run between any two of them.         *)
(***************************************************************************)
EXTENDS TraceStore

CONSTANTS
    MinAge,        \* min_age_seconds: the grace period
    StaleAge,      \* stale_running_seconds: a RUNNING run silent for longer is reported
    MinScanned,    \* _MIN_SCANNED_FOR_FRACTION
    OrphanNum,     \* max_orphan_fraction = OrphanNum / OrphanDen
    OrphanDen,
    Servers,       \* tracking servers a sweep may be pointed at: "owner", "empty"
    ApplyModes     \* values of JANITOR_APPLY a sweep may be started with

ASSUME JanitorAssumption ==
    /\ MinAge \in Nat
    /\ StaleAge \in Nat
    /\ MinScanned \in Nat
    /\ OrphanNum \in Nat
    /\ OrphanDen \in Nat \ {0}
    /\ Servers \subseteq {"owner", "empty"}
    /\ ApplyModes \subseteq BOOLEAN

VARIABLES
    jpc,       \* where the sweep is
    sweep,     \* its settings: apply, the server it talks to, the captured clock
    pending,   \* aliases to list, prefixes to scan
    current,   \* the prefix being classified or deleted, and what its scan saw
    report,    \* the SweepReport, its lists as sets
    doomed     \* keys listed under the current prefix and not deleted yet

janitorVars == <<jpc, sweep, pending, current, report, doomed>>

JanitorPCs == {"idle", "listing", "aliases", "scanning", "classify", "purging", "deleting",
               "done", "aborted", "tripped", "raised"}

Stopped == jpc \in {"idle", "done", "aborted", "tripped", "raised"}

NoPrefix == "none"

SweepReport == [scanned : SUBSET Prefixes,   \* prefixes looked at
                recent  : SUBSET Prefixes,   \* skipped_recent: within the grace period
                foreign : SUBSET Prefixes,   \* skipped_foreign: the id is no run id
                orphans : SUBSET Prefixes,   \* no live run, to be purged
                kept    : SUBSET Prefixes,   \* no live run, but held
                stale   : SUBSET Prefixes,   \* stale_running: RUNNING, silent for too long
                purged  : SUBSET Prefixes]

EmptyReport == [scanned |-> {}, recent |-> {}, foreign |-> {}, orphans |-> {},
                kept |-> {}, stale |-> {}, purged |-> {}]

JanitorTypeOK ==
    /\ jpc \in JanitorPCs
    /\ sweep \in [apply : BOOLEAN, server : {"owner", "empty"}, now : 0..MaxClock]
    /\ pending \in [aliases : SUBSET Aliases, prefixes : SUBSET Prefixes]
    /\ current \in [prefix : Prefixes \cup {NoPrefix}, marker : BOOLEAN, silent : BOOLEAN]
    /\ report \in SweepReport
    /\ doomed \in SUBSET Keys
    /\ jpc \in {"classify", "deleting"} => current.prefix \in Prefixes

NoCurrent == [prefix |-> NoPrefix, marker |-> FALSE, silent |-> FALSE]
Nothing   == [aliases |-> {}, prefixes |-> {}]
NoSweep   == [apply |-> FALSE, server |-> "owner", now |-> 0]

JanitorInit ==
    /\ jpc = "idle"
    /\ sweep = NoSweep
    /\ pending = Nothing
    /\ current = NoCurrent
    /\ report = EmptyReport
    /\ doomed = {}

\* The sweep is over.  An exception ("raised", or JanitorAbortError: "aborted" by MLflow's
\* answer, "tripped" by the breaker) takes the report with it; "done" returns it.
Stop(pc) ==
    /\ jpc' = pc
    /\ report' = IF pc = "done" THEN report ELSE EmptyReport
    /\ sweep' = NoSweep
    /\ pending' = Nothing
    /\ current' = NoCurrent
    /\ doomed' = {}

-----------------------------------------------------------------------------
\* The canary, then the clock.  "owner" and "empty" servers both answer not-found for the
\* canary; a server that does not answer aborts the sweep.
StartSweep(apply, server, o) ==
    /\ Stopped
    /\ o \in {"ok", "failed"}
    /\ Spend(o)
    /\ IF Raised(o)
         THEN Stop("aborted")
         ELSE /\ jpc' = "listing"
              /\ sweep' = [apply |-> apply, server |-> server, now |-> clock]
              /\ report' = EmptyReport
              /\ UNCHANGED <<pending, current, doomed>>
    /\ UNCHANGED <<clock, objects, runs>>

\* The prefixes that hold objects now.
Occupied == {p \in Prefixes : Present(p) # {}}

\* _common_prefixes("")
ListAliases(o) ==
    /\ jpc = "listing"
    /\ o \in {"ok", "failed"}
    /\ Spend(o)
    /\ IF Raised(o)
         THEN Stop("raised")
         ELSE /\ jpc' = "aliases"
              /\ pending' = [pending EXCEPT !.aliases = {AliasOf[p] : p \in Occupied}]
              /\ UNCHANGED <<sweep, current, report, doomed>>
    /\ UNCHANGED <<clock, objects, runs>>

\* _common_prefixes(alias)
ListAlias(a, o) ==
    /\ jpc = "aliases"
    /\ a \in pending.aliases
    /\ o \in {"ok", "failed"}
    /\ Spend(o)
    /\ IF Raised(o)
         THEN Stop("raised")
         ELSE /\ pending' = [aliases  |-> pending.aliases \ {a},
                             prefixes |-> pending.prefixes \cup
                                            {p \in Occupied : AliasOf[p] = a}]
              /\ UNCHANGED <<jpc, sweep, current, report, doomed>>
    /\ UNCHANGED <<clock, objects, runs>>

Listed ==
    /\ jpc = "aliases"
    /\ pending.aliases = {}
    /\ jpc' = "scanning"
    /\ UNCHANGED <<storeVars, sweep, pending, current, report, doomed>>

\* Mutant: the grace period is measured from the oldest object.
RecentByOldest(p) == \A k \in Present(p) : sweep.now - objects[p][k] < MinAge

\* The newest object of p was written within the grace period.
Recent(p) == \E k \in Present(p) : sweep.now - objects[p][k] < MinAge

\* Mutant: the scan looks for the marker under another name.
HasMarkerMisnamed(p) == FALSE

HasMarker(p) == Marker \in Present(p)

\* Mutant: the age is computed with its operands swapped.
SilentSwapped(p) == \A k \in Present(p) : objects[p][k] - sweep.now > StaleAge

\* Not even the newest object of p was written within the stale window.
Silent(p) == \A k \in Present(p) : sweep.now - objects[p][k] > StaleAge

\* Mutant: anything two levels deep is taken for a run.
IsForeignNever(p) == FALSE

\* The id of the prefix does not have the shape of a run id.
IsForeign(p) == p \in Foreign

\* The scanned prefix is done with.
Skip(counted) ==
    /\ report' = counted
    /\ UNCHANGED <<jpc, sweep, current, doomed>>

\* _scan_prefix, and the checks that need no answer from MLflow: an empty prefix and one within
\* the grace period are skipped, and so is one whose id is not a run id.
ScanVerdict(p) ==
    LET counted == [report EXCEPT !.scanned = @ \cup {p}]
    IN  \/ /\ Present(p) = {}
           /\ Skip(counted)
        \/ /\ Present(p) # {} /\ Recent(p)
           /\ Skip([counted EXCEPT !.recent = @ \cup {p}])
        \/ /\ Present(p) # {} /\ ~Recent(p) /\ IsForeign(p)
           /\ Skip([counted EXCEPT !.foreign = @ \cup {p}])
        \/ /\ Present(p) # {} /\ ~Recent(p) /\ ~IsForeign(p)
           /\ report' = counted
           /\ jpc' = "classify"
           /\ current' = [prefix |-> p, marker |-> HasMarker(p), silent |-> Silent(p)]
           /\ UNCHANGED <<sweep, doomed>>

Scan(p, o) ==
    /\ jpc = "scanning"
    /\ p \in pending.prefixes
    /\ o \in {"ok", "failed"}
    /\ Spend(o)
    /\ IF Raised(o)
         THEN Stop("raised")
         ELSE ScanVerdict(p) /\ pending' = [pending EXCEPT !.prefixes = @ \ {p}]
    /\ UNCHANGED <<clock, objects, runs>>

\* Mutant: every run that is not FINISHED is an orphan.
IsOrphanUnlessFinished(p) == \/ sweep.server = "empty"
                             \/ p \in Foreign
                             \/ p \in Runs /\ (runs[p].deleted \/ runs[p].status # "FINISHED")

\* Mutant: only the status is looked at, which a soft-delete does not change.
IsOrphanByStatus(p) == \/ sweep.server = "empty"
                       \/ p \in Foreign
                       \/ p \in Runs /\ runs[p].status \in {"ABSENT", "FAILED"}

\* _classify: the server the sweep talks to says the prefix has no live run behind it.
IsOrphan(p) == \/ sweep.server = "empty"
               \/ p \in Foreign
               \/ p \in Runs /\ Dead(p)

\* The run is reported RUNNING: its blobs are kept, and named in the report if it is silent.
IsRunning(p) == ~IsOrphan(p) /\ runs[p].status = "RUNNING"

\* The prefix is filed under the report's lists and the scan goes on.
File(filed) ==
    /\ report' = filed
    /\ jpc' = "scanning"
    /\ current' = NoCurrent
    /\ UNCHANGED <<sweep, pending, doomed>>

\* The marker and the age are those the scan saw, the run's state is the one the server reports
\* now.
Disposition(p) ==
    \/ /\ IsOrphan(p) /\ current.marker
       /\ File([report EXCEPT !.kept = @ \cup {p}])
    \/ /\ IsOrphan(p) /\ ~current.marker
       /\ File([report EXCEPT !.orphans = @ \cup {p}])
    \/ /\ IsRunning(p) /\ current.silent
       /\ File([report EXCEPT !.stale = @ \cup {p}])
    \/ /\ ~IsOrphan(p) /\ ~(IsRunning(p) /\ current.silent)
       /\ File(report)

\* Any error but not-found aborts the sweep.
Classify(o) ==
    /\ jpc = "classify"
    /\ o \in {"ok", "failed"}
    /\ Spend(o)
    /\ IF Raised(o) THEN Stop("aborted") ELSE Disposition(current.prefix)
    /\ UNCHANGED <<clock, objects, runs>>

-----------------------------------------------------------------------------
Considered ==
    Cardinality(report.scanned) - Cardinality(report.recent) - Cardinality(report.foreign)

\* Mutant: a bucket of exactly the minimum size does not trip the breaker.
BreakerTripsAboveMin ==
    /\ Considered > MinScanned
    /\ Cardinality(report.orphans) * OrphanDen > OrphanNum * Considered

\* Too large a share of what was considered is about to go.
BreakerTrips ==
    /\ Considered >= MinScanned
    /\ Cardinality(report.orphans) * OrphanDen > OrphanNum * Considered

\* find_orphans returned: a dry run ends here, and the breaker decides before any deletion.
Scanned ==
    /\ jpc = "scanning"
    /\ pending.prefixes = {}
    /\ IF ~sweep.apply THEN Stop("done")
       ELSE IF BreakerTrips THEN Stop("tripped")
       ELSE /\ jpc' = "purging"
            /\ UNCHANGED <<sweep, pending, current, report, doomed>>
    /\ UNCHANGED storeVars

\* delete_prefix of the next orphan: its keys are listed anew.  Run state, age and marker are
\* not looked at again.
ListOrphan(p, o) ==
    /\ jpc = "purging"
    /\ p \in report.orphans \ report.purged
    /\ o \in {"ok", "failed"}
    /\ Spend(o)
    /\ IF Raised(o)
         THEN Stop("raised")
         ELSE /\ jpc' = "deleting"
              /\ current' = [NoCurrent EXCEPT !.prefix = p]
              /\ doomed' = Present(p)
              /\ UNCHANGED <<sweep, pending, report>>
    /\ UNCHANGED <<clock, objects, runs>>

DeleteBatchOf(batch, gone, o) ==
    /\ jpc = "deleting"
    /\ doomed # {}
    /\ IsBatch(batch, doomed)
    /\ DeleteRound(current.prefix, batch, gone, o)
    /\ IF Raised(o)
         THEN Stop("raised")
         ELSE /\ doomed' = doomed \ batch
              /\ UNCHANGED <<jpc, sweep, pending, current, report>>
    /\ UNCHANGED <<clock, runs>>

OrphanPurged ==
    /\ jpc = "deleting"
    /\ doomed = {}
    /\ jpc' = "purging"
    /\ report' = [report EXCEPT !.purged = @ \cup {current.prefix}]
    /\ current' = NoCurrent
    /\ UNCHANGED <<storeVars, sweep, pending, doomed>>

SweepDone ==
    /\ jpc = "purging"
    /\ report.orphans \subseteq report.purged
    /\ Stop("done")
    /\ UNCHANGED storeVars

JanitorCrash ==
    /\ ~Stopped
    /\ SpendCrash
    /\ Stop("raised")
    /\ UNCHANGED <<clock, objects, runs>>

JanitorCall(o) ==
    \/ ListAliases(o)
    \/ \E a \in Aliases : ListAlias(a, o)
    \/ \E p \in Prefixes : Scan(p, o)
    \/ Classify(o)
    \/ \E p \in Prefixes : ListOrphan(p, o)
    \/ \E batch \in SUBSET Keys : \E gone \in SUBSET batch : DeleteBatchOf(batch, gone, o)

StartSome(o) == \E apply \in ApplyModes, server \in Servers : StartSweep(apply, server, o)

JanitorStep ==
    \/ \E o \in Outcomes : StartSome(o) \/ JanitorCall(o)
    \/ Listed
    \/ Scanned
    \/ OrphanPurged
    \/ SweepDone
    \/ JanitorCrash
=============================================================================
