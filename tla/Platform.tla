------------------------------- MODULE Platform -------------------------------
(***************************************************************************)
(* Producers, the janitor and operators at work on one bucket and one      *)
(* tracking server, with nothing but those two services between them.      *)
(***************************************************************************)
EXTENDS Producer, Janitor, Operator

vars == <<storeVars, log, janitorVars, ops>>

Init == StoreInit /\ LogInit /\ JanitorInit /\ OpInit

ProducerNext == (\E r \in Runs : LogStep(r)) /\ UNCHANGED <<janitorVars, ops>>
JanitorNext  == JanitorStep /\ UNCHANGED <<log, ops>>
OperatorNext == (\E r \in Runs : OpStep(r)) /\ UNCHANGED <<log, janitorVars>>
TimeNext     == Tick /\ UNCHANGED <<log, janitorVars, ops>>

Next == ProducerNext \/ JanitorNext \/ OperatorNext \/ TimeNext

Spec == Init /\ [][Next]_vars

\* The janitor is scheduled again and again, and time passes; nobody else owes anything.
Fairness == WF_vars(JanitorNext) /\ WF_vars(TimeNext)

-----------------------------------------------------------------------------
(* Properties of producers *)

\* Every variable keeps its shape.
TypeOK == StoreTypeOK /\ LogTypeOK /\ JanitorTypeOK /\ OpTypeOK

\* The completeness contract of finalize_run: whatever fails, crashes or is retired meanwhile,
\* a run that says FINISHED has all of its content and its artifacts_uri.
FinishedIsComplete ==
    \A r \in Runs : runs[r].status = "FINISHED" => runs[r].content /\ runs[r].uri

\* A run whose log() returned keeps every artifact it uploaded for as long as it is usable and
\* no operator purges it: no sweep and no failure path ever reaches its prefix.
LoggedIsIntact ==
    \A r \in Runs : log[r].pc = "returned" /\ ~runs[r].deleted /\ ~PurgeBegun(r)
                      => Usable(r) /\ log[r].plan \subseteq Present(r)

\* A log() that raises while every service answers leaves no artifact behind and no run that
\* still looks alive: "neither a storage leak nor mistaken for complete".
CleanFailureLeavesNothing ==
    \A r \in Runs : log[r].pc = "raised" /\ faults = 0
                      => Present(r) \subseteq {Marker} /\ Dead(r)

\* What a consumer of resolve() relies on: a usable run nobody purges has its artifacts.
UsableIsIntact ==
    \A r \in Runs : Usable(r) /\ ~PurgeBegun(r) => log[r].plan \subseteq Present(r)

-----------------------------------------------------------------------------
(* Properties of the janitor *)

\* A step of the sweep that takes object k of prefix p away.
JanitorDeletes(p, k) ==
    /\ jpc = "deleting"
    /\ UNCHANGED <<log, ops>>
    /\ k \in Present(p)
    /\ k \notin Present(p)'

\* A sweep that asks the server owning the runs deletes nothing but objects of dead runs: never
\* those of a running or usable run, however the run and the prefix changed since their scan.
JanitorSparesLive ==
    [][\A p \in Prefixes, k \in Keys :
          JanitorDeletes(p, k) /\ sweep.server = "owner" => p \in Runs /\ Dead(p)]_vars

\* A hold placed before the sweep captured its clock survives the sweep.
EarlierHoldSurvives ==
    [][\A p \in Prefixes :
          JanitorDeletes(p, Marker) => objects[p][Marker] >= sweep.now]_vars

\* The grace period: an object the sweep deletes was older than MinAge when the sweep began,
\* or was written while the sweep was under way.
GraceIsRespected ==
    [][\A p \in Prefixes, k \in Keys :
          JanitorDeletes(p, k) => \/ objects[p][k] + MinAge <= sweep.now
                                  \/ objects[p][k] >= sweep.now]_vars

\* A sweep pointed at a server that knows no run never starts deleting when it considered
\* enough prefixes, unless some of them are held or were emptied during the sweep.
MispointedIsCaught ==
    LET considered == report.scanned \ (report.recent \cup report.foreign)
    IN  /\ jpc \in {"purging", "deleting"}
        /\ sweep.server = "empty"
        /\ Cardinality(considered) >= MinScanned
        => considered # report.orphans

\* Data no producer wrote is never touched, whatever server the sweep talks to.
ForeignIsLeftAlone ==
    \A p \in Foreign : objects[p] = [k \in Keys |-> IF k \in Artifacts THEN 0 ELSE Missing]

\* The retention marker as its documentation has it: a prefix that carries it is never purged.
HoldIsHonoured ==
    [][\A p \in Prefixes, k \in Keys : JanitorDeletes(p, k) => ~HasMarker(p)]_vars

\* A purge that returns took every artifact of the run: what delete_prefix listed once is all
\* there was, since artifacts_uri is set only after the last upload, and an error of one round
\* makes the purge raise.
PurgeIsComplete ==
    \A r \in Runs : ops[r].pc \in {"purged", "kept"} /\ ops[r].uri => Present(r) \subseteq {Marker}

\* delete_run as its documentation has it: a purge that reports success does not leave the
\* run usable over a deleted prefix.
PurgedIsRetired ==
    \A r \in Runs : ops[r].pc = "purged" => ~Usable(r)

-----------------------------------------------------------------------------
(* What all of this amounts to for one run. *)

\* The phase the promise knows a run's state under.
PhaseOf(r) ==
    CASE log[r].pc = "idle" -> "unknown"
      [] log[r].pc # "idle" /\ (Dead(r) \/ PurgeBegun(r)) -> "retired"
      [] OTHER -> CASE log[r].pc = "returned" -> "published"
                    [] log[r].pc \in {"cleanlist", "clean", "fail"} -> "failing"
                    [] log[r].pc \in {"raised", "crashed"} -> "abandoned"
                    [] OTHER -> "writing"

PlanOf(r)  == log[r].plan
BlobsOf(r) == Present(r) \ {Marker}

Lifecycle == INSTANCE RunLifecycle
             WITH phase <- [r \in Runs |-> PhaseOf(r)],
                  plan  <- [r \in Runs |-> PlanOf(r)],
                  blobs <- [r \in Runs |-> BlobsOf(r)]

\* Producers, sweeps, holds, purges and retirements together keep the promise of RunLifecycle:
\* the blobs of a run that is being written, published, cleaned up or abandoned change only as
\* its own log() call has it, and a run is published only with all it planned.
ImplementsLifecycle == Lifecycle!LifeSpec

-----------------------------------------------------------------------------
(* The inductive invariant behind the safety properties. *)

\* How far a log() call has come and what the server knows of its run.  A run id whose call has
\* not begun is unknown to everybody; only fail_run, the last thing a call does, makes it FAILED.
OrderOf(r) ==
    /\ log[r].pc = "idle" => /\ runs[r].status = "ABSENT"
                             /\ Present(r) = {}
                             /\ ops[r].pc = "idle"
    /\ log[r].pc = "uri" => runs[r].content
    /\ log[r].pc = "finish" => runs[r].content /\ runs[r].uri
    /\ runs[r].status = "FINISHED" => runs[r].content /\ runs[r].uri
    /\ runs[r].status = "FAILED" => log[r].pc = "raised"
    /\ log[r].pc \in {"planning", "uploading", "content", "uri", "finish"}
          => runs[r].status = "RUNNING" \/ runs[r].deleted
    /\ log[r].pc = "returned" => runs[r].status = "FINISHED" \/ runs[r].deleted

LogOrder == \A r \in Runs : OrderOf(r)

\* The prefixes a sweep means to delete, or is about to decide on.
Condemned(p)  == p \in report.orphans
Questioned(p) == jpc = "classify" /\ p = current.prefix

\* Whoever is condemned was a run's prefix and is beyond recall: a run once dead stays dead,
\* because its log() call is past create_run and the server refuses the others.
SweepOrder ==
    ~Stopped =>
        /\ sweep.server \in Servers
        /\ \A p \in Prefixes : Condemned(p) \/ Questioned(p) => p \in Runs /\ log[p].pc # "idle"
        /\ \A p \in Runs : Condemned(p) /\ sweep.server = "owner" => Dead(p)
        /\ jpc = "deleting" => Condemned(current.prefix)

\* The objects of p were old when the sweep began, or are younger than its clock.
AgedOrNew(p) ==
    \A k \in Present(p) : objects[p][k] + MinAge <= sweep.now \/ objects[p][k] >= sweep.now

\* A marker of p is younger than the sweep's clock.
HeldLate(p) == Marker \in Present(p) => objects[p][Marker] >= sweep.now

\* A prefix the sweep is after was past the grace period at its scan and had no marker then;
\* whatever appeared since is stamped with a later time than the sweep's clock.
SweepAges ==
    ~Stopped =>
        /\ sweep.now <= clock
        /\ \A p \in Prefixes :
              /\ Condemned(p) \/ Questioned(p) => AgedOrNew(p)
              /\ Condemned(p) \/ (Questioned(p) /\ ~current.marker) => HeldLate(p)

\* What has been uploaded stays, unless the run is retired, when every sweep asks the owner.
UploadsOf(r) ==
    ~runs[r].deleted /\ ~PurgeBegun(r) =>
        /\ log[r].pc = "uploading" => log[r].plan \ log[r].left \subseteq Present(r)
        /\ log[r].pc \in {"content", "uri", "finish", "returned"} => log[r].plan \subseteq Present(r)

UploadsStay == "empty" \notin Servers => \A r \in Runs : UploadsOf(r)

IInv == TypeOK /\ LogOrder /\ SweepOrder /\ SweepAges /\ UploadsStay

\* What is left to upload was planned, and nothing is uploaded before the plan is made.
PlansHold ==
    \A r \in Runs : /\ log[r].left \subseteq log[r].plan
                    /\ log[r].pc \in {"idle", "planning"} => BlobsOf(r) = {}

\* A log() call past set_uri uploads no more, and artifacts_uri says that it is: what a purge
\* lists is all there will be.
WritesOver(r) == log[r].pc \notin {"idle", "planning", "uploading", "content", "uri"}

PurgesHold ==
    \A r \in Runs :
        /\ runs[r].uri \/ ops[r].uri => WritesOver(r)
        /\ ops[r].uri /\ ops[r].pc = "deleting" => BlobsOf(r) \subseteq ops[r].keys
        /\ ops[r].uri /\ ops[r].pc \in {"retiring", "purged", "kept"} => BlobsOf(r) = {}

\* While every service answers, the failure path gets through what it listed.
FailuresHold ==
    faults = 0 => \A r \in Runs :
        /\ log[r].pc = "clean" => BlobsOf(r) \subseteq log[r].keys
        /\ log[r].pc \in {"fail", "raised"} => BlobsOf(r) = {}
        /\ log[r].pc = "raised" => Dead(r)

\* A prefix is scanned once and counted once, and the breaker has passed what is purged.
CountsHold ==
    ~Stopped =>
        /\ IsFiniteSet(report.scanned)
        /\ pending.prefixes \cap report.scanned = {}
        /\ jpc \in {"listing", "aliases"} => report.scanned = {}
        /\ report.recent \cup report.foreign \subseteq report.scanned
        /\ report.recent \cap report.foreign = {}
        /\ jpc \in {"purging", "deleting"} => ~BreakerTrips

-----------------------------------------------------------------------------
(* Liveness *)

\* No write to p in the last `age` instants before the end of time keeps it from ageing.
CanAge(p, age) == \A k \in Present(p) : objects[p][k] + age < MaxClock

\* Garbage: blobs without a hold of a run that is failed, soft-deleted or gone.
Garbage(r) == /\ Present(r) # {} /\ Marker \notin Present(r) /\ CanAge(r, MinAge)
              /\ runs[r].deleted \/ runs[r].status \in {"ABSENT", "FAILED"}

\* Garbage is eventually collected, unless the breaker stops the sweeps.
GarbageIsCollected ==
    \A r \in Runs : Garbage(r) ~> ~Garbage(r) \/ jpc = "tripped"

\* A producer that crashed, or whose failure path could neither clean up nor mark the run FAILED:
\* the run is RUNNING for ever over the blobs that were uploaded.
Abandoned(r) == /\ log[r].pc \in {"crashed", "raised"} /\ Present(r) # {}
                /\ runs[r].status = "RUNNING" /\ ~runs[r].deleted
                /\ CanAge(r, MinAge) /\ CanAge(r, StaleAge)

\* Abandoned blobs are eventually named in the report of a sweep, unless the breaker stops the
\* sweeps.
AbandonedIsReported ==
    \A r \in Runs : Abandoned(r) ~> \/ ~Abandoned(r)
                                       \/ (jpc = "done" /\ r \in report.stale)
                                       \/ jpc = "tripped"

\* The janitor's purpose as its documentation has it: the blobs a producer abandoned are removed.
AbandonedIsCollected ==
    \A r \in Runs : Abandoned(r) ~> ~Abandoned(r)
=============================================================================
