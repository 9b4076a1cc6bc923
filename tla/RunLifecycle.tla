---------------------------- MODULE RunLifecycle -----------------------------
(***************************************************************************)
(* What the platform promises about one run, without the calls that keep   *)
(* the promise: its blobs only grow while they are written, it is          *)
(* published with all of them at once, a published run never changes, a    *)
(* failed call takes back what it wrote, and only a retired run's blobs    *)
(* are anybody's to remove.                                                *)
(***************************************************************************)
CONSTANTS Runs, Artifacts

VARIABLES
    phase,   \* [Runs -> Phases]
    plan,    \* [Runs -> the artifacts the run is to have]
    blobs    \* [Runs -> the artifacts in the bucket under the run's prefix]

lifeVars == <<phase, plan, blobs>>

Phases == {"unknown",     \* no log() call has been made
           "writing",     \* its log() call is under way
           "published",   \* its log() call returned
           "failing",     \* its log() call is cleaning up after an error
           "abandoned",   \* its log() call is over, the run still looks alive
           "retired"}     \* failed, soft-deleted, gone, or being purged

LifeInit ==
    /\ phase = [r \in Runs |-> "unknown"]
    /\ plan = [r \in Runs |-> {}]
    /\ blobs = [r \in Runs |-> {}]

Become(r, next) == phase' = [phase EXCEPT ![r] = next] /\ UNCHANGED <<plan, blobs>>

\* A call that raises before its run exists leaves nothing, or a run nobody knows.
Begin(r)   == phase[r] = "unknown" /\ \E p \in {"writing", "retired", "abandoned"} : Become(r, p)
Publish(r) == phase[r] = "writing" /\ plan[r] \subseteq blobs[r] /\ Become(r, "published")
Abandon(r) == phase[r] \in {"writing", "failing"} /\ Become(r, "abandoned")
Retire(r)  == phase[r] # "unknown" /\ Become(r, "retired")

\* The artifacts are chosen before any of them is written.
Plan(r) ==
    /\ phase[r] = "writing"
    /\ blobs[r] = {}
    /\ \E chosen \in SUBSET Artifacts : plan' = [plan EXCEPT ![r] = chosen]
    /\ UNCHANGED <<phase, blobs>>

Write(r) ==
    /\ phase[r] = "writing"
    /\ \E a \in plan[r] : blobs' = [blobs EXCEPT ![r] = @ \cup {a}]
    /\ UNCHANGED <<phase, plan>>

\* The write that fails may have been applied.
Fail(r) ==
    /\ phase[r] = "writing"
    /\ phase' = [phase EXCEPT ![r] = "failing"]
    /\ \/ UNCHANGED blobs
       \/ \E a \in plan[r] : blobs' = [blobs EXCEPT ![r] = @ \cup {a}]
    /\ UNCHANGED plan

Clean(r) ==
    /\ phase[r] = "failing"
    /\ \E some \in SUBSET blobs[r] : blobs' = [blobs EXCEPT ![r] = some]
    /\ UNCHANGED <<phase, plan>>

\* Sweeps and purges delete the blobs of a retired run, and a producer that has not noticed
\* yet may still plan and write.
Decay(r) ==
    /\ phase[r] = "retired"
    /\ \E chosen \in SUBSET Artifacts : plan' = [plan EXCEPT ![r] = chosen]
    /\ \E some \in SUBSET Artifacts : blobs' = [blobs EXCEPT ![r] = some]
    /\ UNCHANGED phase

LifeStep(r) ==
    \/ Begin(r) \/ Publish(r) \/ Fail(r) \/ Abandon(r) \/ Retire(r)
    \/ Plan(r) \/ Write(r) \/ Clean(r) \/ Decay(r)

LifeNext == \E r \in Runs : LifeStep(r)

LifeSpec == LifeInit /\ [][LifeNext]_lifeVars
=============================================================================
