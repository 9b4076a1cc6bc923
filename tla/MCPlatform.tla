------------------------------ MODULE MCPlatform ------------------------------
(* Small instances of Platform for TLC. *)
EXTENDS Platform

CONSTANTS r1, r2, r3, backup, trace, profile, keep, exp,
          Logged,  \* runs whose log() has already returned when a seeded behaviour begins
          Managed  \* bound: runs the operators work on in a seeded behaviour

MCAliasOf == [p \in Prefixes |-> exp]

\* Behaviours that begin after the runs in Logged were registered at instant 0: the state their
\* log() calls reach from Init when no call fails.
SeededInit ==
    /\ clock = 0
    /\ objects = [p \in Prefixes |-> [k \in Keys |->
                    IF p \in Foreign \cup Logged /\ k \in Artifacts THEN 0 ELSE Missing]]
    /\ runs = [r \in Runs |-> [status |-> IF r \in Logged THEN "FINISHED" ELSE "ABSENT",
                               deleted |-> FALSE, content |-> r \in Logged, uri |-> r \in Logged]]
    /\ faults = 0
    /\ log = [r \in Runs |-> [pc |-> IF r \in Logged THEN "returned" ELSE "idle",
                              plan |-> IF r \in Logged THEN Artifacts ELSE {},
                              left |-> {}, keys |-> {}]]
    /\ JanitorInit
    /\ OpInit

\* Without purges: runs come to an end by failing, crashing or being soft-deleted.
UnpurgedNext ==
    \/ ProducerNext
    \/ JanitorNext
    \/ TimeNext
    \/ /\ \E r \in Managed : \/ Resolve(r)
                             \/ \E o \in Outcomes : Hold(r, o)
                             \/ UiDelete(r)
                             \/ HardDelete(r)
       /\ UNCHANGED <<log, janitorVars>>

UnpurgedSpec == SeededInit /\ [][UnpurgedNext]_vars

\* A purge from a RunRef resolved before the run had an artifacts_uri: it soft-deletes the run and
\* leaves every blob to the janitor.
BlindPurge ==
    /\ \E r \in Managed : ~ops[r].uri /\ \/ Purge(r, TRUE)
                                          \/ \E o \in Outcomes : Retire(r, o)
    /\ UNCHANGED <<log, janitorVars>>

\* Runs come to an end in every way that leaves blobs behind, with time and sweeps going on.
FairCollectionSpec == SeededInit /\ [][UnpurgedNext \/ BlindPurge]_vars /\ Fairness
=============================================================================
