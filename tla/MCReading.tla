------------------------------ MODULE MCReading ------------------------------
(* Small instances of Reading for TLC. *)
EXTENDS Reading, TLC

CONSTANTS r1, trace, profile, keep, exp

MCAliasOf == [p \in Prefixes |-> exp]

\* The two artifacts are interchangeable.
Symmetry == Permutations(Artifacts)

\* Runs are retired in the UI; nobody purges or holds them or runs mlflow gc.
UiNext ==
    \/ (ProducerNext \/ JanitorNext \/ TimeNext) /\ UNCHANGED reads
    \/ (\E r \in Runs : UiDelete(r)) /\ UNCHANGED <<log, janitorVars, reads>>
    \/ ReaderNext

UiSpec == ReadingInit /\ [][UiNext]_readingVars
=============================================================================
