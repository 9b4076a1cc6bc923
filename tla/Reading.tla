------------------------------- MODULE Reading -------------------------------
(***************************************************************************)
(* The platform with readers: producers, sweeps and purges at work on the  *)
(* prefixes that consumers are reading.                                    *)
(***************************************************************************)
EXTENDS Platform, Consumer

readingVars == <<vars, reads>>

ReaderNext == (\E r \in Runs : ReadStep(r)) /\ UNCHANGED <<log, janitorVars, ops>>

ReadingInit == Init /\ ReadInit

ReadingNext == (Next /\ UNCHANGED reads) \/ ReaderNext

ReadingSpec == ReadingInit /\ [][ReadingNext]_readingVars

-----------------------------------------------------------------------------
\* A run that was logged in full and that nobody has begun to retire.
Retained(r) == log[r].pc = "returned" /\ ~runs[r].deleted /\ ~PurgeBegun(r)

\* Who reads a retained run reads all of it, however the read, its logging and the sweeps
\* interleave: a download that returns has every artifact.
DownloadIsWhole ==
    \A r \in Runs : Retained(r) /\ reads[r].pc = "returned" /\ reads[r].op = "download"
                      => log[r].plan \subseteq reads[r].seen

\* The same for an inventory while the mount answers, and a retained run that has artifacts is
\* never reported to have none.
InventoryIsWhole ==
    \A r \in Runs : Retained(r) /\ faults = 0 =>
        /\ reads[r].pc = "returned" /\ reads[r].op \in {"stage", "inventory"}
              => log[r].plan \subseteq reads[r].seen
        /\ reads[r].pc = "absent" => log[r].plan = {}
-----------------------------------------------------------------------------
(* The inductive invariant behind them, next to IInv. *)

\* A log() call that is past the point where it can still return a FINISHED run, or has.
Past(r) == log[r].pc \notin {"idle", "planning", "uploading", "content", "uri", "finish"}

\* Whoever found the run usable came after its uploads: artifacts_uri and FINISHED come last.
ReadOrder == \A r \in Runs : reads[r].pc \notin {"idle", "raised"} => Past(r)

\* Listings and fetches are a download's, walks and isdirs are not.
ReadModes ==
    \A r \in Runs : /\ reads[r].pc \in {"list", "fetch"} => reads[r].op = "download"
                    /\ reads[r].pc \in {"located", "base", "walk", "staged", "again"}
                          => reads[r].op # "download"

\* Of a retained run, what a read has not found it has yet to come to.
DownloadOf(r) ==
    /\ reads[r].pc = "fetch" => log[r].plan \subseteq reads[r].seen \cup reads[r].left
    /\ reads[r].pc = "returned" /\ reads[r].op = "download" => log[r].plan \subseteq reads[r].seen

InventoryOf(r) ==
    /\ reads[r].pc \in {"walk", "again"} => log[r].plan \subseteq reads[r].seen \cup reads[r].left
    /\ reads[r].pc = "returned" /\ reads[r].op \in {"stage", "inventory"}
          => log[r].plan \subseteq reads[r].seen
    /\ reads[r].pc \in {"base", "absent"} => log[r].plan = {}

Gathered ==
    "empty" \notin Servers =>
        \A r \in Runs : Retained(r) => DownloadOf(r) /\ (faults = 0 => InventoryOf(r))

RInv == ReadTypeOK /\ ReadOrder /\ ReadModes /\ Gathered
=============================================================================
