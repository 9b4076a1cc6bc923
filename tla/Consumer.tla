------------------------------ MODULE Consumer ------------------------------
(***************************************************************************)
(* Readers of logged runs: the analysis service (stage, resolve_artifacts, *)
(* analyze) on the mounted bucket, and store.download.  A read looks at    *)
(* the run once and at its prefix many times, while producers, sweeps and  *)
(* purges go on.  One reader per run; it may read again and again.         *)
(***************************************************************************)
EXTENDS TraceStore

CONSTANT ReadOps   \* the operations of the readers

ASSUME ReadAssumption == ReadOps \subseteq {"stage", "inventory", "command", "download"}

VARIABLE reads   \* [Runs -> the state of the reader of the run]

\* "absent", "unmounted", "raised": the read raises, blaming the run, the mount, or neither.
ReadEnds == {"returned", "absent", "unmounted", "raised"}
ReadPCs  == {"idle", "located", "base", "walk", "staged", "again", "list", "fetch"} \cup ReadEnds

\* left: keys the read has not come to; seen: keys it has found.
ReadRecord == [pc : ReadPCs, op : ReadOps \cup {"none"}, left : SUBSET Keys, seen : SUBSET Keys]

ReadTypeOK == reads \in [Runs -> ReadRecord]

ReadInit == reads = [r \in Runs |-> [pc |-> "idle", op |-> "none", left |-> {}, seen |-> {}]]

ReadGoesTo(r, pc) == reads' = [reads EXCEPT ![r].pc = pc]

\* The read starts over at `keys`, having found nothing.
Gather(r, pc, keys) ==
    reads' = [reads EXCEPT ![r].pc = pc, ![r].left = keys, ![r].seen = {}]

\* The caller of a read that raises gets nothing.
ReadRaises(r) == Gather(r, "raised", {})

\* A call of a reader either works or fails without any effect.
ReadOutcomes == {"ok", "failed"}

-----------------------------------------------------------------------------
\* Mutant: the prefix of a run is computed from its id, whatever the run's state.
ReadableById(r) == runs[r].status # "ABSENT"

\* resolve returns usable runs only; locate and download want an artifacts_uri.
Readable(r) == Usable(r) /\ runs[r].uri

Ask(r, op, o) ==
    /\ reads[r].pc \in {"idle"} \cup ReadEnds
    /\ Spend(o)
    /\ reads' = [reads EXCEPT ![r] =
                   [pc |-> IF Raised(o) \/ ~Readable(r) THEN "raised"
                           ELSE IF op = "download" THEN "list" ELSE "located",
                    op |-> op, left |-> {}, seen |-> {}]]
    /\ UNCHANGED <<clock, objects, runs>>

\* _staged_dir: a prefix is a directory while there is an object under it.  isdir answers
\* "no" to an error of the mount as well.
IsDir(r, o) ==
    /\ reads[r].pc = "located"
    /\ Spend(o)
    /\ IF Raised(o) \/ Present(r) = {} THEN ReadGoesTo(r, "base") ELSE Gather(r, "walk", Keys)
    /\ UNCHANGED <<clock, objects, runs>>

\* The mount's base is asked next, to say whose fault it is.
IsBase(r, o) ==
    /\ reads[r].pc = "base"
    /\ Spend(o)
    /\ ReadGoesTo(r, IF Raised(o) THEN "unmounted" ELSE "absent")
    /\ UNCHANGED <<clock, objects, runs>>

\* os.walk and rglob come to one directory after another, and skip what they cannot list.
Visit(r, k, o) ==
    /\ reads[r].pc \in {"walk", "again"}
    /\ k \in reads[r].left
    /\ Spend(o)
    /\ reads' = [reads EXCEPT ![r].left = @ \ {k},
                              ![r].seen = IF ~Raised(o) /\ k \in Present(r) THEN @ \cup {k} ELSE @]
    /\ UNCHANGED <<clock, objects, runs>>

\* stage and resolve_artifacts return what they found; analyze hands the directory on.
WalkEnds(r) ==
    /\ reads[r].pc \in {"walk", "again"}
    /\ reads[r].left = {}
    /\ ReadGoesTo(r, IF reads[r].pc = "walk" /\ reads[r].op # "stage" THEN "staged" ELSE "returned")
    /\ UNCHANGED storeVars

\* The inventory analyzer looks at the directory again and walks it anew.
Inventory(r, o) ==
    /\ reads[r].pc = "staged"
    /\ reads[r].op = "inventory"
    /\ Spend(o)
    /\ IF Raised(o) \/ Present(r) = {} THEN ReadRaises(r) ELSE Gather(r, "again", Keys)
    /\ UNCHANGED <<clock, objects, runs>>

\* A command analyzer expands its file selectors, each of which must match, and runs its tool
\* on the files; how the tool ends is part of its text.
Command(r, files) ==
    /\ reads[r].pc = "staged"
    /\ reads[r].op = "command"
    /\ IF Present(r) # {} /\ files \subseteq Present(r)
         THEN reads' = [reads EXCEPT ![r].pc = "returned", ![r].seen = files]
         ELSE ReadRaises(r)
    /\ UNCHANGED storeVars

\* download takes one listing, and does not ask whether it is empty.
ListKeys(r, o) ==
    /\ reads[r].pc = "list"
    /\ Spend(o)
    /\ IF Raised(o) THEN ReadRaises(r) ELSE Gather(r, "fetch", Present(r))
    /\ UNCHANGED <<clock, objects, runs>>

\* A key that is gone since the listing makes the download raise.
Fetch(r, k, o) ==
    /\ reads[r].pc = "fetch"
    /\ k \in reads[r].left
    /\ Spend(o)
    /\ IF Raised(o) \/ k \notin Present(r)
         THEN ReadRaises(r)
         ELSE reads' = [reads EXCEPT ![r].left = @ \ {k}, ![r].seen = @ \cup {k}]
    /\ UNCHANGED <<clock, objects, runs>>

FetchEnds(r) ==
    /\ reads[r].pc = "fetch"
    /\ reads[r].left = {}
    /\ ReadGoesTo(r, "returned")
    /\ UNCHANGED storeVars

ReadCall(r, o) ==
    \/ \E op \in ReadOps : Ask(r, op, o)
    \/ IsDir(r, o)
    \/ IsBase(r, o)
    \/ \E k \in Keys : Visit(r, k, o)
    \/ Inventory(r, o)
    \/ ListKeys(r, o)
    \/ \E k \in Keys : Fetch(r, k, o)

ReadStep(r) ==
    \/ WalkEnds(r)
    \/ \E files \in SUBSET Artifacts : Command(r, files)
    \/ FetchEnds(r)
    \/ \E o \in ReadOutcomes : ReadCall(r, o)
=============================================================================
