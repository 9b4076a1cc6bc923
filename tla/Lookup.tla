-------------------------------- MODULE Lookup --------------------------------
(***************************************************************************)
(* Registration and look-up of the runs of one alias: producers that make  *)
(* sure the experiment exists and create their run in it, and a consumer   *)
(* that pages through the experiment (resolve_alias, search) and picks a   *)
(* run (_select_run), while runs are created, finished and deleted.        *)
(* The tracking server is external: experiment names are unique, it lists  *)
(* active runs only, newest first, and a page token is an offset.          *)
(***************************************************************************)
EXTENDS Integers, Sequences

CONSTANTS
    Runs,           \* each is made by a producer of its own
    Chips,
    ChipOf,         \* [Runs -> Chips]
    PageSizes,      \* the page_size a call may have
    Limits,         \* the max_results a search may have
    LookupOps,      \* the consumer's calls
    MaxLookupFaults \* bound: failing calls of a behaviour

ASSUME LookupAssumption ==
    /\ ChipOf \in [Runs -> Chips]
    /\ PageSizes \subseteq Nat \ {0}
    /\ Limits \subseteq Nat
    /\ LookupOps \subseteq {"resolve", "search", "searchall", "select"}
    /\ MaxLookupFaults \in Nat

VARIABLES
    experiment,    \* the experiment of the alias exists
    created,       \* the runs in the order they were created
    listing,       \* the server's listing: the active runs, newest first
    state,         \* [Runs -> status]
    making,        \* [Runs -> where its producer is]
    query,         \* the consumer's call
    lookupFaults   \* failing calls so far

lookupVars == <<experiment, created, listing, state, making, query, lookupFaults>>

MakingPCs == {"idle", "creating", "again", "known", "made", "raised"}
QueryPCs  == {"idle", "paging", "returned", "notfound", "raised"}
States    == {"ABSENT", "RUNNING", "FINISHED", "DELETED"}
NoChip    == "none"

\* A RunRef is what the run was when its page was read.
Ref == [run : Runs, usable : BOOLEAN]

\* offset: the page token; refs: the runs read so far; answer: the runs resolve or search returns,
\* without their order; choice: those _select_run may return.
\* steady, left, joined only serve the properties: the runs that were usable when the call began
\* and ever since, and whether a run left or joined the listing meanwhile.
Query == [pc : QueryPCs, op : LookupOps \cup {"none"}, chip : Chips \cup {NoChip}, pageSize : Nat,
          maxResults : Nat, offset : Nat, refs : Seq(Ref), answer : SUBSET Runs,
          choice : SUBSET Runs, steady : SUBSET Runs, left : BOOLEAN, joined : BOOLEAN]

LookupTypeOK ==
    /\ experiment \in BOOLEAN
    /\ created \in Seq(Runs)
    /\ listing \in Seq(Runs)
    /\ state \in [Runs -> States]
    /\ making \in [Runs -> MakingPCs]
    /\ query \in Query
    /\ lookupFaults \in 0..MaxLookupFaults

LookupInit ==
    /\ experiment = FALSE
    /\ created = <<>>
    /\ listing = <<>>
    /\ state = [r \in Runs |-> "ABSENT"]
    /\ making = [r \in Runs |-> "idle"]
    /\ query = [pc |-> "idle", op |-> "none", chip |-> NoChip, pageSize |-> 0, maxResults |-> 0,
                offset |-> 0, refs |-> <<>>, answer |-> {}, choice |-> {}, steady |-> {},
                left |-> FALSE, joined |-> FALSE]
    /\ lookupFaults = 0

UsableRun(r) == state[r] = "FINISHED"

Outcome == {"ok", "lost", "failed"}

Charge(o) == IF o = "ok" THEN UNCHANGED lookupFaults
             ELSE lookupFaults < MaxLookupFaults /\ lookupFaults' = lookupFaults + 1

-----------------------------------------------------------------------------
(* _experiment_id(create=True) and create_run *)

MakeGoesTo(r, pc) == making' = [making EXCEPT ![r] = pc]

GetExperiment(r, o) ==
    /\ making[r] = "idle"
    /\ o # "lost"
    /\ Charge(o)
    /\ MakeGoesTo(r, IF o # "ok" THEN "raised" ELSE IF experiment THEN "known" ELSE "creating")
    /\ UNCHANGED <<experiment, created, listing, state, query>>

\* Mutant: an error of create_experiment is not looked into.
CreateExperimentOrRaise(r, o) ==
    /\ making[r] = "creating"
    /\ IF experiment THEN o = "failed" /\ UNCHANGED lookupFaults ELSE Charge(o)
    /\ experiment' = (experiment \/ o # "failed")
    /\ MakeGoesTo(r, IF o = "ok" THEN "known" ELSE "raised")
    /\ UNCHANGED <<created, listing, state, query>>

\* create_experiment is refused when another producer was first; its other errors may hide that
\* it took effect.  Whatever the error, the experiment is asked for again.
CreateExperiment(r, o) ==
    /\ making[r] = "creating"
    /\ IF experiment THEN o = "failed" /\ UNCHANGED lookupFaults ELSE Charge(o)
    /\ experiment' = (experiment \/ o # "failed")
    /\ MakeGoesTo(r, IF o = "ok" THEN "known" ELSE "again")
    /\ UNCHANGED <<created, listing, state, query>>

GetAgain(r, o) ==
    /\ making[r] = "again"
    /\ o # "lost"
    /\ Charge(o)
    /\ MakeGoesTo(r, IF o = "ok" /\ experiment THEN "known" ELSE "raised")
    /\ UNCHANGED <<experiment, created, listing, state, query>>

\* The run joins the listing, in front of all others.
CreateRun(r, o) ==
    /\ making[r] = "known"
    /\ Charge(o)
    /\ IF o = "failed" THEN UNCHANGED <<created, listing, state, query>>
       ELSE /\ created' = Append(created, r)
            /\ listing' = <<r>> \o listing
            /\ state' = [state EXCEPT ![r] = "RUNNING"]
            /\ query' = [query EXCEPT !.joined = TRUE]
    /\ MakeGoesTo(r, IF o = "ok" THEN "made" ELSE "raised")
    /\ UNCHANGED experiment

\* finalize_run, as far as readers are concerned, to whom a failed run is like a running one.
Finish(r) ==
    /\ making[r] = "made"
    /\ state[r] = "RUNNING"
    /\ state' = [state EXCEPT ![r] = "FINISHED"]
    /\ UNCHANGED <<experiment, created, listing, making, query, lookupFaults>>

\* The run is soft-deleted, by a purge or in the UI, and leaves the listing.
Delete(r) ==
    /\ state[r] \in {"RUNNING", "FINISHED"}
    /\ \E p \in 1..Len(listing) :
          /\ listing[p] = r
          /\ listing' = SubSeq(listing, 1, p - 1) \o SubSeq(listing, p + 1, Len(listing))
    /\ state' = [state EXCEPT ![r] = "DELETED"]
    /\ query' = [query EXCEPT !.left = TRUE, !.steady = @ \ {r}]
    /\ UNCHANGED <<experiment, created, making, lookupFaults>>

-----------------------------------------------------------------------------
(* The consumer *)

Searches == {"search", "searchall"}

\* get_experiment_by_name, or search_experiments for a search of every alias.  Without an
\* experiment the first raises LookupError and the second finds nothing.  Bound: one call.
Ask(op, chip, pageSize, maxResults, o) ==
    /\ query.pc = "idle"
    /\ o # "lost"
    /\ chip \in (IF op = "select" THEN Chips ELSE {NoChip})
    /\ maxResults \in (IF op \in Searches THEN Limits ELSE {0})
    /\ Charge(o)
    /\ query' = [pc |-> IF o # "ok" THEN "raised"
                        ELSE IF experiment THEN "paging"
                        ELSE IF op = "searchall" THEN "returned" ELSE "notfound",
                 op |-> op, chip |-> chip, pageSize |-> pageSize, maxResults |-> maxResults,
                 offset |-> 0, refs |-> <<>>, answer |-> {}, choice |-> {},
                 steady |-> {r \in Runs : UsableRun(r)}, left |-> FALSE, joined |-> FALSE]
    /\ UNCHANGED <<experiment, created, listing, state, making>>

\* What is asked of the server for one page.
PageLimit ==
    IF query.op \in Searches /\ query.maxResults - Len(query.refs) < query.pageSize
      THEN query.maxResults - Len(query.refs)
      ELSE query.pageSize

\* One page of the listing.
Page(size) ==
    LET rest == IF query.offset < Len(listing) THEN Len(listing) - query.offset ELSE 0
    IN  [i \in 1..(IF size < rest THEN size ELSE rest) |->
            [run |-> listing[query.offset + i], usable |-> UsableRun(listing[query.offset + i])]]

\* Mutant: the token is not handed on.
FirstToken == query.offset

\* The token of this page, which the loop hands to the next call.
NextToken == query.offset + PageLimit

\* Mutant: the answer is one page.
DoneAfter(page, refs) == TRUE

\* The loop ends without a token, which only a full page has, and a search when it has enough.
Done(page, refs) == \/ Len(page) < PageLimit
                    \/ query.op \in Searches /\ Len(refs) >= query.maxResults

\* The runs among these that started later than r.
LaterThan(runs, r) ==
    {s \in runs : \E i, j \in 1..Len(created) : created[i] = r /\ created[j] = s /\ i < j}

\* The usable runs that were read, as they were then.
UsableOf(refs) == {refs[i].run : i \in {j \in 1..Len(refs) : refs[j].usable}}

\* Mutant: _select_run takes any usable run of the chip.
ChoiceOfAny(refs, chip) == {r \in UsableOf(refs) : ChipOf[r] = chip}

\* _select_run: the latest of the usable runs of the chip.
Choice(refs, chip) ==
    LET runs == {r \in UsableOf(refs) : ChipOf[r] = chip}
    IN  {r \in runs : LaterThan(runs, r) = {}}

\* What the caller gets: resolve and search keep the usable runs, _select_run picks one.
Answer(refs) ==
    LET chosen == IF query.op = "select" THEN Choice(refs, query.chip) ELSE {}
    IN  query' = [query EXCEPT !.pc = IF query.op = "select" /\ chosen = {} THEN "notfound"
                                      ELSE "returned",
                               !.refs = refs,
                               !.answer = UsableOf(refs),
                               !.choice = chosen]

\* search asks for no page at all when nothing may be returned.
FetchPage(o) ==
    /\ query.pc = "paging"
    /\ o # "lost"
    /\ PageLimit > 0
    /\ Charge(o)
    /\ IF o # "ok" THEN query' = [query EXCEPT !.pc = "raised"]
       ELSE LET page == Page(PageLimit)
                refs == query.refs \o page
            IN  IF Done(page, refs) THEN Answer(refs)
                ELSE query' = [query EXCEPT !.refs = refs, !.offset = NextToken]
    /\ UNCHANGED <<experiment, created, listing, state, making>>

NothingWanted ==
    /\ query.pc = "paging"
    /\ PageLimit = 0
    /\ Answer(<<>>)
    /\ UNCHANGED <<experiment, created, listing, state, making, lookupFaults>>

MakeStep(r) ==
    \/ \E o \in Outcome : \/ GetExperiment(r, o)
                          \/ CreateExperiment(r, o)
                          \/ GetAgain(r, o)
                          \/ CreateRun(r, o)
    \/ Finish(r)

LookupStep ==
    \/ \E op \in LookupOps, chip \in Chips \cup {NoChip}, pageSize \in PageSizes,
          maxResults \in Limits \cup {0}, o \in Outcome : Ask(op, chip, pageSize, maxResults, o)
    \/ \E o \in Outcome : FetchPage(o)
    \/ NothingWanted

LookupNext == (\E r \in Runs : MakeStep(r) \/ Delete(r)) \/ LookupStep

LookupSpec == LookupInit /\ [][LookupNext]_lookupVars

-----------------------------------------------------------------------------
(* Properties *)

\* "Lose a create race: another producer created it first": a producer only fails to register
\* when a call failed, never because it lost the race, and one that registers has an experiment.
RaceIsWon ==
    \A r \in Runs : /\ making[r] = "raised" => lookupFaults > 0
                    /\ making[r] \in {"known", "made"} => experiment

\* Paging loses nothing: a run that was usable all along is returned, unless a run was deleted
\* meanwhile, which moves those behind it to a page already read, or a search had read as many
\* runs as it may, usable or not.
UsableIsFound ==
    query.pc = "returned" /\ ~query.left =>
        \/ query.steady \subseteq query.answer
        \/ query.op \in Searches /\ Len(query.refs) = query.maxResults

\* Paging reads no run twice, unless one was created meanwhile, which moves the others back.
FoundOnce ==
    ~query.joined => \A i, j \in 1..Len(query.refs) :
                         query.refs[i].run = query.refs[j].run => i = j

\* "The latest FINISHED run of a chip": no run of the chip that was usable all along is later
\* than the one chosen, and none is overlooked when there is said to be none.
LatestIsSelected ==
    query.op = "select" /\ query.pc \in {"returned", "notfound"} /\ ~query.left =>
        \A s \in query.steady : ChipOf[s] = query.chip =>
            /\ query.choice # {}
            /\ \A r \in query.choice : s \notin LaterThan({s}, r)
=============================================================================
