---------------------------- MODULE Lookup_proofs ----------------------------
(***************************************************************************)
(* The race for a new experiment, for any number of producers; and what    *)
(* paging finds and _select_run chooses, for any number of runs, any sizes *)
(* of pages and any limits, whatever is created and deleted meanwhile.     *)
(***************************************************************************)
EXTENDS Lookup, SequenceTheorems, WellFoundedInduction, TLAPS

\* A producer that asks again was refused by an experiment that exists, or a call has failed.
RaceInv ==
    /\ making \in [Runs -> MakingPCs]
    /\ lookupFaults \in Nat
    /\ \A r \in Runs :
          /\ making[r] = "again" => experiment \/ lookupFaults > 0
          /\ making[r] = "raised" => lookupFaults > 0
          /\ making[r] \in {"known", "made"} => experiment

\* A failing call is counted, and the count never falls.
LEMMA ChargeCounts ==
    ASSUME NEW o \in Outcome, Charge(o), lookupFaults \in Nat
    PROVE  /\ lookupFaults' \in Nat
           /\ lookupFaults' >= lookupFaults
           /\ o # "ok" => lookupFaults' > 0
  BY DEF Charge, Outcome

\* A producer that goes on to pc keeps the invariant if pc is allowed, and the others are left
\* alone: the experiment stays and the count does not fall.
LEMMA OneMoves ==
    ASSUME RaceInv, NEW r \in Runs, NEW pc \in MakingPCs, MakeGoesTo(r, pc),
           lookupFaults' \in Nat, lookupFaults' >= lookupFaults,
           experiment => experiment',
           pc = "again" => experiment' \/ lookupFaults' > 0,
           pc = "raised" => lookupFaults' > 0,
           pc \in {"known", "made"} => experiment'
    PROVE  RaceInv'
  BY DEF RaceInv, MakeGoesTo

\* Each step of a producer keeps the invariant.
LEMMA MakeKeeps ==
    ASSUME RaceInv, NEW r \in Runs, MakeStep(r)
    PROVE  RaceInv'
<1>1. lookupFaults \in Nat
  BY DEF RaceInv
<1>2. ASSUME NEW o \in Outcome, GetExperiment(r, o) PROVE RaceInv'
  <2> DEFINE pc == IF o # "ok" THEN "raised" ELSE IF experiment THEN "known" ELSE "creating"
  <2>1. MakeGoesTo(r, pc) /\ Charge(o) /\ experiment' = experiment
    BY <1>2 DEF GetExperiment
  <2>2. pc \in MakingPCs
    BY DEF MakingPCs
  <2> QED
    BY <1>1, <2>1, <2>2, ChargeCounts, OneMoves
<1>3. ASSUME NEW o \in Outcome, CreateExperiment(r, o) PROVE RaceInv'
  <2> DEFINE pc == IF o = "ok" THEN "known" ELSE "again"
  <2>1. /\ MakeGoesTo(r, pc)
        /\ IF experiment THEN o = "failed" /\ UNCHANGED lookupFaults ELSE Charge(o)
        /\ experiment' = (experiment \/ o # "failed")
    BY <1>3 DEF CreateExperiment
  <2>2. pc \in MakingPCs
    BY DEF MakingPCs
  <2>3. /\ lookupFaults' \in Nat /\ lookupFaults' >= lookupFaults
        /\ o # "ok" => experiment' \/ lookupFaults' > 0
    <3>1. CASE experiment
      <4>1. experiment'
        BY <2>1, <3>1, Zenon
      <4>2. lookupFaults' = lookupFaults
        BY <2>1, <3>1
      <4> QED
        BY <1>1, <4>1, <4>2
    <3>2. CASE ~experiment
      BY <1>1, <2>1, <3>2, ChargeCounts
    <3> QED
      BY <3>1, <3>2
  <2>4. (experiment => experiment') /\ (o = "ok" => experiment')
    BY <2>1
  <2> QED
    BY <2>1, <2>2, <2>3, <2>4, OneMoves
<1>4. ASSUME NEW o \in Outcome, GetAgain(r, o) PROVE RaceInv'
  <2> DEFINE pc == IF o = "ok" /\ experiment THEN "known" ELSE "raised"
  <2>1. MakeGoesTo(r, pc) /\ Charge(o) /\ experiment' = experiment /\ making[r] = "again"
    BY <1>4 DEF GetAgain
  <2>2. pc \in MakingPCs
    BY DEF MakingPCs
  <2>3. experiment \/ lookupFaults > 0
    BY <2>1 DEF RaceInv
  <2>4. /\ lookupFaults' \in Nat /\ lookupFaults' >= lookupFaults
        /\ o # "ok" => lookupFaults' > 0
    BY <1>1, <2>1, ChargeCounts
  <2>5. pc = "raised" => lookupFaults' > 0
    <3>1. CASE experiment
      BY <2>4, <3>1
    <3>2. CASE lookupFaults > 0
      BY <1>1, <2>4, <3>2
    <3> QED
      BY <2>3, <3>1, <3>2
  <2>6. pc # "again" /\ (pc \in {"known", "made"} => experiment')
    BY <2>1
  <2> HIDE DEF pc
  <2> QED
    BY <2>1, <2>2, <2>4, <2>5, <2>6, OneMoves
<1>5. ASSUME NEW o \in Outcome, CreateRun(r, o) PROVE RaceInv'
  <2> DEFINE pc == IF o = "ok" THEN "made" ELSE "raised"
  <2>1. MakeGoesTo(r, pc) /\ Charge(o) /\ experiment' = experiment /\ making[r] = "known"
    BY <1>5 DEF CreateRun
  <2>2. experiment /\ pc \in MakingPCs
    BY <2>1 DEF RaceInv, MakingPCs
  <2> QED
    BY <1>1, <2>1, <2>2, ChargeCounts, OneMoves
<1>6. CASE Finish(r)
  BY <1>6 DEF Finish, RaceInv
<1> QED
  BY <1>2, <1>3, <1>4, <1>5, <1>6 DEF MakeStep

\* What readers and deletions do is none of the race's business, but for the count.
LEMMA ReadersKeep ==
    ASSUME RaceInv, LookupStep \/ \E r \in Runs : Delete(r)
    PROVE  RaceInv'
<1>1. UNCHANGED <<making, experiment>> /\ lookupFaults' \in Nat /\ lookupFaults' >= lookupFaults
  <2>1. ASSUME NEW o \in Outcome, FetchPage(o)
        PROVE  UNCHANGED <<making, experiment>> /\ lookupFaults' \in Nat
               /\ lookupFaults' >= lookupFaults
    <3>1. Charge(o) /\ UNCHANGED <<making, experiment>>
      BY <2>1 DEF FetchPage
    <3> QED
      BY <3>1, ChargeCounts DEF RaceInv
  <2>2. ASSUME NEW op \in LookupOps, NEW chip \in Chips \cup {NoChip}, NEW pageSize \in PageSizes,
               NEW maxResults \in Limits \cup {0}, NEW o \in Outcome,
               Ask(op, chip, pageSize, maxResults, o)
        PROVE  UNCHANGED <<making, experiment>> /\ lookupFaults' \in Nat
               /\ lookupFaults' >= lookupFaults
    <3>1. Charge(o) /\ UNCHANGED <<making, experiment>>
      BY <2>2 DEF Ask
    <3> QED
      BY <3>1, ChargeCounts DEF RaceInv
  <2>3. ASSUME NothingWanted \/ \E r \in Runs : Delete(r)
        PROVE  UNCHANGED <<making, experiment>> /\ lookupFaults' \in Nat
               /\ lookupFaults' >= lookupFaults
    <3>1. UNCHANGED <<making, experiment, lookupFaults>>
      BY <2>3 DEF NothingWanted, Delete
    <3> QED
      BY <3>1 DEF RaceInv
  <2> QED
    BY <2>1, <2>2, <2>3 DEF LookupStep
<1> QED
  BY <1>1 DEF RaceInv

\* The invariant of the race.
THEOREM RaceInductive == LookupSpec => []RaceInv
<1>1. LookupInit => RaceInv
  BY DEF LookupInit, RaceInv, MakingPCs
<1>2. RaceInv /\ [LookupNext]_lookupVars => RaceInv'
  <2> SUFFICES ASSUME RaceInv, [LookupNext]_lookupVars PROVE RaceInv'
    OBVIOUS
  <2>1. ASSUME NEW r \in Runs, MakeStep(r) PROVE RaceInv'
    BY <2>1, MakeKeeps
  <2>2. CASE LookupStep \/ \E r \in Runs : Delete(r)
    BY <2>2, ReadersKeep
  <2>3. CASE UNCHANGED lookupVars
    BY <2>3 DEF lookupVars, RaceInv
  <2> QED
    BY <2>1, <2>2, <2>3 DEF LookupNext
<1> QED
  BY <1>1, <1>2, PTL DEF LookupSpec

\* However many producers race for a new alias, one that fails to register met a failing call.
THEOREM RacesAreWon == LookupSpec => []RaceIsWon
<1>1. RaceInv => RaceIsWon
  BY DEF RaceInv, RaceIsWon
<1> QED
  BY <1>1, RaceInductive, PTL

-----------------------------------------------------------------------------
(* Types *)

\* A failing call is within the bound.
LEMMA ChargeBounded ==
    ASSUME NEW o \in Outcome, Charge(o), lookupFaults \in 0..MaxLookupFaults
    PROVE  lookupFaults' \in 0..MaxLookupFaults
  BY LookupAssumption DEF Charge, LookupAssumption

\* A run in front of the listing.
LEMMA Prepended ==
    ASSUME NEW S, NEW s \in Seq(S), NEW x \in S
    PROVE  /\ <<x>> \o s \in Seq(S)
           /\ Len(<<x>> \o s) = Len(s) + 1
           /\ (<<x>> \o s)[1] = x
           /\ \A i \in 1..Len(s) : (<<x>> \o s)[i + 1] = s[i]
<1>1. <<x>> \in Seq(S) /\ Len(<<x>>) = 1 /\ <<x>>[1] = x
  OBVIOUS
<1>2. Len(s) \in Nat
  BY LenProperties
<1> QED
  BY <1>1, <1>2, ConcatProperties

\* The listing without the run in place p.
LEMMA Removed ==
    ASSUME NEW S, NEW s \in Seq(S), NEW p \in 1..Len(s)
    PROVE  LET t == SubSeq(s, 1, p - 1) \o SubSeq(s, p + 1, Len(s))
           IN  /\ t \in Seq(S)
               /\ Len(t) = Len(s) - 1
               /\ \A i \in 1..(Len(s) - 1) : t[i] = IF i < p THEN s[i] ELSE s[i + 1]
<1>1. /\ Len(s) \in Nat /\ p \in Int
      /\ \A i \in 1..(p - 1) : s[i] \in S
      /\ \A i \in (p + 1)..Len(s) : s[i] \in S
  <2>1. Len(s) \in Nat
    BY LenProperties
  <2>2. \A i \in 1..Len(s) : s[i] \in S
    BY ElementOfSeq
  <2> QED
    BY <2>1, <2>2
<1>2. PICK a : a = SubSeq(s, 1, p - 1)
  OBVIOUS
<1>3. PICK b : b = SubSeq(s, p + 1, Len(s))
  OBVIOUS
<1>4. a \in Seq(S) /\ Len(a) = p - 1 /\ \A i \in 1..(p - 1) : a[i] = s[i]
  <2>1. /\ a \in Seq(S)
        /\ Len(a) = IF 1 <= p - 1 THEN p - 1 - 1 + 1 ELSE 0
        /\ \A i \in 1..(p - 1 - 1 + 1) : a[i] = s[1 + i - 1]
    BY <1>1, <1>2, SubSeqProperties
  <2> QED
    BY <1>1, <2>1
<1>5. b \in Seq(S) /\ Len(b) = Len(s) - p /\ \A i \in 1..(Len(s) - p) : b[i] = s[p + i]
  <2>1. /\ b \in Seq(S)
        /\ Len(b) = IF p + 1 <= Len(s) THEN Len(s) - (p + 1) + 1 ELSE 0
        /\ \A i \in 1..(Len(s) - (p + 1) + 1) : b[i] = s[p + 1 + i - 1]
    BY <1>1, <1>3, SubSeqProperties
  <2> QED
    BY <1>1, <2>1
<1>6. /\ a \o b \in Seq(S)
      /\ Len(a \o b) = Len(a) + Len(b)
      /\ \A i \in 1..(Len(a) + Len(b)) : (a \o b)[i] = IF i <= Len(a) THEN a[i] ELSE b[i - Len(a)]
  BY <1>4, <1>5, ConcatProperties
<1>7. Len(a \o b) = Len(s) - 1
  BY <1>1, <1>4, <1>5, <1>6
<1>8. ASSUME NEW i \in 1..(Len(s) - 1), i < p PROVE (a \o b)[i] = s[i]
  BY <1>1, <1>4, <1>5, <1>6, <1>8
<1>9. ASSUME NEW i \in 1..(Len(s) - 1), ~(i < p) PROVE (a \o b)[i] = s[i + 1]
  <2>1. i - (p - 1) \in 1..(Len(s) - p) /\ p + (i - (p - 1)) = i + 1
    BY <1>1, <1>9
  <2>2. (a \o b)[i] = b[i - (p - 1)]
    BY <1>1, <1>4, <1>5, <1>6, <1>9
  <2> QED
    BY <1>5, <2>1, <2>2
<1> QED
  BY <1>2, <1>3, <1>6, <1>7, <1>8, <1>9

\* A page is made of what the runs are now.
LEMMA PageRead ==
    ASSUME LookupTypeOK, NEW size \in Nat
    PROVE  /\ Page(size) \in Seq(Ref)
           /\ Len(Page(size)) <= size
           /\ Len(Page(size)) <= Len(listing)
           /\ \A i \in 1..Len(Page(size)) :
                 /\ query.offset + i \in 1..Len(listing)
                 /\ Page(size)[i].run = listing[query.offset + i]
                 /\ Page(size)[i].usable = UsableRun(listing[query.offset + i])
           /\ \A p \in 1..Len(listing) : p > query.offset =>
                 \/ p > query.offset + Len(Page(size)) /\ Len(Page(size)) = size
                 \/ p - query.offset \in 1..Len(Page(size))
<1> DEFINE rest == IF query.offset < Len(listing) THEN Len(listing) - query.offset ELSE 0
           n    == IF size < rest THEN size ELSE rest
           at(i) == listing[query.offset + i]
           page == [i \in 1..n |-> [run |-> at(i), usable |-> UsableRun(at(i))]]
<1>1. Len(listing) \in Nat /\ query.offset \in Nat /\ listing \in [1..Len(listing) -> Runs]
  BY LenProperties DEF LookupTypeOK, Query
<1>2. /\ n \in Nat /\ n <= size /\ n <= Len(listing)
      /\ \A i \in 1..n : query.offset + i \in 1..Len(listing)
      /\ \A p \in 1..Len(listing) : p > query.offset =>
            (p > query.offset + n /\ n = size) \/ p - query.offset \in 1..n
  BY <1>1
<1>3. Page(size) = page
  BY DEF Page
<1> HIDE DEF n
<1>4. \A i \in 1..n : [run |-> at(i), usable |-> UsableRun(at(i))] \in Ref
  BY <1>1, <1>2 DEF Ref, UsableRun
<1>5. page \in [1..n -> Ref]
  BY <1>4
<1>6. page \in Seq(Ref) /\ Len(page) = n
  BY <1>2, <1>5
<1> QED
  BY <1>2, <1>3, <1>6

\* The set of usable runs of a reading.
LEMMA UsableOfType ==
    ASSUME NEW refs \in Seq(Ref)
    PROVE  UsableOf(refs) \subseteq Runs
<1>1. \A i \in 1..Len(refs) : refs[i] \in Ref
  BY ElementOfSeq
<1>2. \A f \in Ref : f.run \in Runs
  BY DEF Ref
<1> QED
  BY <1>1, <1>2 DEF UsableOf

\* What a caller gets has its type.
LEMMA AnswerType ==
    ASSUME LookupTypeOK, NEW refs \in Seq(Ref), Answer(refs)
    PROVE  query' \in Query
<1>1. UsableOf(refs) \subseteq Runs
  BY UsableOfType
<1>2. PICK chosen : chosen = IF query.op = "select" THEN Choice(refs, query.chip) ELSE {}
  OBVIOUS
<1>3. chosen \subseteq Runs
  BY <1>1, <1>2 DEF Choice
<1>4. query' = [query EXCEPT !.pc = IF query.op = "select" /\ chosen = {} THEN "notfound"
                                   ELSE "returned",
                            !.refs = refs, !.answer = UsableOf(refs), !.choice = chosen]
  BY <1>2 DEF Answer
<1> QED
  BY <1>1, <1>3, <1>4 DEF LookupTypeOK, Query, QueryPCs

\* Each step of a producer, and each deletion, keeps the types.
LEMMA MakeTypes ==
    ASSUME LookupTypeOK, NEW r \in Runs, MakeStep(r) \/ Delete(r)
    PROVE  LookupTypeOK'
<1>1. ASSUME NEW o \in Outcome,
             GetExperiment(r, o) \/ CreateExperiment(r, o) \/ GetAgain(r, o)
      PROVE  LookupTypeOK'
  <2>1. lookupFaults' \in 0..MaxLookupFaults
    BY <1>1, ChargeBounded DEF GetExperiment, CreateExperiment, GetAgain, LookupTypeOK
  <2>2. /\ UNCHANGED <<created, listing, state, query>>
        /\ experiment' \in BOOLEAN
        /\ \E pc \in MakingPCs : making' = [making EXCEPT ![r] = pc]
    BY <1>1 DEF GetExperiment, CreateExperiment, GetAgain, LookupTypeOK, MakeGoesTo, MakingPCs
  <2> QED
    BY <2>1, <2>2 DEF LookupTypeOK
<1>2. ASSUME NEW o \in Outcome, CreateRun(r, o) PROVE LookupTypeOK'
  <2>1. lookupFaults' \in 0..MaxLookupFaults
    BY <1>2, ChargeBounded DEF CreateRun, LookupTypeOK
  <2>2. experiment' \in BOOLEAN /\ making' \in [Runs -> MakingPCs]
    BY <1>2 DEF CreateRun, LookupTypeOK, MakeGoesTo, MakingPCs
  <2>3. created' \in Seq(Runs) /\ listing' \in Seq(Runs)
    <3>1. created \in Seq(Runs) /\ listing \in Seq(Runs)
      BY DEF LookupTypeOK
    <3>2. Append(created, r) \in Seq(Runs) /\ <<r>> \o listing \in Seq(Runs)
      BY <3>1, AppendProperties, Prepended
    <3>3. \/ UNCHANGED <<created, listing>>
          \/ created' = Append(created, r) /\ listing' = <<r>> \o listing
      BY <1>2 DEF CreateRun
    <3> QED
      BY <3>1, <3>2, <3>3
  <2>4. state' \in [Runs -> States]
    BY <1>2 DEF CreateRun, LookupTypeOK, States
  <2>5. query' \in Query
    BY <1>2 DEF CreateRun, LookupTypeOK, Query
  <2> QED
    BY <2>1, <2>2, <2>3, <2>4, <2>5 DEF LookupTypeOK
<1>3. CASE Finish(r)
  BY <1>3 DEF Finish, LookupTypeOK, States
<1>4. CASE Delete(r)
  <2>1. listing' \in Seq(Runs)
    BY <1>4, Removed, SMTT(30) DEF Delete, LookupTypeOK
  <2>2. state' \in [Runs -> States]
    BY <1>4 DEF Delete, LookupTypeOK, States
  <2>3. query' \in Query
    BY <1>4 DEF Delete, LookupTypeOK, Query
  <2>4. UNCHANGED <<experiment, created, making, lookupFaults>>
    BY <1>4 DEF Delete
  <2> QED
    BY <2>1, <2>2, <2>3, <2>4 DEF LookupTypeOK
<1> QED
  BY <1>1, <1>2, <1>3, <1>4 DEF MakeStep

\* Each step of a reader keeps the types.
LEMMA LookupTypes ==
    ASSUME LookupTypeOK, LookupStep
    PROVE  LookupTypeOK'
<1>1. ASSUME NEW op \in LookupOps, NEW chip \in Chips \cup {NoChip}, NEW pageSize \in PageSizes,
             NEW maxResults \in Limits \cup {0}, NEW o \in Outcome,
             Ask(op, chip, pageSize, maxResults, o)
      PROVE  LookupTypeOK'
  <2>1. lookupFaults' \in 0..MaxLookupFaults
    BY <1>1, ChargeBounded DEF Ask, LookupTypeOK
  <2>2. pageSize \in Nat /\ maxResults \in Nat
    BY LookupAssumption DEF LookupAssumption
  <2>3. <<>> \in Seq(Ref)
    BY EmptySeq
  <2>4. query' \in Query
    BY <1>1, <2>2, <2>3 DEF Ask, Query, QueryPCs
  <2>5. UNCHANGED <<experiment, created, listing, state, making>>
    BY <1>1 DEF Ask
  <2> QED
    BY <2>1, <2>4, <2>5 DEF LookupTypeOK
<1>2. ASSUME NEW o \in Outcome, FetchPage(o) PROVE LookupTypeOK'
  <2>1. lookupFaults' \in 0..MaxLookupFaults
    BY <1>2, ChargeBounded DEF FetchPage, LookupTypeOK
  <2>2. UNCHANGED <<experiment, created, listing, state, making>>
    BY <1>2 DEF FetchPage
  <2>3. PageLimit \in Nat
    <3>1. PageLimit > 0
      BY <1>2 DEF FetchPage
    <3>2. PageLimit \in Int
      BY LenProperties DEF LookupTypeOK, Query, PageLimit
    <3> QED
      BY <3>1, <3>2
  <2>4. PICK page : page = Page(PageLimit)
    OBVIOUS
  <2>5. PICK refs : refs = query.refs \o page
    OBVIOUS
  <2>6. refs \in Seq(Ref)
    BY <2>3, <2>4, <2>5, PageRead, ConcatProperties DEF LookupTypeOK, Query
  <2>7. CASE o # "ok"
    <3>1. query' = [query EXCEPT !.pc = "raised"]
      BY <1>2, <2>7 DEF FetchPage
    <3>2. query' \in Query
      BY <3>1 DEF LookupTypeOK, Query, QueryPCs
    <3> QED
      BY <2>1, <2>2, <3>2 DEF LookupTypeOK
  <2>8. CASE o = "ok" /\ Done(page, refs)
    <3>1. Answer(refs)
      BY <1>2, <2>4, <2>5, <2>8 DEF FetchPage
    <3>2. query' \in Query
      BY <2>6, <3>1, AnswerType
    <3> QED
      BY <2>1, <2>2, <3>2 DEF LookupTypeOK
  <2>9. CASE o = "ok" /\ ~Done(page, refs)
    <3>1. query' = [query EXCEPT !.refs = refs, !.offset = NextToken]
      BY <1>2, <2>4, <2>5, <2>9 DEF FetchPage
    <3>2. NextToken \in Nat
      BY <2>3 DEF NextToken, LookupTypeOK, Query
    <3>3. query' \in Query
      BY <2>6, <3>1, <3>2 DEF LookupTypeOK, Query
    <3> QED
      BY <2>1, <2>2, <3>3 DEF LookupTypeOK
  <2> QED
    BY <2>7, <2>8, <2>9
<1>3. CASE NothingWanted
  <2>1. Answer(<<>>) /\ UNCHANGED <<experiment, created, listing, state, making, lookupFaults>>
    BY <1>3 DEF NothingWanted
  <2>2. query' \in Query
    BY <2>1, EmptySeq, AnswerType
  <2> QED
    BY <2>1, <2>2 DEF LookupTypeOK
<1> QED
  BY <1>1, <1>2, <1>3 DEF LookupStep

\* Type correctness, for any number of runs, sizes of pages, limits and failing calls.
THEOREM LookupTyped == LookupSpec => []LookupTypeOK
<1>1. LookupInit => LookupTypeOK
  <2> SUFFICES ASSUME LookupInit PROVE LookupTypeOK
    OBVIOUS
  <2>1. <<>> \in Seq(Runs) /\ <<>> \in Seq(Ref)
    BY EmptySeq
  <2>2. query \in Query
    BY <2>1 DEF LookupInit, Query, QueryPCs
  <2>3. state \in [Runs -> States] /\ making \in [Runs -> MakingPCs]
    BY DEF LookupInit, States, MakingPCs
  <2>4. lookupFaults \in 0..MaxLookupFaults
    BY LookupAssumption DEF LookupInit, LookupAssumption
  <2> QED
    BY <2>1, <2>2, <2>3, <2>4 DEF LookupInit, LookupTypeOK
<1>2. LookupTypeOK /\ [LookupNext]_lookupVars => LookupTypeOK'
  <2>1. CASE UNCHANGED lookupVars
    BY <2>1 DEF lookupVars, LookupTypeOK
  <2>2. CASE LookupNext
    BY <2>2, MakeTypes, LookupTypes DEF LookupNext
  <2> QED
    BY <2>1, <2>2
<1> QED
  BY <1>1, <1>2, PTL DEF LookupSpec

-----------------------------------------------------------------------------
(* Paging *)

\* Runs and the listing belong together: a producer's run is unknown until create_run; the listing
\* has every active run once, and created every known one.
Registered ==
    /\ \A r \in Runs :
          /\ making[r] \in {"idle", "creating", "again", "known"} => state[r] = "ABSENT"
          /\ state[r] # "ABSENT" => experiment /\ \E i \in 1..Len(created) : created[i] = r
          /\ state[r] \in {"RUNNING", "FINISHED"} => \E p \in 1..Len(listing) : listing[p] = r
    /\ \A i \in 1..Len(created) : state[created[i]] # "ABSENT"
    /\ \A i, j \in 1..Len(created) : created[i] = created[j] => i = j
    /\ \A p \in 1..Len(listing) : state[listing[p]] \in {"RUNNING", "FINISHED"}
    /\ \A p, q \in 1..Len(listing) : listing[p] = listing[q] => p = q

\* What was read was known, and what is steady is usable still.
RefsAreKnown ==
    /\ \A i \in 1..Len(query.refs) : state[query.refs[i].run] # "ABSENT"
    /\ \A r \in query.steady : UsableRun(r)
    /\ query.choice \subseteq UsableOf(query.refs)

\* Where the token stands: runs that were usable all along were read or are still to come, unless
\* one left; nothing that was read is still to come, unless one joined.
TokenStands ==
    query.pc = "paging" =>
        /\ query.op \in LookupOps
        /\ query.pageSize > 0
        /\ query.op \in Searches => \/ Len(query.refs) < query.maxResults
                                    \/ query.maxResults = 0 /\ query.refs = <<>>
        /\ query.left \/ \A r \in query.steady :
              \/ r \in UsableOf(query.refs)
              \/ \E p \in 1..Len(listing) : p > query.offset /\ listing[p] = r
        /\ query.joined \/ \A i \in 1..Len(query.refs), p \in 1..Len(listing) :
              listing[p] = query.refs[i].run => p <= query.offset

\* The inductive invariant of paging.
PagingInv ==
    /\ LookupTypeOK
    /\ RaceInv
    /\ Registered
    /\ RefsAreKnown
    /\ TokenStands
    /\ FoundOnce
    /\ UsableIsFound
    /\ LatestIsSelected

\* A run that joins is in front, and the rest keeps its order.
LEMMA Joins ==
    ASSUME LookupTypeOK, NEW r \in Runs, NEW o \in Outcome, CreateRun(r, o), o # "failed"
    PROVE  /\ Len(listing') = Len(listing) + 1
           /\ listing'[1] = r
           /\ \A p \in 1..Len(listing) : listing'[p + 1] = listing[p]
           /\ \A p \in 1..Len(listing') : p = 1 \/ p - 1 \in 1..Len(listing)
           /\ Len(created') = Len(created) + 1
           /\ \A i \in 1..Len(created) : created'[i] = created[i]
           /\ created'[Len(created) + 1] = r
           /\ state' = [state EXCEPT ![r] = "RUNNING"]
           /\ query' = [query EXCEPT !.joined = TRUE]
           /\ state[r] = "ABSENT" \/ ~Registered
<1>1. listing \in Seq(Runs) /\ created \in Seq(Runs) /\ Len(listing) \in Nat
  BY LenProperties DEF LookupTypeOK
<1>2. /\ listing' = <<r>> \o listing
      /\ created' = Append(created, r)
      /\ state' = [state EXCEPT ![r] = "RUNNING"]
      /\ query' = [query EXCEPT !.joined = TRUE]
      /\ making[r] = "known"
  BY DEF CreateRun
<1>3. /\ Len(listing') = Len(listing) + 1
      /\ listing'[1] = r
      /\ \A p \in 1..Len(listing) : listing'[p + 1] = listing[p]
  BY <1>1, <1>2, Prepended
<1>4. /\ Len(created') = Len(created) + 1
      /\ \A i \in 1..Len(created) : created'[i] = created[i]
      /\ created'[Len(created) + 1] = r
  BY <1>1, <1>2, AppendProperties
<1>5. \A p \in 1..Len(listing') : p = 1 \/ p - 1 \in 1..Len(listing)
  BY <1>1, <1>3
<1> QED
  BY <1>2, <1>3, <1>4, <1>5 DEF Registered

\* A run that leaves makes those behind it move up, and no others.
LEMMA Leaves ==
    ASSUME LookupTypeOK, NEW r \in Runs, Delete(r)
    PROVE  \E p \in 1..Len(listing) :
              /\ listing[p] = r
              /\ Len(listing') = Len(listing) - 1
              /\ \A q \in 1..Len(listing') : listing'[q] = IF q < p THEN listing[q] ELSE listing[q + 1]
              /\ \A q \in 1..Len(listing) : q # p =>
                    \E k \in 1..Len(listing') : k <= q /\ listing'[k] = listing[q]
              /\ \A q \in 1..Len(listing') : \E k \in 1..Len(listing) :
                    k >= q /\ k # p /\ listing[k] = listing'[q]
<1>1. listing \in Seq(Runs) /\ Len(listing) \in Nat
  BY LenProperties DEF LookupTypeOK
<1>2. PICK p \in 1..Len(listing) :
         /\ listing[p] = r
         /\ listing' = SubSeq(listing, 1, p - 1) \o SubSeq(listing, p + 1, Len(listing))
  BY DEF Delete
<1>3. /\ Len(listing') = Len(listing) - 1
      /\ \A q \in 1..(Len(listing) - 1) :
            listing'[q] = IF q < p THEN listing[q] ELSE listing[q + 1]
  BY <1>1, <1>2, Removed
<1>4. ASSUME NEW q \in 1..Len(listing), q # p
      PROVE  \E k \in 1..Len(listing') : k <= q /\ listing'[k] = listing[q]
  <2>1. CASE q < p
    BY <1>1, <1>3, <2>1
  <2>2. CASE q > p
    <3>1. q - 1 \in 1..Len(listing') /\ q - 1 <= q /\ ~(q - 1 < p) /\ q - 1 + 1 = q
      BY <1>1, <1>3, <2>2
    <3> QED
      BY <1>3, <3>1
  <2> QED
    BY <1>1, <1>4, <2>1, <2>2
<1>5. ASSUME NEW q \in 1..Len(listing')
      PROVE  \E k \in 1..Len(listing) : k >= q /\ k # p /\ listing[k] = listing'[q]
  <2>1. CASE q < p
    BY <1>1, <1>3, <2>1
  <2>2. CASE ~(q < p)
    <3>1. q + 1 \in 1..Len(listing) /\ q + 1 >= q /\ q + 1 # p
      BY <1>1, <1>3, <2>2
    <3> QED
      BY <1>3, <2>2, <3>1
  <2> QED
    BY <2>1, <2>2
<1> QED
  BY <1>2, <1>3, <1>4, <1>5, ZenonT(60)

\* Runs, listing and order of creation keep belonging together.
LEMMA RegisteredKept ==
    ASSUME LookupTypeOK, RaceInv, Registered, [LookupNext]_lookupVars
    PROVE  Registered'
<1>1. CASE LookupStep \/ UNCHANGED lookupVars
  <2>1. UNCHANGED <<experiment, created, listing, state, making>>
    BY <1>1 DEF LookupStep, Ask, FetchPage, NothingWanted, lookupVars
  <2> QED
    BY <2>1 DEF Registered
<1>2. ASSUME NEW r \in Runs, NEW o \in Outcome,
             GetExperiment(r, o) \/ CreateExperiment(r, o) \/ GetAgain(r, o)
                \/ (CreateRun(r, o) /\ o = "failed")
      PROVE  Registered'
  <2>1. /\ UNCHANGED <<created, listing, state>>
        /\ experiment => experiment'
        /\ making[r] \in {"idle", "creating", "again", "known"}
        /\ \A s \in Runs : s # r => making'[s] = making[s]
    BY <1>2 DEF GetExperiment, CreateExperiment, GetAgain, CreateRun, MakeGoesTo, LookupTypeOK
  <2> QED
    BY <2>1 DEF Registered
<1>3. ASSUME NEW r \in Runs, NEW o \in Outcome, CreateRun(r, o), o # "failed"
      PROVE  Registered'
  <2>1. /\ experiment /\ experiment'
        /\ making'[r] \in {"made", "raised"}
        /\ \A s \in Runs : s # r => making'[s] = making[s]
    BY <1>3 DEF CreateRun, RaceInv, MakeGoesTo
  <2>2. state[r] = "ABSENT" /\ state'[r] = "RUNNING" /\ \A s \in Runs : s # r => state'[s] = state[s]
    BY <1>3, Joins DEF LookupTypeOK
  <2>3. Len(listing) \in Nat /\ Len(created) \in Nat /\ \A p \in 1..Len(listing) : listing[p] \in Runs
    BY LenProperties, ElementOfSeq DEF LookupTypeOK
  <2>4. \A i \in 1..Len(created) : created[i] \in Runs
    BY ElementOfSeq DEF LookupTypeOK
  <2>5. ASSUME NEW s \in Runs, state'[s] # "ABSENT"
        PROVE  experiment' /\ \E i \in 1..Len(created') : created'[i] = s
    <3>1. CASE s = r
      BY <1>3, <2>1, <2>3, <3>1, Joins
    <3>2. CASE s # r
      <4>1. PICK i \in 1..Len(created) : created[i] = s
        BY <2>2, <2>5, <3>2 DEF Registered
      <4>2. i \in 1..Len(created') /\ created'[i] = s
        BY <1>3, <2>3, <4>1, Joins
      <4> QED
        BY <2>1, <4>2
    <3> QED
      BY <3>1, <3>2
  <2>6. ASSUME NEW s \in Runs, state'[s] \in {"RUNNING", "FINISHED"}
        PROVE  \E p \in 1..Len(listing') : listing'[p] = s
    <3>1. CASE s = r
      <4>1. 1 \in 1..Len(listing') /\ listing'[1] = r
        BY <1>3, <2>3, Joins
      <4> QED
        BY <3>1, <4>1
    <3>2. CASE s # r
      <4>1. PICK p \in 1..Len(listing) : listing[p] = s
        BY <2>2, <2>6, <3>2 DEF Registered
      <4>2. p + 1 \in 1..Len(listing') /\ listing'[p + 1] = s
        BY <1>3, <2>3, <4>1, Joins
      <4> QED
        BY <4>2
    <3> QED
      BY <3>1, <3>2
  <2>7. ASSUME NEW i \in 1..Len(created') PROVE state'[created'[i]] # "ABSENT"
    <3>1. CASE i \in 1..Len(created)
      BY <1>3, <2>2, <2>4, <3>1, Joins DEF Registered
    <3>2. CASE i = Len(created) + 1
      BY <1>3, <2>2, <3>2, Joins
    <3> QED
      BY <1>3, <2>3, <3>1, <3>2, Joins
  <2>8. ASSUME NEW p \in 1..Len(listing')
        PROVE  /\ p = 1 => listing'[p] = r
               /\ p # 1 => /\ p - 1 \in 1..Len(listing)
                           /\ listing'[p] = listing[p - 1]
                           /\ listing'[p] # r
                           /\ listing'[p] \in Runs
    <3>1. CASE p = 1
      BY <1>3, <3>1, Joins
    <3>2. CASE p # 1
      <4>1. p - 1 \in 1..Len(listing) /\ p - 1 + 1 = p
        BY <1>3, <2>3, <3>2, Joins
      <4>2. listing'[p] = listing[p - 1]
        BY <1>3, <4>1, Joins
      <4> QED
        BY <2>2, <2>3, <3>2, <4>1, <4>2 DEF Registered
    <3> QED
      BY <3>1, <3>2
  <2>9. \A p \in 1..Len(listing') : state'[listing'[p]] \in {"RUNNING", "FINISHED"}
    BY <2>2, <2>8 DEF Registered
  <2>10. ASSUME NEW p \in 1..Len(listing'), NEW q \in 1..Len(listing'), listing'[p] = listing'[q]
         PROVE  p = q
    <3>1. p = 1 <=> q = 1
      BY <2>8, <2>10
    <3>2. p # 1 => p - 1 = q - 1
      BY <2>8, <2>10, <3>1 DEF Registered
    <3> QED
      BY <1>3, <2>3, <3>1, <3>2, Joins
  <2>11. \A s \in Runs : making'[s] \in {"idle", "creating", "again", "known"} => state'[s] = "ABSENT"
    BY <2>1, <2>2 DEF Registered
  <2>12. ASSUME NEW i \in 1..Len(created'), NEW j \in 1..Len(created'), created'[i] = created'[j]
         PROVE  i = j
    <3>1. ASSUME NEW k \in 1..Len(created')
          PROVE  \/ k = Len(created) + 1 /\ created'[k] = r
                 \/ /\ k \in 1..Len(created) /\ created'[k] = created[k]
                    /\ created'[k] # r
      <4>1. CASE k \in 1..Len(created)
        BY <1>3, <2>2, <4>1, Joins DEF Registered
      <4> QED
        BY <1>3, <2>3, <4>1, Joins
    <3> QED
      BY <2>12, <3>1 DEF Registered
  <2> QED
    BY <2>5, <2>6, <2>7, <2>9, <2>10, <2>11, <2>12 DEF Registered
<1>4. ASSUME NEW r \in Runs, Finish(r) PROVE Registered'
  <2>1. /\ UNCHANGED <<experiment, created, listing, making>>
        /\ state[r] = "RUNNING" /\ state' = [state EXCEPT ![r] = "FINISHED"]
        /\ making[r] = "made"
    BY <1>4 DEF Finish
  <2>2. state'[r] = "FINISHED" /\ \A s : s # r => state'[s] = state[s]
    BY <2>1 DEF LookupTypeOK
  <2> QED
    BY <2>1, <2>2 DEF Registered
<1>5. ASSUME NEW r \in Runs, Delete(r) PROVE Registered'
  <2>1. /\ UNCHANGED <<experiment, created, making>>
        /\ state[r] \in {"RUNNING", "FINISHED"} /\ state' = [state EXCEPT ![r] = "DELETED"]
    BY <1>5 DEF Delete
  <2>2. state'[r] = "DELETED" /\ \A s : s # r => state'[s] = state[s]
    BY <2>1 DEF LookupTypeOK
  <2>3. PICK p \in 1..Len(listing) :
           /\ listing[p] = r
           /\ Len(listing') = Len(listing) - 1
           /\ \A q \in 1..Len(listing') : listing'[q] = IF q < p THEN listing[q] ELSE listing[q + 1]
           /\ \A q \in 1..Len(listing) : q # p =>
                 \E k \in 1..Len(listing') : k <= q /\ listing'[k] = listing[q]
           /\ \A q \in 1..Len(listing') : \E k \in 1..Len(listing) :
                 k >= q /\ k # p /\ listing[k] = listing'[q]
    BY <1>5, Leaves
  <2>4. ASSUME NEW s \in Runs, state'[s] \in {"RUNNING", "FINISHED"}
        PROVE  \E q \in 1..Len(listing') : listing'[q] = s
    <3>1. s # r /\ state[s] \in {"RUNNING", "FINISHED"}
      BY <2>2, <2>4
    <3>2. PICK q \in 1..Len(listing) : listing[q] = s
      BY <3>1 DEF Registered
    <3> QED
      BY <2>3, <3>1, <3>2
  <2>5. ASSUME NEW q \in 1..Len(listing') PROVE state'[listing'[q]] \in {"RUNNING", "FINISHED"}
    <3>1. PICK k \in 1..Len(listing) : k # p /\ listing[k] = listing'[q]
      BY <2>3
    <3>2. listing[k] # r
      BY <2>3, <3>1 DEF Registered
    <3> QED
      BY <2>2, <3>1, <3>2 DEF Registered
  <2>6. ASSUME NEW k \in 1..Len(listing'), NEW q \in 1..Len(listing'), listing'[k] = listing'[q]
        PROVE  k = q
    <3>1. Len(listing) \in Nat
      BY LenProperties DEF LookupTypeOK
    <3>2. ASSUME NEW x \in 1..Len(listing')
          PROVE  /\ x < p => x \in 1..Len(listing) /\ listing'[x] = listing[x]
                 /\ x >= p => x + 1 \in 1..Len(listing) /\ listing'[x] = listing[x + 1]
      BY <2>3, <3>1
    <3>3. CASE k < p /\ q < p
      BY <2>6, <3>2, <3>3 DEF Registered
    <3>4. CASE k < p /\ q >= p
      <4>1. k = q + 1
        BY <2>6, <3>2, <3>4 DEF Registered
      <4> QED
        BY <3>1, <3>4, <4>1
    <3>5. CASE k >= p /\ q < p
      <4>1. k + 1 = q
        BY <2>6, <3>2, <3>5 DEF Registered
      <4> QED
        BY <3>1, <3>5, <4>1
    <3>6. CASE k >= p /\ q >= p
      <4>1. k + 1 = q + 1
        BY <2>6, <3>2, <3>6 DEF Registered
      <4> QED
        BY <3>1, <4>1
    <3> QED
      BY <2>3, <3>1, <3>3, <3>4, <3>5, <3>6
  <2>7. \A s \in Runs :
           /\ making'[s] \in {"idle", "creating", "again", "known"} => state'[s] = "ABSENT"
           /\ state'[s] # "ABSENT" => experiment' /\ \E i \in 1..Len(created') : created'[i] = s
    BY <2>1, <2>2 DEF Registered
  <2>8. \A i \in 1..Len(created') : state'[created'[i]] # "ABSENT"
    BY <2>1, <2>2 DEF Registered
  <2>9. \A i, j \in 1..Len(created') : created'[i] = created'[j] => i = j
    BY <2>1 DEF Registered
  <2> QED
    BY <2>4, <2>5, <2>6, <2>7, <2>8, <2>9 DEF Registered
<1> QED
  BY <1>1, <1>2, <1>3, <1>4, <1>5 DEF LookupNext, MakeStep

\* A set of places has a last one.
LEMMA LastPlace ==
    ASSUME NEW n \in Nat, NEW S \in SUBSET (1..n), S # {}
    PROVE  \E m \in S : \A k \in S : k <= m
<1> DEFINE T == {n - k : k \in S}
<1>1. T \subseteq Nat /\ T # {}
  <2>1. PICK e \in S : TRUE
    OBVIOUS
  <2>2. n - e \in T
    OBVIOUS
  <2>3. \A k \in S : n - k \in Nat
    OBVIOUS
  <2> QED
    BY <2>2, <2>3
<1>2. PICK x \in T : \A y \in T : ~(<<y, x>> \in OpToRel(<, Nat))
  BY <1>1, NatLessThanWellFounded, WFMin
<1>3. \A y \in T : ~(y < x)
  BY <1>1, <1>2 DEF OpToRel
<1>4. PICK m \in S : x = n - m
  OBVIOUS
<1>5. ASSUME NEW k \in S PROVE k <= m
  <2>1. n - k \in T
    OBVIOUS
  <2>2. ~(n - k < n - m)
    BY <1>3, <1>4, <2>1
  <2> QED
    BY <2>2
<1> QED
  BY <1>5

\* Of the runs of a chip that were found, one is the latest, and no other is later than it.
LEMMA LatestChosen ==
    ASSUME LookupTypeOK, Registered, NEW refs \in Seq(Ref), NEW chip,
           \A i \in 1..Len(refs) : state[refs[i].run] # "ABSENT",
           NEW s \in UsableOf(refs), ChipOf[s] = chip
    PROVE  /\ Choice(refs, chip) # {}
           /\ \A r \in Choice(refs, chip) : s \notin LaterThan({s}, r)
<1>1. PICK runs : runs = {r \in UsableOf(refs) : ChipOf[r] = chip}
  OBVIOUS
<1>2. Choice(refs, chip) = {r \in runs : LaterThan(runs, r) = {}}
  BY <1>1 DEF Choice
<1>3. \A r \in runs : r \in Runs /\ state[r] # "ABSENT"
  BY <1>1, UsableOfType DEF UsableOf
<1>4. PICK S : S = {i \in 1..Len(created) : created[i] \in runs}
  OBVIOUS
<1>5. Len(created) \in Nat /\ S \in SUBSET (1..Len(created))
  BY <1>4, LenProperties DEF LookupTypeOK
<1>6. ASSUME NEW r \in runs PROVE \E i \in S : created[i] = r
  <2>1. PICK i \in 1..Len(created) : created[i] = r
    BY <1>3 DEF Registered
  <2> QED
    BY <1>4, <2>1
<1>7. PICK m \in S : \A k \in S : k <= m
  <2>1. s \in runs
    BY <1>1
  <2> QED
    BY <1>5, <1>6, <2>1, LastPlace
<1>8. LaterThan(runs, created[m]) = {}
  <2>1. ASSUME NEW t \in runs, NEW i \in 1..Len(created), NEW j \in 1..Len(created),
               created[i] = created[m], created[j] = t, i < j
        PROVE  FALSE
    <3>1. i = m
      BY <1>5, <2>1 DEF Registered
    <3>2. j \in S
      BY <1>4, <2>1
    <3> QED
      BY <1>5, <1>7, <2>1, <3>1, <3>2
  <2> QED
    BY <2>1 DEF LaterThan
<1>9. created[m] \in Choice(refs, chip)
  BY <1>2, <1>4, <1>8
<1>10. \A r \in Choice(refs, chip) : s \notin LaterThan({s}, r)
  <2>1. s \in runs
    BY <1>1
  <2> QED
    BY <1>2, <2>1 DEF LaterThan
<1> QED
  BY <1>9, <1>10

\* What steps of others leave as it was: runs that were known, and usable ones.
Quiet ==
    /\ UNCHANGED <<created, listing, query>>
    /\ \A s \in Runs : /\ state[s] # "ABSENT" => state'[s] # "ABSENT"
                       /\ state[s] = "FINISHED" => state'[s] = "FINISHED"

\* While a reader is between two pages, what producers and deletions do keeps its part.
LEMMA OthersKeep ==
    ASSUME PagingInv, NEW r \in Runs, MakeStep(r) \/ Delete(r)
    PROVE  RefsAreKnown' /\ TokenStands' /\ FoundOnce' /\ UsableIsFound' /\ LatestIsSelected'
<1> USE DEF PagingInv
<1>1. /\ query \in Query /\ listing \in Seq(Runs) /\ created \in Seq(Runs)
      /\ Len(listing) \in Nat /\ Len(created) \in Nat /\ query.offset \in Nat
      /\ query.steady \subseteq Runs
      /\ \A i \in 1..Len(query.refs) : query.refs[i] \in Ref /\ query.refs[i].run \in Runs
      /\ \A i \in 1..Len(created) : created[i] \in Runs
      /\ \A p \in 1..Len(listing) : listing[p] \in Runs
  <2>1. query \in Query /\ listing \in Seq(Runs) /\ created \in Seq(Runs)
    BY DEF LookupTypeOK
  <2>2. query.refs \in Seq(Ref) /\ query.offset \in Nat /\ query.steady \subseteq Runs
    BY <2>1 DEF Query
  <2>3. \A i \in 1..Len(query.refs) : query.refs[i] \in Ref
    BY <2>2, ElementOfSeq
  <2>4. \A f \in Ref : f.run \in Runs
    BY DEF Ref
  <2> QED
    BY <2>1, <2>2, <2>3, <2>4, LenProperties, ElementOfSeq
<1>2. ASSUME Quiet
      PROVE  RefsAreKnown' /\ TokenStands' /\ FoundOnce' /\ UsableIsFound' /\ LatestIsSelected'
  <2>1. RefsAreKnown'
    BY <1>1, <1>2 DEF Quiet, RefsAreKnown, UsableOf, UsableRun
  <2>2. TokenStands'
    BY <1>2 DEF Quiet, TokenStands, UsableOf
  <2>3. FoundOnce' /\ UsableIsFound'
    BY <1>2 DEF Quiet, FoundOnce, UsableIsFound
  <2>4. LatestIsSelected'
    BY <1>2 DEF Quiet, LatestIsSelected, LaterThan
  <2> QED
    BY <2>1, <2>2, <2>3, <2>4
<1>3. ASSUME NEW o \in Outcome, CreateRun(r, o), o # "failed"
      PROVE  RefsAreKnown' /\ TokenStands' /\ FoundOnce' /\ UsableIsFound' /\ LatestIsSelected'
  <2>1. /\ state[r] = "ABSENT"
        /\ \A s \in Runs : s # r => state'[s] = state[s]
    BY <1>3, Joins DEF LookupTypeOK
  <2>2. /\ query'.pc = query.pc /\ query'.op = query.op /\ query'.chip = query.chip
        /\ query'.refs = query.refs /\ query'.steady = query.steady /\ query'.left = query.left
        /\ query'.choice = query.choice /\ query'.answer = query.answer /\ query'.joined
        /\ query'.pageSize = query.pageSize /\ query'.maxResults = query.maxResults
        /\ query'.offset = query.offset
    BY <1>1, <1>3, Joins DEF Query
  <2>3. RefsAreKnown'
    BY <1>1, <2>1, <2>2, SMTT(30) DEF RefsAreKnown, UsableOf, UsableRun
  <2>4. TokenStands'
    <3>1. ASSUME NEW s, NEW p \in 1..Len(listing), p > query.offset, listing[p] = s
          PROVE  \E q \in 1..Len(listing') : q > query.offset /\ listing'[q] = s
      <4>1. p + 1 \in 1..Len(listing') /\ p + 1 > query.offset /\ listing'[p + 1] = s
        BY <1>1, <1>3, <3>1, Joins
      <4> QED
        BY <4>1
    <3>2. UsableOf(query.refs)' = UsableOf(query.refs)
      BY <2>2 DEF UsableOf
    <3> QED
      BY <2>2, <3>1, <3>2 DEF TokenStands
  <2>5. FoundOnce' /\ UsableIsFound'
    BY <2>2 DEF FoundOnce, UsableIsFound
  <2>6. LatestIsSelected'
    <3>1. ASSUME NEW s \in query.steady, NEW q \in query.choice, s \notin LaterThan({s}, q)
          PROVE  s \notin LaterThan({s}, q)'
      <4>1. s # r /\ q # r
        BY <1>1, <2>1 DEF RefsAreKnown, UsableRun, UsableOf
      <4>2. ASSUME NEW k \in 1..Len(created'), created'[k] # r
            PROVE  k \in 1..Len(created) /\ created'[k] = created[k]
        BY <1>1, <1>3, <4>2, Joins
      <4> QED
        BY <3>1, <4>1, <4>2 DEF LaterThan
    <3> QED
      BY <2>2, <3>1 DEF LatestIsSelected
  <2> QED
    BY <2>3, <2>4, <2>5, <2>6
<1>4. ASSUME Delete(r)
      PROVE  RefsAreKnown' /\ TokenStands' /\ FoundOnce' /\ UsableIsFound' /\ LatestIsSelected'
  <2>1. /\ created' = created
        /\ state'[r] = "DELETED" /\ \A s \in Runs : s # r => state'[s] = state[s]
    BY <1>4 DEF Delete, LookupTypeOK
  <2>2. query' = [query EXCEPT !.left = TRUE, !.steady = @ \ {r}]
    BY <1>4 DEF Delete
  <2>3. /\ query'.pc = query.pc /\ query'.op = query.op /\ query'.chip = query.chip
        /\ query'.refs = query.refs /\ query'.steady = query.steady \ {r} /\ query'.left
        /\ query'.choice = query.choice /\ query'.answer = query.answer
        /\ query'.joined = query.joined
        /\ query'.pageSize = query.pageSize /\ query'.maxResults = query.maxResults
        /\ query'.offset = query.offset
    BY <1>1, <2>2 DEF Query
  <2>4. RefsAreKnown'
    BY <1>1, <2>1, <2>3, SMTT(30) DEF RefsAreKnown, UsableOf, UsableRun
  <2>5. TokenStands'
    <3>1. ASSUME query.pc = "paging", ~query.joined,
                 NEW i \in 1..Len(query.refs), NEW q \in 1..Len(listing'),
                 listing'[q] = query.refs[i].run
          PROVE  q <= query.offset
      <4>1. PICK k \in 1..Len(listing) : k >= q /\ listing[k] = listing'[q]
        BY <1>4, Leaves
      <4>2. k <= query.offset
        BY <3>1, <4>1 DEF TokenStands
      <4> QED
        BY <1>1, <4>1, <4>2
    <3> QED
      BY <2>3, <3>1 DEF TokenStands
  <2>6. FoundOnce' /\ UsableIsFound' /\ LatestIsSelected'
    BY <2>3 DEF FoundOnce, UsableIsFound, LatestIsSelected
  <2> QED
    BY <2>4, <2>5, <2>6
<1>5. ASSUME NEW o \in Outcome,
             \/ GetExperiment(r, o) \/ CreateExperiment(r, o) \/ GetAgain(r, o)
             \/ CreateRun(r, o) /\ o = "failed"
      PROVE  Quiet
  BY <1>5 DEF GetExperiment, CreateExperiment, GetAgain, CreateRun, Quiet
<1>6. ASSUME Finish(r) PROVE Quiet
  BY <1>6 DEF Finish, Quiet, LookupTypeOK
<1> QED
  BY <1>2, <1>3, <1>4, <1>5, <1>6 DEF MakeStep

\* With one page more, what was read still has no run twice, and of the steady runs only those are
\* missing that are behind a full page.
Extended(refs, page) ==
    /\ refs \in Seq(Ref)
    /\ Len(refs) = Len(query.refs) + Len(page)
    /\ \A i \in 1..Len(refs) : state[refs[i].run] # "ABSENT"
    /\ UsableOf(query.refs) \subseteq UsableOf(refs)
    /\ query.joined \/ \A i \in 1..Len(refs) :
          /\ \A j \in 1..Len(refs) : refs[i].run = refs[j].run => i = j
          /\ \A p \in 1..Len(listing) : listing[p] = refs[i].run => p <= query.offset + PageLimit
    /\ query.left \/ \A s \in query.steady :
          \/ s \in UsableOf(refs)
          \/ /\ \E p \in 1..Len(listing) : p > query.offset + PageLimit /\ listing[p] = s
             /\ Len(page) = PageLimit

\* The runs of a page come after those already read, without a gap.
LEMMA PageFollows ==
    ASSUME PagingInv, query.pc = "paging", PageLimit \in Nat,
           NEW page, page = Page(PageLimit), NEW refs, refs = query.refs \o page
    PROVE  Extended(refs, page)
<1> USE DEF PagingInv
<1>1. /\ page \in Seq(Ref)
      /\ Len(page) <= PageLimit
      /\ \A i \in 1..Len(page) : /\ query.offset + i \in 1..Len(listing)
                                 /\ page[i].run = listing[query.offset + i]
                                 /\ page[i].usable = UsableRun(listing[query.offset + i])
      /\ \A p \in 1..Len(listing) : p > query.offset =>
            \/ p > query.offset + Len(page) /\ Len(page) = PageLimit
            \/ p - query.offset \in 1..Len(page)
  BY PageRead
<1>2. query.refs \in Seq(Ref) /\ query.offset \in Nat /\ Len(query.refs) \in Nat /\ Len(page) \in Nat
  BY <1>1, LenProperties DEF LookupTypeOK, Query
<1>3. /\ refs \in Seq(Ref)
      /\ Len(refs) = Len(query.refs) + Len(page)
      /\ \A i \in 1..Len(refs) : refs[i] = IF i <= Len(query.refs) THEN query.refs[i]
                                           ELSE page[i - Len(query.refs)]
  BY <1>1, <1>2, ConcatProperties
<1>4. ASSUME NEW i \in 1..Len(refs)
      PROVE  \/ i \in 1..Len(query.refs) /\ refs[i] = query.refs[i]
             \/ i - Len(query.refs) \in 1..Len(page) /\ refs[i] = page[i - Len(query.refs)]
  BY <1>2, <1>3
<1>5. \A i \in 1..Len(query.refs) : i \in 1..Len(refs) /\ refs[i] = query.refs[i]
  BY <1>2, <1>3
<1>6. ASSUME NEW i \in 1..Len(page)
      PROVE  i + Len(query.refs) \in 1..Len(refs) /\ refs[i + Len(query.refs)] = page[i]
  <2>1. PICK n \in Nat : n = Len(query.refs)
    BY <1>2
  <2>2. /\ i + n \in 1..Len(refs)
        /\ ~(i + n <= n)
        /\ i + n - n = i
    BY <1>2, <1>3, <2>1
  <2>3. PICK m \in 1..Len(refs) : m = i + n /\ ~(m <= n) /\ m - n = i
    BY <2>2
  <2>4. refs[m] = page[m - n]
    BY <1>3, <2>1, <2>3
  <2> QED
    BY <2>1, <2>2, <2>3, <2>4
<1>7. ASSUME NEW i \in 1..Len(refs) PROVE state[refs[i].run] # "ABSENT"
  <2>1. CASE i \in 1..Len(query.refs) /\ refs[i] = query.refs[i]
    BY <2>1 DEF RefsAreKnown
  <2>2. CASE i - Len(query.refs) \in 1..Len(page) /\ refs[i] = page[i - Len(query.refs)]
    <3>1. PICK k \in 1..Len(page) : refs[i] = page[k]
      BY <2>2
    <3>2. PICK q \in 1..Len(listing) : refs[i].run = listing[q]
      BY <1>1, <3>1, ZenonT(60)
    <3>3. state[listing[q]] \in {"RUNNING", "FINISHED"}
      BY DEF Registered
    <3> QED
      BY <3>2, <3>3
  <2> QED
    BY <1>4, <2>1, <2>2
<1>8. UsableOf(query.refs) \subseteq UsableOf(refs)
  BY <1>5 DEF UsableOf
<1>9. ASSUME ~query.joined, NEW i \in 1..Len(refs), NEW p \in 1..Len(listing), listing[p] = refs[i].run
       PROVE  /\ i \in 1..Len(query.refs) => p <= query.offset
              /\ i \notin 1..Len(query.refs) => p = query.offset + (i - Len(query.refs))
              /\ p <= query.offset + PageLimit
  <2>1. CASE i \in 1..Len(query.refs)
    <3>1. p <= query.offset
      BY <1>5, <1>9, <2>1 DEF TokenStands
    <3> QED
      BY <1>2, <2>1, <3>1
  <2>2. CASE i \notin 1..Len(query.refs)
    <3>1. PICK k \in 1..Len(page) : k = i - Len(query.refs) /\ refs[i] = page[k]
      BY <1>4, <2>2
    <3>2. PICK q \in 1..Len(listing) : q = query.offset + k /\ page[k].run = listing[q]
      BY <1>1
    <3>3. listing[p] = listing[q]
      BY <1>9, <3>1, <3>2
    <3>4. p = q
      BY <3>3 DEF Registered
    <3> QED
      BY <1>1, <1>2, <2>2, <3>1, <3>2, <3>4
  <2> QED
    BY <2>1, <2>2
<1>10. ASSUME ~query.joined, NEW i \in 1..Len(refs), NEW j \in 1..Len(refs), refs[i].run = refs[j].run
       PROVE  i = j
  <2>1. CASE i \in 1..Len(query.refs) /\ j \in 1..Len(query.refs)
    BY <1>5, <1>10, <2>1 DEF FoundOnce
  <2>2. ASSUME NEW k \in 1..Len(refs), k \notin 1..Len(query.refs)
        PROVE  \E p \in 1..Len(listing) : listing[p] = refs[k].run /\ p > query.offset
    <3>1. k - Len(query.refs) \in 1..Len(page) /\ refs[k] = page[k - Len(query.refs)]
      BY <1>4, <2>2
    <3>2. query.offset + (k - Len(query.refs)) > query.offset
      BY <1>2, <3>1
    <3> QED
      BY <1>1, <3>1, <3>2
  <2>3. CASE i \notin 1..Len(query.refs)
    <3>1. PICK p \in 1..Len(listing) : listing[p] = refs[i].run /\ p > query.offset
      BY <2>2, <2>3
    <3>2. p = query.offset + (i - Len(query.refs))
      BY <1>9, <1>10, <2>3, <3>1
    <3>3. j \notin 1..Len(query.refs)
      BY <1>2, <1>9, <1>10, <3>1
    <3>4. p = query.offset + (j - Len(query.refs))
      BY <1>9, <1>10, <3>1, <3>3
    <3> QED
      BY <1>2, <3>2, <3>4
  <2>4. CASE j \notin 1..Len(query.refs) /\ i \in 1..Len(query.refs)
    <3>1. PICK p \in 1..Len(listing) : listing[p] = refs[j].run /\ p > query.offset
      BY <2>2, <2>4
    <3> QED
      BY <1>2, <1>9, <1>10, <2>4, <3>1
  <2> QED
    BY <2>1, <2>3, <2>4
<1>11. ASSUME ~query.left, NEW s \in query.steady, s \notin UsableOf(refs)
       PROVE  /\ \E p \in 1..Len(listing) : p > query.offset + PageLimit /\ listing[p] = s
              /\ Len(page) = PageLimit
  <2>1. PICK p \in 1..Len(listing) : p > query.offset /\ listing[p] = s
    BY <1>8, <1>11 DEF TokenStands
  <2>2. CASE p - query.offset \in 1..Len(page)
    <3>1. PICK k \in 1..Len(page) : k = p - query.offset
      BY <2>2
    <3>2. query.offset + k = p
      BY <1>2, <3>1
    <3>3. page[k].run = s /\ page[k].usable
      BY <1>1, <1>11, <2>1, <3>2 DEF RefsAreKnown
    <3> QED
      BY <1>6, <1>11, <3>3 DEF UsableOf
  <2> QED
    BY <1>1, <2>1, <2>2
<1> QED
  BY <1>3, <1>7, <1>8, <1>9, <1>10, <1>11 DEF Extended

\* What the reader does keeps its part: a call that ends has found what it promises.
LEMMA ReadersGoOn ==
    ASSUME PagingInv, LookupStep
    PROVE  RefsAreKnown' /\ TokenStands' /\ FoundOnce' /\ UsableIsFound' /\ LatestIsSelected'
<1> USE DEF PagingInv
<1>1. UNCHANGED <<experiment, created, listing, state, making>>
  BY DEF LookupStep, Ask, FetchPage, NothingWanted
<1>2. /\ query \in Query /\ query.refs \in Seq(Ref) /\ Len(query.refs) \in Nat
      /\ query.offset \in Nat /\ query.pageSize \in Nat /\ query.maxResults \in Nat
  BY LenProperties DEF LookupTypeOK, Query
<1>3. ASSUME NEW op \in LookupOps, NEW chip \in Chips \cup {NoChip}, NEW pageSize \in PageSizes,
             NEW maxResults \in Limits \cup {0}, NEW o \in Outcome,
             Ask(op, chip, pageSize, maxResults, o)
      PROVE  RefsAreKnown' /\ TokenStands' /\ FoundOnce' /\ UsableIsFound' /\ LatestIsSelected'
  <2>1. pageSize \in Nat \ {0} /\ maxResults \in Nat
    BY LookupAssumption DEF LookupAssumption
  <2>2. /\ query'.op = op /\ query'.pageSize = pageSize /\ query'.maxResults = maxResults
        /\ query'.offset = 0 /\ query'.refs = <<>> /\ query'.answer = {} /\ query'.choice = {}
        /\ query'.steady = {r \in Runs : UsableRun(r)}
        /\ query'.pc \in {"returned", "notfound"} => ~experiment
    BY <1>3 DEF Ask
  <2>3. Len(query'.refs) = 0
    BY <2>2
  <2>4. RefsAreKnown'
    BY <1>1, <2>2, <2>3 DEF RefsAreKnown, UsableRun
  <2>5. TokenStands'
    <3>1. ASSUME NEW r \in query'.steady
          PROVE  \E p \in 1..Len(listing') : p > query'.offset /\ listing'[p] = r
      <4>1. PICK p \in 1..Len(listing) : listing[p] = r
        BY <2>2, <3>1 DEF UsableRun, Registered
      <4> QED
        BY <1>1, <2>2, <4>1
    <3> QED
      BY <2>1, <2>2, <2>3, <3>1 DEF TokenStands
  <2>6. query'.pc \in {"returned", "notfound"} => query'.steady = {}
    BY <2>2 DEF UsableRun, Registered
  <2> QED
    BY <2>3, <2>4, <2>5, <2>6 DEF FoundOnce, UsableIsFound, LatestIsSelected
<1>4. ASSUME NEW o \in Outcome, FetchPage(o), o # "ok"
      PROVE  RefsAreKnown' /\ TokenStands' /\ FoundOnce' /\ UsableIsFound' /\ LatestIsSelected'
  <2>1. query' = [query EXCEPT !.pc = "raised"]
    BY <1>4 DEF FetchPage
  <2>2. /\ query'.pc = "raised" /\ query'.refs = query.refs /\ query'.steady = query.steady
        /\ query'.choice = query.choice /\ query'.joined = query.joined
    BY <1>2, <2>1 DEF Query
  <2> QED
    BY <1>1, <2>2 DEF RefsAreKnown, TokenStands, FoundOnce, UsableIsFound, LatestIsSelected,
                      UsableOf, UsableRun
<1>5. ASSUME NEW o \in Outcome, FetchPage(o), o = "ok"
      PROVE  RefsAreKnown' /\ TokenStands' /\ FoundOnce' /\ UsableIsFound' /\ LatestIsSelected'
  <2>1. query.pc = "paging" /\ PageLimit > 0
    BY <1>5 DEF FetchPage
  <2>2. /\ PageLimit \in Nat
        /\ query.op \in Searches => PageLimit <= query.maxResults - Len(query.refs)
    BY <1>2, <2>1 DEF PageLimit
  <2>3. PICK page : page = Page(PageLimit)
    OBVIOUS
  <2>4. PICK refs : refs = query.refs \o page
    OBVIOUS
  <2>5. /\ refs \in Seq(Ref)
        /\ Len(refs) = Len(query.refs) + Len(page)
        /\ \A i \in 1..Len(refs) : state[refs[i].run] # "ABSENT"
        /\ UsableOf(query.refs) \subseteq UsableOf(refs)
        /\ query.joined \/ \A i \in 1..Len(refs) :
              /\ \A j \in 1..Len(refs) : refs[i].run = refs[j].run => i = j
              /\ \A p \in 1..Len(listing) : listing[p] = refs[i].run => p <= query.offset + PageLimit
        /\ query.left \/ \A s \in query.steady :
              \/ s \in UsableOf(refs)
              \/ /\ \E p \in 1..Len(listing) : p > query.offset + PageLimit /\ listing[p] = s
                 /\ Len(page) = PageLimit
    <3>1. Extended(refs, page)
      BY <2>1, <2>2, <2>3, <2>4, PageFollows
    <3> QED
      BY <3>1 DEF Extended
  <2>6. Len(page) \in Nat /\ Len(page) <= PageLimit
    BY <2>2, <2>3, PageRead, LenProperties
  <2>7. CASE Done(page, refs)
    <3>1. PICK chosen : chosen = IF query.op = "select" THEN Choice(refs, query.chip) ELSE {}
      OBVIOUS
    <3>2. query' = [query EXCEPT !.pc = IF query.op = "select" /\ chosen = {} THEN "notfound"
                                        ELSE "returned",
                                 !.refs = refs, !.answer = UsableOf(refs), !.choice = chosen]
      BY <1>5, <2>3, <2>4, <2>7, <3>1 DEF FetchPage, Answer
    <3>3. /\ query'.pc \in {"returned", "notfound"}
          /\ query'.refs = refs /\ query'.answer = UsableOf(refs) /\ query'.choice = chosen
          /\ query'.op = query.op /\ query'.chip = query.chip /\ query'.maxResults = query.maxResults
          /\ query'.steady = query.steady /\ query'.left = query.left /\ query'.joined = query.joined
      BY <1>2, <3>2 DEF Query
    <3>4. UsableOf(query.refs)' = UsableOf(refs)
      BY <3>3 DEF UsableOf
    <3>5. RefsAreKnown'
      <4>1. chosen \subseteq UsableOf(refs)
        BY <3>1 DEF Choice
      <4>2. \A r \in query.steady : UsableRun(r)'
        BY <1>1 DEF RefsAreKnown, UsableRun
      <4> QED
        BY <1>1, <2>5, <3>3, <3>4, <4>1, <4>2 DEF RefsAreKnown
    <3>6. TokenStands'
      BY <3>3 DEF TokenStands
    <3>7. FoundOnce'
      BY <2>5, <3>3 DEF FoundOnce
    <3>8. ASSUME ~query.left
          PROVE  \/ query.steady \subseteq UsableOf(refs)
                 \/ query.op \in Searches /\ Len(refs) = query.maxResults
      <4>1. CASE Len(page) < PageLimit
        BY <2>2, <2>5, <2>6, <3>8, <4>1
      <4>2. CASE query.op \in Searches /\ Len(refs) >= query.maxResults
        BY <1>2, <2>2, <2>5, <2>6, <4>2
      <4> QED
        BY <2>7, <4>1, <4>2 DEF Done
    <3>9. UsableIsFound'
      BY <3>3, <3>8 DEF UsableIsFound
    <3>10. LatestIsSelected'
      <4>1. ASSUME query.op = "select", ~query.left, NEW s \in query.steady, ChipOf[s] = query.chip
            PROVE  chosen # {} /\ \A r \in chosen : s \notin LaterThan({s}, r)'
        <5>1. s \in UsableOf(refs)
          BY <3>8, <4>1 DEF Searches
        <5>2. /\ Choice(refs, query.chip) # {}
              /\ \A r \in Choice(refs, query.chip) : s \notin LaterThan({s}, r)
          BY <2>5, <4>1, <5>1, LatestChosen
        <5>3. \A r : LaterThan({s}, r)' = LaterThan({s}, r)
          BY <1>1 DEF LaterThan
        <5> QED
          BY <3>1, <4>1, <5>2, <5>3
      <4> QED
        BY <3>3, <4>1 DEF LatestIsSelected
    <3> QED
      BY <3>5, <3>6, <3>7, <3>9, <3>10
  <2>8. CASE ~Done(page, refs)
    <3>1. query' = [query EXCEPT !.refs = refs, !.offset = NextToken]
      BY <1>5, <2>3, <2>4, <2>8 DEF FetchPage
    <3>2. /\ query'.pc = query.pc /\ query'.refs = refs /\ query'.offset = query.offset + PageLimit
          /\ query'.op = query.op /\ query'.choice = query.choice
          /\ query'.pageSize = query.pageSize /\ query'.maxResults = query.maxResults
          /\ query'.steady = query.steady /\ query'.left = query.left /\ query'.joined = query.joined
      BY <1>2, <3>1 DEF Query, NextToken
    <3>3. UsableOf(query.refs)' = UsableOf(refs)
      BY <3>2 DEF UsableOf
    <3>4. RefsAreKnown'
      <4>1. \A r \in query.steady : UsableRun(r)'
        BY <1>1 DEF RefsAreKnown, UsableRun
      <4> QED
        BY <1>1, <2>5, <3>2, <3>3, <4>1 DEF RefsAreKnown
    <3>5. TokenStands'
      <4>1. query.op \in Searches => Len(refs) < query.maxResults
        BY <1>2, <2>5, <2>6, <2>8 DEF Done
      <4>2. query.op \in LookupOps /\ query.pageSize > 0
        BY <2>1 DEF TokenStands
      <4> QED
        BY <1>1, <2>1, <2>5, <3>2, <3>3, <4>1, <4>2 DEF TokenStands
    <3> QED
      BY <2>1, <2>5, <3>2, <3>4, <3>5 DEF FoundOnce, UsableIsFound, LatestIsSelected
  <2> QED
    BY <2>7, <2>8
<1>6. ASSUME NothingWanted
      PROVE  RefsAreKnown' /\ TokenStands' /\ FoundOnce' /\ UsableIsFound' /\ LatestIsSelected'
  <2>1. query.pc = "paging" /\ PageLimit = 0 /\ Answer(<<>>)
    BY <1>6 DEF NothingWanted
  <2>2. query.op \in Searches /\ query.maxResults = 0
    BY <1>2, <2>1 DEF PageLimit, TokenStands
  <2>3. query' = [query EXCEPT !.pc = "returned", !.refs = <<>>, !.answer = UsableOf(<<>>),
                               !.choice = {}]
    BY <2>1, <2>2 DEF Answer, Searches
  <2>4. /\ query'.pc = "returned" /\ query'.refs = <<>> /\ query'.choice = {}
        /\ query'.op = query.op /\ query'.maxResults = 0 /\ query'.steady = query.steady
    BY <1>2, <2>2, <2>3 DEF Query
  <2>5. Len(query'.refs) = 0
    BY <2>4
  <2> QED
    BY <1>1, <2>2, <2>4, <2>5 DEF RefsAreKnown, TokenStands, FoundOnce, UsableIsFound,
                                  LatestIsSelected, UsableRun, Searches
<1> QED
  BY <1>3, <1>4, <1>5, <1>6 DEF LookupStep

\* Before any run is made nothing is listed and nothing was read.
LEMMA PagingInitially == LookupInit => PagingInv
<1> SUFFICES ASSUME LookupInit PROVE PagingInv
  OBVIOUS
<1>1. LookupTypeOK
  <2>1. <<>> \in Seq(Runs) /\ <<>> \in Seq(Ref)
    BY EmptySeq
  <2>2. query \in Query /\ state \in [Runs -> States] /\ making \in [Runs -> MakingPCs]
    BY <2>1 DEF LookupInit, Query, QueryPCs, States, MakingPCs
  <2>3. lookupFaults \in 0..MaxLookupFaults
    BY LookupAssumption DEF LookupInit, LookupAssumption
  <2> QED
    BY <2>1, <2>2, <2>3 DEF LookupInit, LookupTypeOK
<1>2. /\ query.pc = "idle" /\ query.refs = <<>> /\ query.steady = {} /\ query.choice = {}
      /\ Len(query.refs) = 0 /\ Len(created) = 0 /\ Len(listing) = 0
      /\ \A r \in Runs : state[r] = "ABSENT" /\ making[r] = "idle"
  BY DEF LookupInit
<1>3. Registered
  BY <1>2 DEF Registered
<1>4. RaceInv
  BY DEF LookupInit, RaceInv, MakingPCs
<1> QED
  BY <1>1, <1>2, <1>3, <1>4 DEF PagingInv, RefsAreKnown, TokenStands, FoundOnce, UsableIsFound,
                                LatestIsSelected

\* Every step of a producer, a reader or whoever deletes runs keeps the invariant.
LEMMA PagingKeeps == PagingInv /\ [LookupNext]_lookupVars => PagingInv'
<1> SUFFICES ASSUME PagingInv, [LookupNext]_lookupVars PROVE PagingInv'
  OBVIOUS
<1>1. Registered'
  BY RegisteredKept DEF PagingInv
<1>2. CASE UNCHANGED lookupVars
  <2>1. UNCHANGED <<experiment, created, listing, state, making, query, lookupFaults>>
    BY <1>2 DEF lookupVars
  <2>2. LookupTypeOK' /\ RaceInv'
    BY <2>1 DEF PagingInv, LookupTypeOK, RaceInv
  <2>3. RefsAreKnown'
    BY <2>1 DEF PagingInv, RefsAreKnown, UsableOf, UsableRun
  <2>4. TokenStands'
    BY <2>1 DEF PagingInv, TokenStands, UsableOf
  <2>5. FoundOnce' /\ UsableIsFound' /\ LatestIsSelected'
    BY <2>1 DEF PagingInv, FoundOnce, UsableIsFound, LatestIsSelected, LaterThan
  <2> QED
    BY <1>1, <2>2, <2>3, <2>4, <2>5 DEF PagingInv
<1>3. CASE LookupNext
  <2>1. LookupTypeOK' /\ RaceInv'
    BY <1>3, MakeTypes, LookupTypes, MakeKeeps, ReadersKeep DEF PagingInv, LookupNext
  <2>2. RefsAreKnown' /\ TokenStands' /\ FoundOnce' /\ UsableIsFound' /\ LatestIsSelected'
    BY <1>3, OthersKeep, ReadersGoOn DEF LookupNext
  <2> QED
    BY <1>1, <2>1, <2>2 DEF PagingInv
<1> QED
  BY <1>2, <1>3

\* What paging relies on, for any number of runs and any size of page.
THEOREM PagingInductive == LookupSpec => []PagingInv
  BY PagingInitially, PagingKeeps, PTL DEF LookupSpec

\* Paging loses no run (UsableIsFound): what was usable all along is returned, whatever is created
\* and finished meanwhile, unless a run was deleted or a search is full.
THEOREM UsableAreFound == LookupSpec => []UsableIsFound
<1>1. PagingInv => UsableIsFound
  BY DEF PagingInv
<1> QED
  BY <1>1, PagingInductive, PTL

\* Paging reads no run twice (FoundOnce) while none is created.
THEOREM FoundOnlyOnce == LookupSpec => []FoundOnce
<1>1. PagingInv => FoundOnce
  BY DEF PagingInv
<1> QED
  BY <1>1, PagingInductive, PTL

\* _select_run returns the latest run of its chip (LatestIsSelected).
THEOREM LatestAreSelected == LookupSpec => []LatestIsSelected
<1>1. PagingInv => LatestIsSelected
  BY DEF PagingInv
<1> QED
  BY <1>1, PagingInductive, PTL
=============================================================================
