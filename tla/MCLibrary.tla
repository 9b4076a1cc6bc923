------------------------------ MODULE MCLibrary ------------------------------
(***************************************************************************)
(* Five parts of the code that share no state, checked in one run: a       *)
(* behaviour is the upload of one file, the life of one alias, one turn of *)
(* the benchmark loop, one analyzer from its registration to its advice,   *)
(* or one run's way into the bucket and back, while the other parts do     *)
(* nothing.                                                                *)
(***************************************************************************)
EXTENDS UploadVerified, Lookup, Iteration, Advice, Layout, TLC

CONSTANTS r1, r2, r3, gpu, cpu

MCChipOf == r1 :> gpu @@ r2 :> gpu @@ r3 :> cpu

\* The parts that do nothing have an empty file and a template of one word.
ASSUME LibraryAssumption == 0 \in FirstBlocks /\ TRUE \in Checksums /\ <<"dir">> \in Tokens

VARIABLE part

libraryVars == <<transferVars, lookupVars, iterationVars, job, layoutVars, part>>

NoTransfer ==
    /\ file = <<>>
    /\ edits = 0
    /\ up = [pc |-> "digesting", attempt |-> 1, digest |-> <<>>, size |-> 0, sent |-> <<>>,
             checksum |-> TRUE]
    /\ object = NoObject

NoTurn ==
    /\ output = <<>>
    /\ turn = [pc |-> "measuring", fresh |-> TRUE, wrote |-> FALSE, record |-> NoRecord,
               eval |-> NoEval, accuracy |-> "absent", user |-> {}, metrics |-> {}, tags |-> {}]

NoJob ==
    job = [pc |-> "config", token |-> <<"dir">>, argv |-> <<>>, exit |-> "none",
           printed |-> "nothing", length |-> 0, advice |-> NoAdvice]

NoEntry ==
    /\ entry = [pc |-> "called", alias |-> <<>>, paths |-> <<>>, held |-> FALSE,
                restored |-> {}]
    /\ stored = {}

LibraryInit ==
    \/ part = "transfer"  /\ TransferInit /\ LookupInit /\ NoTurn /\ NoJob /\ NoEntry
    \/ part = "lookup"    /\ NoTransfer /\ LookupInit /\ NoTurn /\ NoJob /\ NoEntry
    \/ part = "iteration" /\ NoTransfer /\ LookupInit /\ IterationInit /\ NoJob /\ NoEntry
    \/ part = "advice"    /\ NoTransfer /\ LookupInit /\ NoTurn /\ AdviceInit /\ NoEntry
    \/ part = "layout"    /\ NoTransfer /\ LookupInit /\ NoTurn /\ NoJob /\ LayoutInit

OthersThanTransfer == <<lookupVars, iterationVars, job, layoutVars, part>>

CallPart == part = "transfer" /\ CallStep /\ UNCHANGED OthersThanTransfer
EditPart == part = "transfer" /\ Edit /\ UNCHANGED OthersThanTransfer
LookupPart ==
    /\ part = "lookup" /\ LookupNext
    /\ UNCHANGED <<transferVars, iterationVars, job, layoutVars, part>>
IterationPart ==
    /\ part = "iteration" /\ IterationNext
    /\ UNCHANGED <<transferVars, lookupVars, job, layoutVars, part>>
AdvicePart ==
    /\ part = "advice" /\ AdviceNext
    /\ UNCHANGED <<transferVars, lookupVars, iterationVars, layoutVars, part>>
LayoutPart ==
    /\ part = "layout" /\ LayoutNext
    /\ UNCHANGED <<transferVars, lookupVars, iterationVars, job, part>>

LibraryNext == CallPart \/ EditPart \/ LookupPart \/ IterationPart \/ AdvicePart \/ LayoutPart

LibrarySpec == LibraryInit /\ [][LibraryNext]_libraryVars

\* The process that uploads goes on; nobody has to edit the file.
FairLibrarySpec == LibrarySpec /\ WF_libraryVars(CallPart)

-----------------------------------------------------------------------------
(* Properties *)

\* Every variable of every part has its type.
LibraryTypeOK ==
    TransferTypeOK /\ LookupTypeOK /\ IterationTypeOK /\ AdviceTypeOK /\ LayoutTypeOK

\* "Retries only transient transport errors", and those a bounded number of times: the call
\* returns or raises, whatever fails and whoever edits the file.
EveryTransferEnds == part = "transfer" => <>TransferEnded
=============================================================================
