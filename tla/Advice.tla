-------------------------------- MODULE Advice --------------------------------
(***************************************************************************)
(* A command analyzer from its registration to its advice: the template of *)
(* its argv is validated at boot, expanded for the directory of a run, the *)
(* tool is run, and what it printed is shaped into advice of bounded       *)
(* length.  A token is a sequence of the words the two readings of it tell *)
(* apart; texts are known by their length and kind.  The directory and the *)
(* tool are external.                                                      *)
(***************************************************************************)
EXTENDS Integers, Sequences, FiniteSets, Picking

CONSTANTS
    Words,           \* the words of tokens
    MaxWords,        \* bound: words of a token
    OutLengths,      \* bound: how much a tool may print, in characters
    HeadLength,      \* of the lines that say how the tool ended, with an analyzer's name in them
    MaxAdviceChars   \* _MAX_ADVICE_CHARS

MarkerLength == 21   \* of the truncation marker with a count of one digit
CountSlack   == 8    \* digits of the count beyond the first
Uncounted    == 10 ^ 9   \* the least count with more digits

ASSUME AdviceAssumption ==
    /\ Words \subseteq {"{", "}", "dir", "tmp", "file:", "files:"}
    /\ MaxWords \in Nat
    /\ OutLengths \subseteq Nat
    /\ MaxAdviceChars \in Nat
    /\ HeadLength \in Nat
    /\ 2 * HeadLength + MarkerLength + CountSlack <= MaxAdviceChars

VARIABLE job   \* one token of an analyzer's template, and what becomes of it

Tokens  == UNION {[1..n -> Words] : n \in 1..MaxWords}
Pathed  == Words \cup {"RUNDIR", "TMPDIR", "match"}
Heads   == {"none", "exited", "timedout", "nofindings", "output"}
JobPCs  == {"config", "rejected", "registered", "running", "nomatch", "advised"}
Prints  == {"nothing", "noise", "findings"}
NoAdvice == [head |-> "none", length |-> 0, clipped |-> FALSE]

\* argv: what the token becomes; exit, printed, length: how the tool ended and what it printed,
\* the lines that are noise to this analyzer not counted.
AdviceTypeOK ==
    /\ job.pc \in JobPCs
    /\ job.token \in Tokens
    /\ \A i \in 1..Len(job.argv) : job.argv[i] \in Seq(Pathed)
    /\ job.exit \in {"none", "zero", "nonzero", "timeout"}
    /\ job.printed \in Prints
    /\ job.length \in OutLengths \cup {0}
    /\ job.advice \in [head : Heads, length : Nat, clipped : BOOLEAN]

AdviceInit ==
    \E token \in Tokens :
        job = [pc |-> "config", token |-> token, argv |-> <<>>, exit |-> "none",
               printed |-> "nothing", length |-> 0, advice |-> NoAdvice]

-----------------------------------------------------------------------------
(* Tokens *)

\* Where "{name}" stands in a token.
At(token, name, i) ==
    /\ i \in 1..(Len(token) - 2)
    /\ token[i] = "{" /\ token[i + 1] = name /\ token[i + 2] = "}"

\* The places of a token that "{name}" occupies behind its first, which a text of one word takes.
Covered(token, name) == {i \in 1..Len(token) : At(token, name, i - 1) \/ At(token, name, i - 2)}
Starts(token, name)  == {i \in 1..Len(token) : At(token, name, i)}

\* str.replace("{name}", text) for a text of one word or none: occurrences cannot overlap.
Replace(token, name, text) ==
    LET lost == Covered(token, name) \cup (IF text = <<>> THEN Starts(token, name) ELSE {})
    IN  Picked([i \in 1..Len(token) |-> IF At(token, name, i) /\ text # <<>> THEN text[1] ELSE token[i]],
               (1..Len(token)) \ lost)

Has(token, name) == \E i \in 1..Len(token) : At(token, name, i)

\* _FILE_TOKEN and _FILES_TOKEN: the whole token, with any glob that is not empty.
Selects(token, name) ==
    Len(token) > 3 /\ token[1] = "{" /\ token[2] = name /\ token[Len(token)] = "}"

IsSelector(token) == Selects(token, "file:") \/ Selects(token, "files:")

Braceless(token) == \A i \in 1..Len(token) : token[i] \notin {"{", "}"}

\* Mutant: a selector may stand anywhere in a token.
ValidAnywhere(token) ==
    \/ \E i \in 1..Len(token) : IsSelector(SubSeq(token, i, Len(token)))
    \/ Braceless(Replace(Replace(token, "dir", <<>>), "tmp", <<>>))

\* validate_argv_template: a selector, or no brace is left without the embeds.
Valid(token) ==
    \/ IsSelector(token)
    \/ Braceless(Replace(Replace(token, "dir", <<>>), "tmp", <<>>))

\* _expand_token, which looks for embeds first; matches is how many files match the glob.
Expanded(token, matches) ==
    IF Has(token, "dir") \/ Has(token, "tmp")
      THEN <<Replace(Replace(token, "dir", <<"RUNDIR">>), "tmp", <<"TMPDIR">>)>>
    ELSE IF IsSelector(token) THEN [i \in 1..matches |-> <<"match">>]
    ELSE <<token>>

\* A selector of one file must match one file, a selector of many at least one.
Matched(token, matches) ==
    \/ Has(token, "dir") \/ Has(token, "tmp")
    \/ Selects(token, "file:") /\ matches = 1
    \/ Selects(token, "files:") /\ matches > 0
    \/ ~IsSelector(token)

-----------------------------------------------------------------------------
(* Advice *)

Digits(n) == 1 + Cardinality({d \in 1..9 : n >= 10 ^ d})

\* Mutant: no slack for the count.
BudgetWithoutSlack == MaxAdviceChars - MarkerLength

Budget == MaxAdviceChars - MarkerLength - CountSlack

\* _bounded
Bounded(head, length) ==
    IF length <= MaxAdviceChars THEN [head |-> head, length |-> length, clipped |-> FALSE]
    ELSE [head |-> head, clipped |-> TRUE,
          length |-> Budget + MarkerLength - 1 + Digits(length - Budget)]

\* Mutant: whether there are findings is asked before how the tool ended.
FinalizedByText(exit, printed, length) ==
    IF printed # "findings"
      THEN [head |-> "nofindings", length |-> 2 * HeadLength, clipped |-> FALSE]
    ELSE IF exit # "zero" THEN Bounded("exited", HeadLength + length)
    ELSE Bounded("output", length)

\* _finalize: a failure keeps all the text, a success loses its noise.
Finalized(exit, printed, length) ==
    IF exit # "zero" THEN Bounded("exited", HeadLength + length)
    ELSE IF printed # "findings"
      THEN [head |-> "nofindings", length |-> 2 * HeadLength, clipped |-> FALSE]
    ELSE Bounded("output", length)

-----------------------------------------------------------------------------

\* build_analyzer, at boot: a bad token keeps the server from starting.
Register ==
    /\ job.pc = "config"
    /\ job' = [job EXCEPT !.pc = IF Valid(job.token) THEN "registered" ELSE "rejected"]

Expand(matches) ==
    /\ job.pc = "registered"
    /\ job' = IF Matched(job.token, matches)
                THEN [job EXCEPT !.pc = "running", !.argv = Expanded(job.token, matches)]
                ELSE [job EXCEPT !.pc = "nomatch"]

Advise(exit, printed, length, advice) ==
    /\ job.pc = "running"
    /\ (printed = "findings") = (length > 0)
    /\ job' = [job EXCEPT !.pc = "advised", !.exit = exit, !.printed = printed,
                          !.length = length, !.advice = advice]

\* The tool ends by itself.
ToolExits(exit, printed, length) ==
    Advise(exit, printed, length, Finalized(exit, printed, length))

\* The tool is killed at the timeout, and what it printed until then is the advice.
ToolTimesOut(printed, length) ==
    Advise("timeout", printed, length, Bounded("timedout", HeadLength + length))

AdviceNext ==
    \/ Register
    \/ \E matches \in 0..2 : Expand(matches)
    \/ \E printed \in Prints, length \in OutLengths :
          \/ \E exit \in {"zero", "nonzero"} : ToolExits(exit, printed, length)
          \/ ToolTimesOut(printed, length)

AdviceSpec == AdviceInit /\ [][AdviceNext]_job

-----------------------------------------------------------------------------
(* Properties *)

\* A brace inside another one's.
Nested(token) ==
    \E i, j \in 1..Len(token) :
        /\ i < j
        /\ token[i] = "{" /\ token[j] = "{"
        /\ \A k \in (i + 1)..(j - 1) : token[k] # "}"

\* A typo "fails loudly at REGISTRATION rather than reaching the tool as a silent literal arg": no
\* brace reaches the tool, but for a placeholder in a placeholder and an embed in a selector,
\* which validation reads as one and expansion as the other.
TemplatesExpand ==
    job.pc \in {"running", "advised"} =>
        \/ \A i \in 1..Len(job.argv) : Braceless(job.argv[i])
        \/ Nested(job.token)
        \/ IsSelector(job.token) /\ (Has(job.token, "dir") \/ Has(job.token, "tmp"))

\* "Cap advice length, but NEVER silently": no advice is longer than the bound, if the tool prints
\* less than 10^9 characters (the slack is for nine digits), and one that is not all says so.
AdviceFits ==
    job.pc = "advised" =>
        /\ job.length < Uncounted => job.advice.length <= MaxAdviceChars
        /\ job.advice.clipped \/ job.advice.length >= job.length

\* "'No findings' # 'broke'": a tool that failed or timed out is never reported to have run
\* successfully, whatever it printed, and a tool with findings never to have none.
FailureShows ==
    job.pc = "advised" =>
        /\ job.advice.head = "exited"     <=> job.exit = "nonzero"
        /\ job.advice.head = "timedout"   <=> job.exit = "timeout"
        /\ job.advice.head = "nofindings" <=> job.exit = "zero" /\ job.printed # "findings"
=============================================================================
