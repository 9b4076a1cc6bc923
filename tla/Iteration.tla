------------------------------ MODULE Iteration ------------------------------
(***************************************************************************)
(* One turn of the benchmark loop: a tool appends its result to a file, or *)
(* dies first; run_iteration loads a record of the file, takes accuracy    *)
(* from an eval result, flattens the record to metrics and tags, and hands *)
(* them to log(), which validates them before anything is created.         *)
(* A number is finite, not finite (JSON admits NaN and Infinity) or an     *)
(* integer that no float can hold.  The tools and JSON are external.       *)
(***************************************************************************)
EXTENDS Sequences, Naturals

CONSTANTS
    CoreKinds,    \* what a field of the common core may be
    ExtraKinds,   \* what a field without a canonical slot may be
    UserTags      \* bound: the sets of tag names a caller may pass

Kinds   == {"finite", "nonfinite", "huge", "bool", "text", "list", "absent"}
Numbers == {"finite", "nonfinite", "huge"}
Scalars == Numbers \cup {"bool", "text"}

ASSUME IterationAssumption ==
    /\ CoreKinds \subseteq Kinds
    /\ ExtraKinds \subseteq Kinds
    /\ UserTags \subseteq SUBSET {"extra", "eval_metric", "eval_task", "reserved"}

VARIABLES
    output,   \* the lines of the tool's output file
    turn      \* the iteration: where it is, and its local variables

iterationVars == <<output, turn>>

\* A line is a record of this turn or of an earlier one, or not valid JSON; one that was cut off
\* has no newline, and what is appended next joins it.
Record(own, core, extra) == [own |-> own, core |-> core, extra |-> extra]
Line(valid, ended, record) == [valid |-> valid, ended |-> ended, record |-> record]
OldRecord == Record(FALSE, "finite", "finite")
NoRecord  == Record(FALSE, "absent", "absent")
Torn      == Line(FALSE, FALSE, NoRecord)

\* What accuracy is taken from: an argument, or the JSON of an eval: its score, or its tasks and
\* the value of the first known metric of the first one.
Evals == [source : {"none", "given"}, score : {"finite", "nonfinite"}, tasks : {0},
          value : {"absent"}]
         \cup [source : {"eval"}, score : Kinds, tasks : 0..2, value : {"finite", "text", "huge"}]

TurnPCs == {"measuring", "loading", "scoring", "logging", "logged", "unloadable", "unscored",
            "refused"}
TurnRecord == [pc : TurnPCs, fresh : BOOLEAN, wrote : BOOLEAN, record : [own : BOOLEAN,
               core : Kinds, extra : Kinds], eval : Evals, accuracy : Kinds,
               user : UserTags \cup {{}},
               metrics : SUBSET {"core", "extra", "accuracy"},
               tags : SUBSET {"extra", "eval_metric", "eval_task", "reserved"}]

IterationTypeOK == turn \in TurnRecord

NoEval == [source |-> "none", score |-> "finite", tasks |-> 0, value |-> "absent"]

IterationInit ==
    /\ output \in {<<>>, <<Line(TRUE, TRUE, OldRecord)>>, <<Line(TRUE, TRUE, OldRecord), Torn>>}
    /\ turn = [pc |-> "measuring", fresh |-> output = <<>>, wrote |-> FALSE, record |-> NoRecord,
               eval |-> NoEval, accuracy |-> "absent", user |-> {}, metrics |-> {}, tags |-> {}]

-----------------------------------------------------------------------------
(* The measuring tool *)

Joined(line) ==
    IF output # <<>> /\ ~output[Len(output)].ended
      THEN [output EXCEPT ![Len(output)] = Line(FALSE, line.ended, NoRecord)]
      ELSE Append(output, line)

\* The tool writes its record; run_iteration is then called with an eval and tags.
Measure(core, extra) ==
    /\ turn.pc = "measuring"
    /\ output' = Joined(Line(TRUE, TRUE, Record(TRUE, core, extra)))
    /\ turn' = [turn EXCEPT !.pc = "loading", !.wrote = TRUE]

\* The tool dies before it writes, or while it does.
MeasureDies(torn) ==
    /\ turn.pc = "measuring"
    /\ output' = IF torn THEN Joined(Torn) ELSE output
    /\ turn' = [turn EXCEPT !.pc = "loading"]

-----------------------------------------------------------------------------
(* run_iteration *)

\* Mutant: the last line that parses, whatever comes after it.
LastParseable(lines) ==
    LET valid == SelectSeq(lines, LAMBDA l : l.valid)
    IN  IF valid = <<>> THEN Torn ELSE valid[Len(valid)]

\* load_benchmark_result: the last line, or the one line.
LastRecord(lines) == IF lines = <<>> THEN Torn ELSE lines[Len(lines)]

\* An invalid last line is an error, not a reason to look further up.
Load(eval, user) ==
    /\ turn.pc = "loading"
    /\ LET line == LastRecord(output)
       IN  turn' = [turn EXCEPT !.pc = IF line.valid THEN "scoring" ELSE "unloadable",
                                !.record = line.record,
                                !.eval = IF line.valid THEN eval ELSE NoEval,
                                !.user = IF line.valid THEN user ELSE {}]
    /\ UNCHANGED output

\* Mutant: of several tasks, the first one counts.
ScoredByTask(eval) == eval.tasks > 0 /\ eval.value \in Numbers

\* accuracy_from_eval finds a score at the top, or that of the only task.
ScoredByTop(eval)    == eval.score \in Numbers
ScoredByOneTask(eval) == eval.tasks = 1 /\ eval.value \in Numbers

\* float() raises for an integer that is too large.
Score ==
    /\ turn.pc = "scoring"
    /\ LET eval  == turn.eval
           value == IF ScoredByTop(eval) THEN eval.score ELSE eval.value
       IN  turn' =
             IF eval.source = "none" THEN [turn EXCEPT !.pc = "logging", !.tags = turn.user]
             ELSE IF eval.source = "given"
               THEN [turn EXCEPT !.pc = "logging", !.accuracy = eval.score, !.tags = turn.user]
             ELSE IF (ScoredByTop(eval) \/ ScoredByOneTask(eval)) /\ value # "huge"
               THEN [turn EXCEPT !.pc = "logging", !.accuracy = value,
                                 !.tags = turn.user \cup {"eval_metric"} \cup
                                     (IF ScoredByTop(eval) THEN {} ELSE {"eval_task"})]
             ELSE [turn EXCEPT !.pc = "unscored"]
    /\ UNCHANGED output

\* Mutant: numbers are not tested for being finite.
IsNumber(kind) == kind \in {"finite", "nonfinite"}

\* _finite, which raises for an integer that is too large.
Loggable(kind) == kind = "finite"

\* Mutant: only text is worth a tag.
IsText(kind) == kind = "text"

\* _tag_value: anything but a list or an object.
Taggable(kind) == kind \in Scalars

\* The values of a turn, by the names of its metrics.
ValueOf == [core |-> turn.record.core, extra |-> turn.record.extra, accuracy |-> turn.accuracy]

\* as_metrics keeps what is finite; an accuracy that was passed is added to it as it is.
Metrics == {f \in {"core", "extra"} : Loggable(ValueOf[f])}
           \cup (IF turn.accuracy = "absent" THEN {} ELSE {"accuracy"})

\* The caller's tags, and the scalars among the extras that are no metric.
RunTags == turn.tags \cup {f \in {"extra"} \ Metrics : Taggable(ValueOf[f])}

\* validate_content: metrics are finite, and no tag is reserved.
ContentRejected ==
    \/ \E f \in Metrics : ValueOf[f] # "finite"
    \/ "reserved" \in RunTags

\* log_benchmark_iteration: as_metrics raises for an integer that is too large, and log() for
\* content it rejects, before anything is created.
Log ==
    /\ turn.pc = "logging"
    /\ turn' = [turn EXCEPT !.pc = IF \/ \E f \in {"core", "extra"} : ValueOf[f] = "huge"
                                      \/ ContentRejected
                                   THEN "refused" ELSE "logged",
                            !.metrics = Metrics, !.tags = RunTags]
    /\ UNCHANGED output

IterationNext ==
    \/ \E core \in CoreKinds, extra \in ExtraKinds : Measure(core, extra)
    \/ \E torn \in BOOLEAN : MeasureDies(torn)
    \/ \E eval \in Evals, user \in UserTags : Load(eval, user)
    \/ Score
    \/ Log

IterationSpec == IterationInit /\ [][IterationNext]_iterationVars

-----------------------------------------------------------------------------
(* Properties *)

\* "'Last record' unambiguously means 'this run'" with a fresh file; and with any file, a record
\* of an earlier turn is only logged when the tool died without writing a byte of its own.
RecordIsOwn ==
    turn.pc = "logged" /\ ~turn.record.own =>
        /\ ~turn.wrote
        /\ ~turn.fresh
        /\ output[Len(output)].valid

\* "A bad number must never make the whole run unloggable": with a finite accuracy or none, and
\* tags that are the caller's to set, only an integer that no float can hold still does.
BadNumbersAreLogged ==
    turn.pc = "refused" =>
        \/ turn.accuracy = "nonfinite"
        \/ "huge" \in {turn.record.core, turn.record.extra}
        \/ "reserved" \in turn.user

\* "Kept verbatim, never dropped": whatever the tool measured that is a scalar is a metric or a
\* tag of the run, bad numbers of the common core excepted, and never both.
ScalarsAreKept ==
    turn.pc = "logged" =>
        /\ turn.record.extra \in Scalars => "extra" \in turn.metrics \cup turn.tags
        /\ turn.record.core = "finite" => "core" \in turn.metrics
        /\ "extra" \in turn.metrics \cap turn.tags => "extra" \in turn.user

\* What the tags of the run say of an accuracy that was taken from an eval.  A number at the top of
\* the eval is the accuracy whatever tasks there are, and the code names none: a tag that does is
\* the caller's.  Otherwise the accuracy is the value of the only task, which is named.
Explained ==
    /\ "eval_metric" \in turn.tags
    /\ IF ScoredByTop(turn.eval)
         THEN /\ turn.accuracy = turn.eval.score
              /\ "eval_task" \in turn.tags => "eval_task" \in turn.user
         ELSE /\ turn.accuracy = turn.eval.value
              /\ turn.eval.tasks = 1
              /\ "eval_task" \in turn.tags

\* "So a logged accuracy's meaning is explicit": a logged run tells the metric of an accuracy that
\* came from an eval, and its task if it was looked up by task.  "Multiple lm-eval tasks are
\* rejected" is only so without a number at the top of the eval: with one, the tasks are not read,
\* and an eval of two is logged with neither of them named.  Tags the caller set himself stand.
AccuracyHasMeaning == turn.pc = "logged" /\ turn.eval.source = "eval" => Explained
=============================================================================
