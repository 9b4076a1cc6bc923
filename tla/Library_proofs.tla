---------------------------- MODULE Library_proofs ----------------------------
(***************************************************************************)
(* What one turn of the benchmark loop logs (Iteration) and what a command *)
(* analyzer makes of its template and of its tool's output (Advice), for   *)
(* every file, tool and token; and that the parts of the library, which    *)
(* one run checks side by side, are there what they are alone (MCLibrary). *)
(***************************************************************************)
EXTENDS MCLibrary, S3Layout_proofs, Lookup_proofs

-----------------------------------------------------------------------------
(* Iteration *)

Records == [own : BOOLEAN, core : Kinds, extra : Kinds]
Lines   == [valid : BOOLEAN, ended : BOOLEAN, record : Records]

\* A turn that began with an empty file, or that wrote, reads a record of its own or none.
OutputIsOwn ==
    /\ output \in Seq(Lines)
    /\ turn.pc = "measuring" => ~turn.wrote /\ (turn.fresh => output = <<>>)
    /\ turn.pc # "measuring" /\ (turn.wrote \/ turn.fresh) /\ output # <<>>
          /\ output[Len(output)].valid => output[Len(output)].record.own
    /\ turn.pc \in {"scoring", "logging", "logged", "refused"} =>
          /\ output # <<>>
          /\ output[Len(output)].valid
          /\ turn.record = output[Len(output)].record

\* What has been made of the eval and of the caller's tags when the record is about to be logged.
AboutToLog ==
    /\ turn.pc \in {"measuring", "loading", "scoring"} => turn.accuracy = "absent" /\ turn.tags = {}
    /\ turn.pc = "logging" =>
          /\ turn.accuracy \in {"absent", "finite", "nonfinite"}
          /\ turn.tags \subseteq turn.user \cup {"eval_metric", "eval_task"}
          /\ turn.eval.source = "eval" => Explained

\* The inductive invariant of a turn.
TurnInv ==
    /\ IterationTypeOK
    /\ OutputIsOwn
    /\ AboutToLog
    /\ BadNumbersAreLogged
    /\ ScalarsAreKept
    /\ AccuracyHasMeaning

-----------------------------------------------------------------------------

\* The file never loses its last line to anything but another one: what the tool appends is the last
\* line, or has made one that was cut off invalid.
LEMMA JoinedLast ==
    ASSUME output \in Seq(Lines), NEW line \in Lines
    PROVE  /\ Joined(line) \in Seq(Lines)
           /\ Joined(line) # <<>>
           /\ \/ Joined(line)[Len(Joined(line))] = line
              \/ Joined(line)[Len(Joined(line))].valid = FALSE
<1>1. Len(output) \in Nat
  BY LenProperties
<1>2. CASE output # <<>> /\ ~output[Len(output)].ended
  <2>1. PICK bad : bad = Line(FALSE, line.ended, NoRecord)
    OBVIOUS
  <2>2. bad \in Lines /\ bad.valid = FALSE
    BY <2>1 DEF Line, Lines, Records, Record, NoRecord, Kinds
  <2>3. Len(output) \in 1..Len(output)
    <3>1. Len(output) # 0
      BY <1>2, EmptySeq
    <3> QED
      BY <1>1, <3>1
  <2>4. Joined(line) = [output EXCEPT ![Len(output)] = bad]
    BY <1>2, <2>1 DEF Joined
  <2>5. /\ Joined(line) \in Seq(Lines) /\ Len(Joined(line)) = Len(output)
        /\ Joined(line)[Len(output)] = bad
    BY <2>2, <2>3, <2>4, ExceptSeq
  <2>6. Joined(line) # <<>>
    BY <2>3, <2>5
  <2> QED
    BY <2>2, <2>5, <2>6
<1>3. CASE ~(output # <<>> /\ ~output[Len(output)].ended)
  <2>1. Joined(line) = Append(output, line)
    BY <1>3, Zenon DEF Joined
  <2>2. /\ Joined(line) \in Seq(Lines)
        /\ Len(Joined(line)) = Len(output) + 1
        /\ Joined(line)[Len(output) + 1] = line
    BY <2>1, AppendProperties
  <2>3. Joined(line) # <<>>
    BY <1>1, <2>2
  <2> QED
    BY <2>2, <2>3
<1> QED
  BY <1>2, <1>3

\* A tool that wrote, and one that died with or without writing a part of its record.
LEMMA MeasuringKeeps ==
    ASSUME TurnInv,
           \/ \E core \in CoreKinds, extra \in ExtraKinds : Measure(core, extra)
           \/ \E torn \in BOOLEAN : MeasureDies(torn)
    PROVE  TurnInv'
<1> USE DEF TurnInv
<1>1. turn \in TurnRecord /\ turn.pc = "measuring" /\ output \in Seq(Lines)
      /\ (turn.fresh => output = <<>>) /\ ~turn.wrote
      /\ turn.accuracy = "absent" /\ turn.tags = {}
  BY DEF IterationTypeOK, OutputIsOwn, AboutToLog, Measure, MeasureDies
<1>2. ASSUME NEW line \in Lines, line.valid => line.record.own, output' = Joined(line),
             NEW wrote \in BOOLEAN, turn' = [turn EXCEPT !.pc = "loading", !.wrote = wrote]
      PROVE  TurnInv'
  <2>1. /\ output' \in Seq(Lines)
        /\ output'[Len(output')].valid => output'[Len(output')].record.own
    BY <1>1, <1>2, JoinedLast
  <2>2. turn' \in TurnRecord /\ turn'.pc = "loading" /\ turn'.accuracy = "absent" /\ turn'.tags = {}
    BY <1>1, <1>2 DEF TurnRecord, TurnPCs
  <2> QED
    BY <2>1, <2>2 DEF IterationTypeOK, OutputIsOwn, AboutToLog, BadNumbersAreLogged, ScalarsAreKept,
                      AccuracyHasMeaning
<1>3. ASSUME output' = output, turn' = [turn EXCEPT !.pc = "loading"] PROVE TurnInv'
  <2>1. /\ turn' \in TurnRecord /\ turn'.pc = "loading" /\ turn'.fresh = turn.fresh /\ ~turn'.wrote
        /\ turn'.accuracy = "absent" /\ turn'.tags = {}
    BY <1>1, <1>3 DEF TurnRecord, TurnPCs
  <2> QED
    BY <1>1, <1>3, <2>1 DEF IterationTypeOK, OutputIsOwn, AboutToLog, BadNumbersAreLogged,
                            ScalarsAreKept, AccuracyHasMeaning
<1>4. ASSUME NEW core \in CoreKinds, NEW extra \in ExtraKinds, Measure(core, extra) PROVE TurnInv'
  <2>1. PICK line : line = Line(TRUE, TRUE, Record(TRUE, core, extra))
    OBVIOUS
  <2>2. line \in Lines /\ line.record.own
    BY <2>1, IterationAssumption DEF IterationAssumption, Line, Record, Lines, Records
  <2>3. output' = Joined(line) /\ turn' = [turn EXCEPT !.pc = "loading", !.wrote = TRUE]
    BY <1>4, <2>1 DEF Measure
  <2> QED
    BY <1>2, <2>2, <2>3
<1>5. ASSUME NEW torn \in BOOLEAN, MeasureDies(torn) PROVE TurnInv'
  <2>1. Torn \in Lines /\ ~Torn.valid
    BY DEF Torn, Line, NoRecord, Record, Lines, Records, Kinds
  <2>2. turn' = [turn EXCEPT !.pc = "loading"] /\ turn' = [turn EXCEPT !.pc = "loading", !.wrote = FALSE]
    BY <1>1, <1>5 DEF MeasureDies, TurnRecord
  <2>3. output' = Joined(Torn) \/ output' = output
    BY <1>5 DEF MeasureDies
  <2> QED
    BY <1>2, <1>3, <2>1, <2>2, <2>3
<1> QED
  BY <1>4, <1>5

\* The record that is loaded is that of the last line.
LEMMA LoadKeeps ==
    ASSUME TurnInv, NEW eval \in Evals, NEW user \in UserTags, Load(eval, user)
    PROVE  TurnInv'
<1> USE DEF TurnInv
<1>1. turn \in TurnRecord /\ turn.pc = "loading" /\ output \in Seq(Lines) /\ output' = output
  BY DEF IterationTypeOK, OutputIsOwn, Load
<1>2. PICK line : line = LastRecord(output)
  OBVIOUS
<1>3. turn' = [turn EXCEPT !.pc = IF line.valid THEN "scoring" ELSE "unloadable",
                           !.record = line.record,
                           !.eval = IF line.valid THEN eval ELSE NoEval,
                           !.user = IF line.valid THEN user ELSE {}]
  BY <1>2 DEF Load
<1>4. /\ line \in Lines
      /\ line.valid => output # <<>> /\ line = output[Len(output)]
  <2>1. CASE output = <<>>
    BY <1>2, <2>1 DEF LastRecord, Torn, Line, NoRecord, Record, Lines, Records, Kinds
  <2>2. CASE output # <<>>
    <3>1. Len(output) \in 1..Len(output)
      BY <1>1, <2>2, EmptySeq, LenProperties
    <3>2. output[Len(output)] \in Lines
      BY <1>1, <3>1, ElementOfSeq
    <3> QED
      BY <1>2, <2>2, <3>2 DEF LastRecord
  <2> QED
    BY <2>1, <2>2
<1>5. line.record \in Records /\ line.valid \in BOOLEAN
  BY <1>4 DEF Lines
<1>6. NoEval \in Evals
  BY DEF NoEval, Evals
<1>7. turn' \in TurnRecord
  BY <1>1, <1>3, <1>5, <1>6 DEF TurnRecord, TurnPCs, Records
<1>8. /\ turn'.pc = IF line.valid THEN "scoring" ELSE "unloadable"
      /\ turn'.record = line.record /\ turn'.wrote = turn.wrote /\ turn'.fresh = turn.fresh
      /\ turn'.accuracy = turn.accuracy /\ turn'.tags = turn.tags
  BY <1>1, <1>3 DEF TurnRecord
<1> QED
  BY <1>1, <1>4, <1>7, <1>8 DEF IterationTypeOK, OutputIsOwn, AboutToLog, BadNumbersAreLogged,
                                ScalarsAreKept, AccuracyHasMeaning

\* An accuracy comes with what it means, and is a number that a float can hold.
LEMMA ScoreKeeps ==
    ASSUME TurnInv, Score
    PROVE  TurnInv'
<1> USE DEF TurnInv
<1>1. turn \in TurnRecord /\ turn.pc = "scoring" /\ output \in Seq(Lines) /\ output' = output
      /\ turn.accuracy = "absent" /\ turn.tags = {}
  BY DEF IterationTypeOK, OutputIsOwn, AboutToLog, Score
<1>2. turn.eval \in Evals /\ turn.user \subseteq {"extra", "eval_metric", "eval_task", "reserved"}
  BY <1>1, IterationAssumption DEF TurnRecord, IterationAssumption
<1>3. ASSUME NEW accuracy \in {"absent", "finite", "nonfinite"},
             NEW tags \in SUBSET {"extra", "eval_metric", "eval_task", "reserved"},
             tags \subseteq turn.user \cup {"eval_metric", "eval_task"},
             turn.eval.source = "eval" =>
                /\ "eval_metric" \in tags
                /\ IF ScoredByTop(turn.eval)
                     THEN /\ accuracy = turn.eval.score
                          /\ "eval_task" \in tags => "eval_task" \in turn.user
                     ELSE /\ accuracy = turn.eval.value
                          /\ turn.eval.tasks = 1
                          /\ "eval_task" \in tags,
             turn' = [turn EXCEPT !.pc = "logging", !.accuracy = accuracy, !.tags = tags]
      PROVE  TurnInv'
  <2>1. turn' \in TurnRecord
    BY <1>1, <1>3 DEF TurnRecord, TurnPCs, Kinds
  <2>2. /\ turn'.pc = "logging" /\ turn'.record = turn.record /\ turn'.wrote = turn.wrote
        /\ turn'.fresh = turn.fresh /\ turn'.user = turn.user /\ turn'.eval = turn.eval
        /\ turn'.accuracy = accuracy /\ turn'.tags = tags
    BY <1>1, <1>3 DEF TurnRecord
  <2> QED
    BY <1>1, <1>3, <2>1, <2>2 DEF IterationTypeOK, OutputIsOwn, AboutToLog, BadNumbersAreLogged,
                                  ScalarsAreKept, AccuracyHasMeaning, Explained, ScoredByTop
<1>4. CASE turn.eval.source = "none"
  <2>1. turn' = [turn EXCEPT !.pc = "logging", !.tags = turn.user]
    BY <1>4 DEF Score
  <2>2. turn' = [turn EXCEPT !.pc = "logging", !.accuracy = "absent", !.tags = turn.user]
    BY <1>1, <2>1 DEF TurnRecord
  <2> QED
    BY <1>2, <1>3, <1>4, <2>2
<1>5. CASE turn.eval.source = "given"
  <2>1. turn' = [turn EXCEPT !.pc = "logging", !.accuracy = turn.eval.score, !.tags = turn.user]
    BY <1>5 DEF Score
  <2>2. turn.eval.score \in {"finite", "nonfinite"}
    BY <1>2, <1>5 DEF Evals
  <2> QED
    BY <1>2, <1>3, <1>5, <2>1, <2>2
<1>6. CASE turn.eval.source = "eval"
  <2>1. PICK value : value = IF ScoredByTop(turn.eval) THEN turn.eval.score ELSE turn.eval.value
    OBVIOUS
  <2>2. CASE (ScoredByTop(turn.eval) \/ ScoredByOneTask(turn.eval)) /\ value # "huge"
    <3>1. PICK tags : tags = turn.user \cup {"eval_metric"} \cup
                               (IF ScoredByTop(turn.eval) THEN {} ELSE {"eval_task"})
      OBVIOUS
    <3>2. turn' = [turn EXCEPT !.pc = "logging", !.accuracy = value, !.tags = tags]
      BY <1>6, <2>1, <2>2, <3>1 DEF Score
    <3>3. value \in {"absent", "finite", "nonfinite"}
      BY <2>1, <2>2 DEF ScoredByTop, ScoredByOneTask, Numbers
    <3>4. IF ScoredByTop(turn.eval)
            THEN /\ value = turn.eval.score
                 /\ "eval_task" \in tags => "eval_task" \in turn.user
            ELSE /\ value = turn.eval.value
                 /\ turn.eval.tasks = 1
                 /\ "eval_task" \in tags
      BY <2>1, <2>2, <3>1 DEF ScoredByOneTask
    <3>5. /\ tags \in SUBSET {"extra", "eval_metric", "eval_task", "reserved"}
          /\ tags \subseteq turn.user \cup {"eval_metric", "eval_task"}
          /\ "eval_metric" \in tags
      BY <1>2, <3>1
    <3> QED
      BY <1>3, <3>2, <3>3, <3>4, <3>5
  <2>3. CASE ~((ScoredByTop(turn.eval) \/ ScoredByOneTask(turn.eval)) /\ value # "huge")
    <3>1. turn' = [turn EXCEPT !.pc = "unscored"]
      BY <1>6, <2>1, <2>3 DEF Score
    <3>2. /\ turn' \in TurnRecord /\ turn'.pc = "unscored" /\ turn'.record = turn.record
          /\ turn'.wrote = turn.wrote /\ turn'.fresh = turn.fresh
      BY <1>1, <3>1 DEF TurnRecord, TurnPCs
    <3> QED
      BY <1>1, <3>2 DEF IterationTypeOK, OutputIsOwn, AboutToLog, BadNumbersAreLogged,
                        ScalarsAreKept, AccuracyHasMeaning
  <2> QED
    BY <2>2, <2>3
<1> QED
  BY <1>2, <1>4, <1>5, <1>6 DEF Evals

\* What is logged is kept, and what is refused deserves it.
LEMMA LogKeeps ==
    ASSUME TurnInv, Log
    PROVE  TurnInv'
<1> USE DEF TurnInv
<1>1. turn \in TurnRecord /\ turn.pc = "logging" /\ output' = output
  BY DEF IterationTypeOK, Log
<1>2. /\ turn.accuracy \in {"absent", "finite", "nonfinite"}
      /\ turn.tags \subseteq turn.user \cup {"eval_metric", "eval_task"}
  BY <1>1 DEF AboutToLog
<1>3. PICK metrics : metrics = Metrics
  OBVIOUS
<1>4. PICK tags : tags = RunTags
  OBVIOUS
<1>5. /\ metrics \subseteq {"core", "extra", "accuracy"}
      /\ "core" \in metrics <=> turn.record.core = "finite"
      /\ "extra" \in metrics <=> turn.record.extra = "finite"
      /\ "accuracy" \in metrics <=> turn.accuracy # "absent"
  BY <1>3 DEF Metrics, Loggable, ValueOf
<1>6. /\ turn.tags \subseteq tags
      /\ tags \subseteq turn.tags \cup {"extra"}
      /\ "extra" \in tags => \/ "extra" \in turn.tags
                             \/ "extra" \notin metrics
      /\ turn.record.extra \in Scalars /\ "extra" \notin metrics => "extra" \in tags
  BY <1>3, <1>4 DEF RunTags, Taggable, ValueOf
<1>7. /\ turn'.pc \in {"refused", "logged"}
      /\ turn'.metrics = metrics /\ turn'.tags = tags
      /\ turn'.record = turn.record /\ turn'.wrote = turn.wrote /\ turn'.fresh = turn.fresh
      /\ turn'.user = turn.user /\ turn'.eval = turn.eval /\ turn'.accuracy = turn.accuracy
  BY <1>1, <1>3, <1>4 DEF Log, TurnRecord
<1>8. turn' \in TurnRecord
  <2>1. tags \in SUBSET {"extra", "eval_metric", "eval_task", "reserved"}
    BY <1>1, <1>6 DEF TurnRecord
  <2> QED
    BY <1>1, <1>3, <1>4, <1>5, <2>1 DEF Log, TurnRecord, TurnPCs
<1>9. BadNumbersAreLogged'
  <2>1. turn'.pc = "refused" => \/ "huge" \in {turn.record.core, turn.record.extra}
                                \/ ContentRejected
    BY <1>1 DEF Log, TurnRecord, ValueOf
  <2>2. ContentRejected => turn.accuracy = "nonfinite" \/ "reserved" \in turn.user
    <3>1. ASSUME NEW f \in metrics, ValueOf[f] # "finite" PROVE turn.accuracy = "nonfinite"
      BY <1>2, <1>5, <3>1 DEF ValueOf
    <3>2. "reserved" \in tags => "reserved" \in turn.user
      BY <1>2, <1>6
    <3> QED
      BY <1>3, <1>4, <3>1, <3>2 DEF ContentRejected
  <2> QED
    BY <1>7, <2>1, <2>2 DEF BadNumbersAreLogged
<1>10. ScalarsAreKept'
  BY <1>2, <1>5, <1>6, <1>7 DEF ScalarsAreKept
<1>11. AccuracyHasMeaning'
  <2>1. "eval_task" \in tags <=> "eval_task" \in turn.tags
    BY <1>6
  <2> QED
    BY <1>1, <1>6, <1>7, <2>1 DEF AboutToLog, AccuracyHasMeaning, Explained, ScoredByTop
<1>12. OutputIsOwn' /\ AboutToLog'
  BY <1>1, <1>7 DEF OutputIsOwn, AboutToLog
<1> QED
  BY <1>8, <1>9, <1>10, <1>11, <1>12 DEF IterationTypeOK

\* A turn begins with an output file of earlier turns.
LEMMA TurnInitially == IterationInit => TurnInv
<1> SUFFICES ASSUME IterationInit PROVE TurnInv
  OBVIOUS
<1>1. Line(TRUE, TRUE, OldRecord) \in Lines /\ Torn \in Lines
  BY DEF Line, OldRecord, Torn, NoRecord, Record, Lines, Records, Kinds
<1>2. output \in Seq(Lines)
  <2>1. PICK old \in Lines : old = Line(TRUE, TRUE, OldRecord)
    BY <1>1
  <2>2. PICK torn \in Lines : torn = Torn
    BY <1>1
  <2>3. <<>> \in Seq(Lines) /\ <<old>> \in Seq(Lines) /\ <<old, torn>> \in Seq(Lines)
    OBVIOUS
  <2> QED
    BY <2>1, <2>2, <2>3 DEF IterationInit
<1>3. turn \in TurnRecord
  BY DEF IterationInit, TurnRecord, TurnPCs, NoRecord, Record, NoEval, Evals, Kinds
<1> QED
  BY <1>2, <1>3 DEF IterationInit, TurnInv, IterationTypeOK, OutputIsOwn, AboutToLog,
                    BadNumbersAreLogged, ScalarsAreKept, AccuracyHasMeaning

\* Every step of a turn keeps the invariant.
LEMMA TurnKeeps == TurnInv /\ [IterationNext]_iterationVars => TurnInv'
<1> SUFFICES ASSUME TurnInv, [IterationNext]_iterationVars PROVE TurnInv'
  OBVIOUS
<1>1. CASE UNCHANGED iterationVars
  BY <1>1 DEF iterationVars, TurnInv, IterationTypeOK, OutputIsOwn, AboutToLog,
              BadNumbersAreLogged, ScalarsAreKept, AccuracyHasMeaning, Explained
<1>2. CASE IterationNext
  BY <1>2, MeasuringKeeps, LoadKeeps, ScoreKeeps, LogKeeps DEF IterationNext
<1> QED
  BY <1>1, <1>2

\* What a turn relies on, for any kinds of values and any tags.
THEOREM TurnInductive == IterationSpec => []TurnInv
  BY TurnInitially, TurnKeeps, PTL DEF IterationSpec

\* A turn logs the record of its own tool (RecordIsOwn).
THEOREM RecordsAreOwn == IterationSpec => []RecordIsOwn
<1>1. TurnInv => RecordIsOwn
  BY DEF TurnInv, OutputIsOwn, RecordIsOwn
<1> QED
  BY <1>1, TurnInductive, PTL

\* Only an integer that no float can hold keeps a turn from being logged (BadNumbersAreLogged).
THEOREM BadNumbersLogged == IterationSpec => []BadNumbersAreLogged
<1>1. TurnInv => BadNumbersAreLogged
  BY DEF TurnInv
<1> QED
  BY <1>1, TurnInductive, PTL

\* No scalar of the record is dropped (ScalarsAreKept).
THEOREM ScalarsKept == IterationSpec => []ScalarsAreKept
<1>1. TurnInv => ScalarsAreKept
  BY DEF TurnInv
<1> QED
  BY <1>1, TurnInductive, PTL

\* The tags of a run say what an accuracy from an eval is: the number at the eval's top, with its
\* metric and no task of the code's naming, or the value of its only task, with metric and task
\* (AccuracyHasMeaning).
THEOREM AccuracyIsExplicit == IterationSpec => []AccuracyHasMeaning
<1>1. TurnInv => AccuracyHasMeaning
  BY DEF TurnInv
<1> QED
  BY <1>1, TurnInductive, PTL

-----------------------------------------------------------------------------
(* Advice: templates *)

\* In what was picked, the place behind another is the one that comes after it, if that one stays.
LEMMA Neighbours ==
    ASSUME NEW kept, NEW m, Order(m, kept), Cardinality(kept) \in Nat,
           \A i \in kept : i \in Int,
           NEW k \in 1..Cardinality(kept)
    PROVE  /\ m[k] \in kept
           /\ m[k] + 1 \in kept => k + 1 \in 1..Cardinality(kept) /\ m[k + 1] = m[k] + 1
           /\ m[k] - 1 \in kept => k - 1 \in 1..Cardinality(kept) /\ m[k - 1] = m[k] - 1
<1>1. PICK c \in Nat : c = Cardinality(kept)
  OBVIOUS
<1>2. /\ \A j \in 1..c : m[j] \in kept /\ m[j] \in Int
      /\ \A i \in kept : \E j \in 1..c : m[j] = i
      /\ \A j, l \in 1..c : j < l => m[j] < m[l]
  BY <1>1 DEF Order
<1>3. \A j, l \in 1..c : m[j] = m[l] => j = l
  <2>1. \A j, l \in 1..c : j < l \/ l < j \/ j = l
    BY <1>1
  <2> QED
    BY <1>2, <2>1
<1>4. ASSUME NEW j \in 1..c, m[j] + 1 \in kept
      PROVE  j + 1 \in 1..c /\ m[j + 1] = m[j] + 1
  <2>1. PICK l \in 1..c : m[l] = m[j] + 1
    BY <1>2, <1>4
  <2>2. j < l
    <3>1. ~(l < j) /\ l # j
      BY <1>2, <2>1
    <3> QED
      BY <1>1, <3>1
  <2>3. j + 1 \in 1..c
    BY <1>1, <2>2
  <2>4. m[j] < m[j + 1] /\ (j + 1 < l => m[j + 1] < m[l])
    BY <1>1, <1>2, <2>3
  <2>5. j + 1 = l
    BY <1>1, <1>2, <2>1, <2>2, <2>3, <2>4
  <2> QED
    BY <2>1, <2>3, <2>5
<1>5. ASSUME m[k] - 1 \in kept
      PROVE  k - 1 \in 1..c /\ m[k - 1] = m[k] - 1
  <2>1. PICK j \in 1..c : m[j] = m[k] - 1
    BY <1>2, <1>5
  <2>2. m[j] + 1 = m[k] /\ m[k] \in kept
    BY <1>1, <1>2, <2>1
  <2>3. j + 1 \in 1..c /\ m[j + 1] = m[k]
    BY <1>4, <2>2
  <2>4. j + 1 = k
    BY <1>1, <1>3, <2>3
  <2> QED
    BY <1>1, <2>1, <2>4
<1> QED
  BY <1>1, <1>2, <1>4, <1>5

\* The places that a replacement leaves, and what is there afterwards.
Kept(token, name, text) ==
    (1..Len(token)) \ (Covered(token, name) \cup (IF text = <<>> THEN Starts(token, name) ELSE {}))

Texts == {<<>>} \cup {<<w>> : w \in Pathed}

\* What str.replace returns is the words that stay, in their order, with the text where an
\* occurrence began.
LEMMA Replaced ==
    ASSUME NEW token \in Seq(Pathed), NEW name, NEW text \in Texts
    PROVE  /\ Cardinality(Kept(token, name, text)) \in Nat
           /\ Replace(token, name, text) \in Seq(Pathed)
           /\ Len(Replace(token, name, text)) = Cardinality(Kept(token, name, text))
           /\ \E m :
                /\ Order(m, Kept(token, name, text))
                /\ \A k \in 1..Cardinality(Kept(token, name, text)) :
                      Replace(token, name, text)[k] =
                         IF At(token, name, m[k]) /\ text # <<>> THEN text[1] ELSE token[m[k]]
<1>1. PICK n \in Nat : n = Len(token)
  BY LenProperties
<1>2. PICK kept : kept = Kept(token, name, text)
  OBVIOUS
<1>3. kept \in SUBSET (1..n)
  BY <1>1, <1>2 DEF Kept
<1>4. PICK f : f = [i \in 1..Len(token) |->
                      IF At(token, name, i) /\ text # <<>> THEN text[1] ELSE token[i]]
  OBVIOUS
<1>5. PICK c \in Nat : c = Cardinality(kept)
  BY <1>1, <1>3, PickedInOrder
<1>6. PICK m : Order(m, kept) /\ \A s : Picked(s, kept) = [k \in 1..c |-> s[m[k]]]
  BY <1>1, <1>3, <1>5, PickedInOrder
<1>7. PICK r : r = Replace(token, name, text)
  OBVIOUS
<1>8. r = Picked(f, kept)
  BY <1>2, <1>4, <1>7 DEF Replace, Kept
<1>9. r = [k \in 1..c |-> f[m[k]]]
  BY <1>6, <1>8
<1>10. \A i \in 1..n : token[i] \in Pathed
  BY <1>1, ElementOfSeq
<1>11. text # <<>> => text[1] \in Pathed
  <2>1. ASSUME NEW w \in Pathed, text = <<w>> PROVE text[1] \in Pathed
    BY <2>1
  <2> QED
    BY <2>1 DEF Texts
<1>12. \A k \in 1..c : m[k] \in 1..n
  BY <1>3, <1>5, <1>6 DEF Order
<1>13. \A k \in 1..c :
          /\ r[k] = IF At(token, name, m[k]) /\ text # <<>> THEN text[1] ELSE token[m[k]]
          /\ r[k] \in Pathed
  BY <1>1, <1>4, <1>9, <1>10, <1>11, <1>12
<1>14. r \in [1..c -> Pathed]
  BY <1>9, <1>13
<1>15. r \in Seq(Pathed) /\ Len(r) = c
  BY <1>14
<1> QED
  BY <1>2, <1>5, <1>6, <1>7, <1>13, <1>15

\* What stays: nothing of an occurrence but its first place, and that only when a text takes it.
LEMMA Stays ==
    ASSUME NEW token \in Seq(Pathed), NEW name, NEW text \in Texts
    PROVE  \A i : i \in Kept(token, name, text) <=>
                     /\ i \in 1..Len(token)
                     /\ ~At(token, name, i - 1) /\ ~At(token, name, i - 2)
                     /\ text = <<>> => ~At(token, name, i)
BY DEF Kept, Covered, Starts

Brace(word) == word \in {"{", "}"}

\* When no brace is left without the embeds, each brace of a token that nests none belongs to one.
LEMMA BracesBelong ==
    ASSUME NEW token \in Seq(Pathed), ~Nested(token),
           Braceless(Replace(Replace(token, "dir", <<>>), "tmp", <<>>)),
           NEW i \in 1..Len(token), Brace(token[i])
    PROVE  \E name \in {"dir", "tmp"} : At(token, name, i) \/ At(token, name, i - 2)
<1>1. PICK n \in Nat : n = Len(token)
  BY LenProperties
<1> SUFFICES ASSUME ~At(token, "dir", i), ~At(token, "dir", i - 2)
             PROVE  At(token, "tmp", i) \/ At(token, "tmp", i - 2)
  OBVIOUS
<1>2. PICK kept : kept = Kept(token, "dir", <<>>)
  OBVIOUS
<1>3. PICK r : r = Replace(token, "dir", <<>>)
  OBVIOUS
<1>4. <<>> \in Texts
  BY DEF Texts
<1>5. PICK c \in Nat : c = Cardinality(kept)
  BY <1>2, <1>4, Replaced
<1>6. PICK m : Order(m, kept) /\ \A k \in 1..c : r[k] = token[m[k]]
  BY <1>2, <1>3, <1>4, <1>5, Replaced
<1>7. r \in Seq(Pathed) /\ Len(r) = c
  BY <1>2, <1>3, <1>4, <1>5, Replaced
<1>8. \A p : p \in kept <=> /\ p \in 1..n
                            /\ ~At(token, "dir", p - 1) /\ ~At(token, "dir", p - 2)
                            /\ ~At(token, "dir", p)
  BY <1>1, <1>2, <1>4, Stays
<1>9. /\ \A k \in 1..c : m[k] \in kept /\ m[k] \in 1..n /\ m[k] \in Int
      /\ \A p \in kept : p \in Int /\ \E k \in 1..c : m[k] = p
      /\ \A k, l \in 1..c : k < l => m[k] < m[l]
  <2>1. \A p \in kept : p \in 1..n /\ p \in Int
    BY <1>1, <1>8
  <2> QED
    BY <1>5, <1>6, <2>1 DEF Order
<1>10. i \in kept
  <2>1. i - 1 + 1 = i /\ i \in 1..n
    BY <1>1
  <2>2. ~At(token, "dir", i - 1)
    BY <2>1 DEF At, Brace
  <2> QED
    BY <1>8, <2>1, <2>2
<1>11. PICK k \in 1..c : m[k] = i
  BY <1>9, <1>10
\* The brace is not left, so it is in an occurrence of what is replaced next.
<1>12. PICK j : At(r, "tmp", j) /\ j \in {k, k - 2}
  <2>1. PICK e : e = Replace(r, "tmp", <<>>)
    OBVIOUS
  <2>2. PICK kept2 : kept2 = Kept(r, "tmp", <<>>)
    OBVIOUS
  <2>3. PICK c2 \in Nat : c2 = Cardinality(kept2)
    BY <1>4, <1>7, <2>2, Replaced
  <2>4. PICK m2 : Order(m2, kept2) /\ \A l \in 1..c2 : e[l] = r[m2[l]]
    BY <1>4, <1>7, <2>1, <2>2, <2>3, Replaced
  <2>5. Len(e) = c2
    BY <1>4, <1>7, <2>1, <2>2, <2>3, Replaced
  <2>6. k \notin kept2
    <3>1. SUFFICES ASSUME k \in kept2 PROVE FALSE
      OBVIOUS
    <3>2. PICK l \in 1..c2 : m2[l] = k
      BY <2>3, <2>4, <3>1 DEF Order
    <3>3. Brace(e[l])
      BY <1>6, <1>11, <2>4, <3>2
    <3> QED
      BY <1>3, <2>1, <2>5, <3>2, <3>3 DEF Braceless, Brace
  <2>7. At(r, "tmp", k) \/ At(r, "tmp", k - 1) \/ At(r, "tmp", k - 2)
    BY <1>4, <1>7, <2>2, <2>6, Stays
  <2>8. ~At(r, "tmp", k - 1)
    <3>1. Brace(r[k])
      BY <1>6, <1>11
    <3>2. k - 1 + 1 = k
      BY <1>5
    <3> QED
      BY <3>1, <3>2 DEF At, Brace
  <2> QED
    BY <2>7, <2>8
<1>13. /\ j \in 1..c /\ j + 1 \in 1..c /\ j + 2 \in 1..c
       /\ token[m[j]] = "{" /\ token[m[j + 1]] = "tmp" /\ token[m[j + 2]] = "}"
  <2>1. j \in 1..(c - 2) /\ r[j] = "{" /\ r[j + 1] = "tmp" /\ r[j + 2] = "}"
    BY <1>7, <1>12 DEF At
  <2>2. j \in 1..c /\ j + 1 \in 1..c /\ j + 2 \in 1..c
    <3>1. j \in 1..(c - 2)
      BY <2>1
    <3> QED
      BY <3>1
  <2>3. r[j] = token[m[j]] /\ r[j + 1] = token[m[j + 1]] /\ r[j + 2] = token[m[j + 2]]
    BY <1>6, <2>2
  <2> QED
    BY <2>1, <2>2, <2>3
\* What would come between two words of it is an embed, whose brace would be within another.
<1>14. ASSUME NEW l \in 1..c, l + 1 \in 1..c, m[l + 1] # m[l] + 1
       PROVE  m[l] + 1 \in 1..n /\ token[m[l] + 1] = "{"
  <2>1. PICK p \in Int : p = m[l]
    BY <1>9
  <2>2. m[l] < m[l + 1]
    BY <1>5, <1>9, <1>14
  <2>3. p + 1 \in 1..n
    BY <1>1, <1>9, <1>14, <2>1, <2>2
  <2>4. p + 1 \notin kept
    <3>1. /\ Order(m, kept) /\ Cardinality(kept) \in Nat /\ (\A q \in kept : q \in Int)
          /\ l \in 1..Cardinality(kept)
      BY <1>5, <1>6, <1>9
    <3>2. m[l] + 1 \in kept => m[l + 1] = m[l] + 1
      BY <3>1, Neighbours
    <3> QED
      BY <1>14, <2>1, <3>2
  <2>5. p \in kept /\ p + 1 - 1 = p /\ p + 1 - 2 = p - 1
    BY <1>9, <2>1
  <2>6. At(token, "dir", p + 1)
    BY <1>8, <2>3, <2>4, <2>5
  <2> QED
    BY <2>1, <2>3, <2>6 DEF At
<1>15. m[j + 1] = m[j] + 1
  <2>1. SUFFICES ASSUME m[j + 1] # m[j] + 1 PROVE FALSE
    OBVIOUS
  <2>2. PICK p \in 1..n : p = m[j]
    BY <1>9, <1>13
  <2>3. PICK q \in 1..n : q = p + 1 /\ token[q] = "{" /\ token[p] = "{"
    BY <1>13, <1>14, <2>1, <2>2
  <2>4. p < q /\ \A x \in (p + 1)..(q - 1) : token[x] # "}"
    <3>1. q = p + 1
      BY <2>3
    <3>2. p < q /\ \A x \in (p + 1)..(q - 1) : FALSE
      BY <3>1
    <3> QED
      BY <3>2
  <2> QED
    BY <1>1, <2>3, <2>4 DEF Nested
<1>16. m[j + 2] = m[j] + 2
  <2>1. PICK p \in 1..n : p = m[j]
    BY <1>9, <1>13
  <2>2. p + 1 \in 1..n /\ m[j + 1] = p + 1 /\ token[p + 1] = "tmp" /\ token[p] = "{"
    BY <1>9, <1>13, <1>15, <2>1
  <2>3. SUFFICES ASSUME m[j + 2] # p + 2 PROVE FALSE
    BY <2>1
  <2>4. PICK l \in 1..c : l = j + 1
    BY <1>13
  <2>5. l + 1 = j + 2 /\ p + 1 + 1 = p + 2
    <3>1. j \in 1..c
      BY <1>13
    <3> QED
      BY <2>4, <3>1
  <2>6. l + 1 \in 1..c /\ m[l] + 1 = p + 2
    BY <1>13, <2>2, <2>4, <2>5
  <2>7. PICK q \in 1..n : q = p + 2 /\ token[q] = "{"
    BY <1>14, <2>3, <2>5, <2>6
  <2>8. p < q /\ \A x \in (p + 1)..(q - 1) : x = p + 1
    <3>1. q = p + 2
      BY <2>7
    <3> QED
      BY <3>1
  <2> QED
    BY <1>1, <2>1, <2>2, <2>7, <2>8 DEF Nested
<1>17. PICK p \in 1..n : p = m[j]
  BY <1>9, <1>13
<1>18. At(token, "tmp", p)
  <2>1. p + 2 \in 1..n /\ token[p] = "{" /\ token[p + 1] = "tmp" /\ token[p + 2] = "}"
    BY <1>9, <1>13, <1>15, <1>16, <1>17
  <2>2. p \in 1..(n - 2)
    <3>1. p + 2 \in 1..n
      BY <2>1
    <3> QED
      BY <3>1
  <2> QED
    BY <1>1, <2>1, <2>2 DEF At
<1>19. CASE j = k
  BY <1>11, <1>17, <1>18, <1>19
<1>20. CASE j = k - 2
  <2>1. j + 2 = k
    BY <1>5, <1>20
  <2>2. i = p + 2
    BY <1>11, <1>16, <1>17, <2>1
  <2>3. i - 2 = p
    BY <1>1, <2>2
  <2> QED
    BY <1>18, <2>3
<1> QED
  BY <1>12, <1>19, <1>20

\* With the directories in the places of the embeds no brace is left either: what the first
\* replacement leaves of the second's occurrences stays together.
LEMMA ExpansionIsBraceless ==
    ASSUME NEW token \in Seq(Pathed), ~Nested(token),
           Braceless(Replace(Replace(token, "dir", <<>>), "tmp", <<>>))
    PROVE  Braceless(Replace(Replace(token, "dir", <<"RUNDIR">>), "tmp", <<"TMPDIR">>))
<1>1. PICK n \in Nat : n = Len(token)
  BY LenProperties
<1>2. PICK t1, t2 : t1 = <<"RUNDIR">> /\ t2 = <<"TMPDIR">>
  OBVIOUS
<1>3. t1 \in Texts /\ t2 \in Texts /\ t1 # <<>> /\ t2 # <<>> /\ ~Brace(t1[1]) /\ ~Brace(t2[1])
  BY <1>2 DEF Texts, Pathed, Brace
<1>4. PICK kept, r : kept = Kept(token, "dir", t1) /\ r = Replace(token, "dir", t1)
  OBVIOUS
<1>5. PICK c \in Nat : c = Cardinality(kept)
  BY <1>3, <1>4, Replaced
<1>6. PICK m : /\ Order(m, kept)
               /\ \A k \in 1..c : r[k] = IF At(token, "dir", m[k]) /\ t1 # <<>>
                                           THEN t1[1] ELSE token[m[k]]
  BY <1>3, <1>4, <1>5, Replaced
<1>7. r \in Seq(Pathed) /\ Len(r) = c
  BY <1>3, <1>4, <1>5, Replaced
<1>8. \A p : p \in kept <=> p \in 1..n /\ ~At(token, "dir", p - 1) /\ ~At(token, "dir", p - 2)
  BY <1>1, <1>3, <1>4, Stays
<1>9. /\ \A k \in 1..c : m[k] \in kept /\ m[k] \in 1..n /\ m[k] \in Int
      /\ \A p \in kept : p \in Int /\ \E k \in 1..c : m[k] = p
      /\ \A k, l \in 1..c : k < l => m[k] < m[l]
  <2>1. \A p \in kept : p \in 1..n /\ p \in Int
    BY <1>1, <1>8
  <2> QED
    BY <1>5, <1>6, <2>1 DEF Order
<1>10. PICK kept2, e : kept2 = Kept(r, "tmp", t2) /\ e = Replace(r, "tmp", t2)
  OBVIOUS
<1>11. PICK c2 \in Nat : c2 = Cardinality(kept2)
  BY <1>3, <1>7, <1>10, Replaced
<1>12. PICK m2 : /\ Order(m2, kept2)
                 /\ \A l \in 1..c2 : e[l] = IF At(r, "tmp", m2[l]) /\ t2 # <<>>
                                              THEN t2[1] ELSE r[m2[l]]
  BY <1>3, <1>7, <1>10, <1>11, Replaced
<1>13. Len(e) = c2
  BY <1>3, <1>7, <1>10, <1>11, Replaced
<1> SUFFICES ASSUME NEW l \in 1..c2, Brace(e[l]) PROVE FALSE
  BY <1>2, <1>4, <1>10, <1>13 DEF Braceless, Brace
<1>14. PICK k \in 1..c : k = m2[l] /\ k \in kept2
  <2>1. m2[l] \in kept2
    BY <1>11, <1>12 DEF Order
  <2>2. m2[l] \in 1..c
    BY <1>3, <1>7, <1>10, <2>1, Stays
  <2> QED
    BY <2>1, <2>2
<1>15. Brace(r[k]) /\ ~At(r, "tmp", k) /\ ~At(r, "tmp", k - 2)
  <2>1. e[l] = IF At(r, "tmp", k) /\ t2 # <<>> THEN t2[1] ELSE r[k]
    BY <1>12, <1>14
  <2>2. ~At(r, "tmp", k - 2)
    BY <1>3, <1>7, <1>10, <1>14, Stays
  <2> QED
    BY <1>3, <2>1, <2>2
<1>16. PICK i \in 1..n : i = m[k] /\ i \in kept
  BY <1>9
<1>17. Brace(token[i]) /\ ~At(token, "dir", i) /\ ~At(token, "dir", i - 2)
  <2>1. r[k] = IF At(token, "dir", i) /\ t1 # <<>> THEN t1[1] ELSE token[i]
    BY <1>6, <1>16
  <2> QED
    BY <1>3, <1>8, <1>15, <1>16, <2>1
<1>18. At(token, "tmp", i) \/ At(token, "tmp", i - 2)
  BY <1>1, <1>17, BracesBelong
<1>19. PICK p \in Int : At(token, "tmp", p) /\ (p = i \/ p + 2 = i)
  <2>1. i \in Int /\ i - 2 \in Int /\ i - 2 + 2 = i
    OBVIOUS
  <2> QED
    BY <1>18, <2>1
<1>20. p \in 1..n /\ token[p] = "{" /\ token[p + 1] = "tmp" /\ token[p + 2] = "}"
  <2>1. p \in 1..(n - 2) /\ token[p] = "{" /\ token[p + 1] = "tmp" /\ token[p + 2] = "}"
    BY <1>1, <1>19 DEF At
  <2>2. p \in 1..n
    <3>1. p \in 1..(n - 2)
      BY <2>1
    <3> QED
      BY <3>1
  <2> QED
    BY <2>1, <2>2
<1>21. p + 1 \in 1..n /\ p + 2 \in 1..n
  <2>1. p \in 1..(n - 2)
    BY <1>1, <1>19 DEF At
  <2> QED
    BY <2>1
<1>22. p \in kept /\ p + 1 \in kept /\ p + 2 \in kept
  <2>1. /\ ~At(token, "dir", p - 2) /\ ~At(token, "dir", p - 1)
        /\ ~At(token, "dir", p) /\ ~At(token, "dir", p + 1)
    <3>1. p - 2 + 2 = p /\ p - 1 + 1 = p
      OBVIOUS
    <3> QED
      BY <1>20, <3>1 DEF At
  <2>2. PICK q1, q2 : q1 = p + 1 /\ q2 = p + 2
    OBVIOUS
  <2>3. q1 - 1 = p /\ q1 - 2 = p - 1 /\ q2 - 1 = p + 1 /\ q2 - 2 = p
    BY <2>2
  <2>4. p \in 1..n /\ q1 \in 1..n /\ q2 \in 1..n
    BY <1>20, <1>21, <2>2
  <2>5. p \in kept /\ q1 \in kept /\ q2 \in kept
    BY <1>8, <2>1, <2>3, <2>4
  <2> QED
    BY <2>2, <2>5
<1>23. PICK k0 \in 1..c : m[k0] = p
  BY <1>9, <1>22
<1>24. /\ k0 + 1 \in 1..c /\ m[k0 + 1] = p + 1
       /\ k0 + 2 \in 1..c /\ m[k0 + 2] = p + 2
  <2>1. \A q \in 1..c : m[q] + 1 \in kept => q + 1 \in 1..c /\ m[q + 1] = m[q] + 1
    <3>1. Order(m, kept) /\ Cardinality(kept) = c /\ \A q \in kept : q \in Int
      BY <1>5, <1>6, <1>9
    <3> QED
      BY <3>1, Neighbours
  <2>2. PICK k1 \in 1..c : k1 = k0 + 1 /\ m[k1] = p + 1
    BY <1>22, <1>23, <2>1
  <2>3. p + 1 + 1 = p + 2 /\ k0 + 1 + 1 = k0 + 2
    OBVIOUS
  <2> QED
    BY <1>22, <2>1, <2>2, <2>3
<1>25. At(r, "tmp", k0)
  <2>1. /\ ~At(token, "dir", p) /\ ~At(token, "dir", p + 1) /\ ~At(token, "dir", p + 2)
    BY <1>20 DEF At
  <2>2. r[k0] = "{" /\ r[k0 + 1] = "tmp" /\ r[k0 + 2] = "}"
    BY <1>6, <1>20, <1>23, <1>24, <2>1
  <2>3. k0 \in 1..(c - 2)
    <3>1. k0 + 2 \in 1..c
      BY <1>24
    <3> QED
      BY <3>1
  <2> QED
    BY <1>7, <2>2, <2>3 DEF At
<1>26. \A x, y \in 1..c : m[x] = m[y] => x = y
  <2>1. \A x, y \in 1..c : x < y \/ y < x \/ x = y
    OBVIOUS
  <2> QED
    BY <1>9, <2>1
<1>27. CASE p = i
  BY <1>15, <1>16, <1>23, <1>25, <1>26, <1>27
<1>28. CASE p + 2 = i
  <2>1. k0 + 2 = k
    BY <1>16, <1>24, <1>26, <1>28
  <2>2. k - 2 = k0
    BY <2>1
  <2> QED
    BY <1>15, <1>25, <2>2
<1> QED
  BY <1>19, <1>27, <1>28

\* What is given to the tool is made of words, and of no brace where validation and expansion
\* read the token alike.
LEMMA ExpandedArguments ==
    ASSUME NEW token \in Tokens, NEW matches \in 0..2, NEW argv, argv = Expanded(token, matches)
    PROVE  /\ \A i \in 1..Len(argv) : argv[i] \in Seq(Pathed)
           /\ Valid(token) =>
                 \/ \A i \in 1..Len(argv) : Braceless(argv[i])
                 \/ Nested(token)
                 \/ IsSelector(token) /\ (Has(token, "dir") \/ Has(token, "tmp"))
<1>1. PICK n \in Nat : token \in [1..n -> Words]
  BY DEF Tokens
<1>2. token \in Seq(Pathed) /\ Len(token) = n
  BY <1>1 DEF Pathed
<1>3. CASE Has(token, "dir") \/ Has(token, "tmp")
  <2>1. PICK r, e : /\ r = Replace(token, "dir", <<"RUNDIR">>)
                    /\ e = Replace(r, "tmp", <<"TMPDIR">>)
    OBVIOUS
  <2>2. argv = <<e>>
    BY <1>3, <2>1 DEF Expanded
  <2>3. <<"RUNDIR">> \in Texts /\ <<"TMPDIR">> \in Texts
    BY DEF Texts, Pathed
  <2>4. e \in Seq(Pathed)
    BY <1>2, <2>1, <2>3, Replaced
  <2>5. ASSUME Valid(token), ~Nested(token), ~IsSelector(token) PROVE Braceless(e)
    BY <1>2, <2>1, <2>5, ExpansionIsBraceless DEF Valid
  <2> QED
    BY <1>3, <2>2, <2>4, <2>5
<1>4. CASE ~Has(token, "dir") /\ ~Has(token, "tmp") /\ IsSelector(token)
  <2>1. argv = [i \in 1..matches |-> <<"match">>] /\ matches \in Nat
    BY <1>4 DEF Expanded
  <2>2. Len(argv) = matches /\ \A i \in 1..matches : argv[i] = <<"match">>
    BY <2>1
  <2>3. <<"match">> \in Seq(Pathed)
    BY DEF Pathed
  <2>4. Braceless(<<"match">>)
    <3>1. Len(<<"match">>) = 1 /\ <<"match">>[1] = "match"
      OBVIOUS
    <3>2. \A i \in 1..1 : i = 1
      OBVIOUS
    <3> QED
      BY <3>1, <3>2 DEF Braceless
  <2> QED
    BY <2>2, <2>3, <2>4
<1>5. CASE ~Has(token, "dir") /\ ~Has(token, "tmp") /\ ~IsSelector(token)
  <2>1. argv = <<token>>
    BY <1>5 DEF Expanded
  <2>2. ASSUME Valid(token), ~Nested(token) PROVE Braceless(token)
    <3> SUFFICES ASSUME NEW i \in 1..Len(token), Brace(token[i]) PROVE FALSE
      BY DEF Braceless, Brace
    <3>1. \E name \in {"dir", "tmp"} : At(token, name, i) \/ At(token, name, i - 2)
      BY <1>2, <1>5, <2>2, BracesBelong DEF Valid
    <3>2. \A name, p : At(token, name, p) => p \in 1..Len(token)
      <4>1. \A p \in 1..(n - 2) : p \in 1..n
        OBVIOUS
      <4> QED
        BY <1>2, <4>1 DEF At
    <3> QED
      BY <1>5, <3>1, <3>2 DEF Has
  <2> QED
    BY <1>2, <2>1, <2>2
<1> QED
  BY <1>3, <1>4, <1>5

-----------------------------------------------------------------------------
(* Advice *)

\* Every field of the job but argv has its type.
JobTyped ==
    job \in [pc : JobPCs, token : Tokens, argv : {job.argv},
             exit : {"none", "zero", "nonzero", "timeout"}, printed : Prints,
             length : OutLengths \cup {0}, advice : [head : Heads, length : Nat, clipped : BOOLEAN]]

\* Only a valid token is expanded, and the tool gets what it was expanded to.
ArgvOf ==
    /\ job.pc \in {"registered", "running", "advised"} => Valid(job.token)
    /\ job.pc \notin {"running", "advised"} => job.argv = <<>>
    /\ job.pc \in {"running", "advised"} =>
          \E matches \in 0..2 : job.argv = Expanded(job.token, matches)

\* The inductive invariant of advice.
AdviceInv == JobTyped /\ ArgvOf /\ AdviceFits /\ FailureShows

\* A count below Uncounted has no more digits than there is room for.
LEMMA NineDigits ==
    ASSUME NEW n \in Nat
    PROVE  /\ Digits(n) \in Nat \ {0}
           /\ n < Uncounted => Digits(n) <= 1 + CountSlack
<1>1. PICK D : D = {d \in 1..9 : n >= 10 ^ d}
  OBVIOUS
<1>2. Digits(n) = 1 + Cardinality(D)
  BY <1>1 DEF Digits
<1>3. D \in SUBSET (1..9) /\ 1 \in Int /\ 8 \in Int /\ 9 \in Int
  BY <1>1
<1>4. IsFiniteSet(D) /\ Cardinality(D) \in Nat
  <2>1. IsFiniteSet(1..9)
    BY <1>3, FS_Interval
  <2> QED
    BY <1>3, <2>1, FS_Subset, FS_CardinalityType
<1>5. ASSUME n < Uncounted PROVE Cardinality(D) <= 8
  <2>1. 9 \notin D
    BY <1>1, <1>5 DEF Uncounted
  <2>2. D \in SUBSET (1..8)
    BY <1>3, <2>1
  <2>3. IsFiniteSet(1..8) /\ Cardinality(1..8) = IF 1 > 8 THEN 0 ELSE 8 - 1 + 1
    BY <1>3, FS_Interval
  <2>4. Cardinality(D) <= Cardinality(1..8)
    BY <2>2, <2>3, FS_Subset
  <2> QED
    BY <1>4, <2>3, <2>4
<1> QED
  BY <1>2, <1>4, <1>5 DEF CountSlack

\* There is room for the lines of a failure and for the marker.
LEMMA Room ==
    /\ MaxAdviceChars \in Nat /\ HeadLength \in Nat /\ Budget \in Nat /\ OutLengths \subseteq Nat
    /\ Budget = MaxAdviceChars - 29
    /\ HeadLength <= Budget
    /\ 2 * HeadLength <= MaxAdviceChars /\ 2 * HeadLength \in Nat
<1>1. /\ MaxAdviceChars \in Nat /\ HeadLength \in Nat /\ OutLengths \subseteq Nat
      /\ 2 * HeadLength + MarkerLength + CountSlack <= MaxAdviceChars
  BY AdviceAssumption, Zenon DEF AdviceAssumption
<1> QED
  BY <1>1 DEF Budget, MarkerLength, CountSlack

\* Advice of this kind fits, and says so when it is not all.
Fits(advice, head, length) ==
    /\ advice \in [head : Heads, length : Nat, clipped : BOOLEAN]
    /\ advice.head = head
    /\ length < Uncounted => advice.length <= MaxAdviceChars
    /\ advice.clipped \/ advice.length >= length

\* A text that was bounded fits.
LEMMA BoundedFits ==
    ASSUME NEW head \in Heads, NEW extra \in Nat, extra <= HeadLength, NEW length \in Nat
    PROVE  Fits(Bounded(head, extra + length), head, length)
<1>1. /\ MaxAdviceChars \in Nat /\ HeadLength \in Nat /\ Budget \in Nat
      /\ Budget = MaxAdviceChars - 29 /\ HeadLength <= Budget
  BY Room
<1>2. PICK advice : advice = Bounded(head, extra + length)
  OBVIOUS
<1>3. ASSUME NEW size \in Nat, NEW clipped \in BOOLEAN,
             advice = [head |-> head, length |-> size, clipped |-> clipped],
             length < Uncounted => size <= MaxAdviceChars,
             clipped \/ size >= length
      PROVE  Fits(advice, head, length)
  BY <1>3 DEF Fits
<1>4. CASE extra + length <= MaxAdviceChars
  <2>1. PICK size \in Nat : size = extra + length
    OBVIOUS
  <2>2. advice = [head |-> head, length |-> size, clipped |-> FALSE]
    BY <1>2, <1>4, <2>1 DEF Bounded
  <2>3. size <= MaxAdviceChars /\ size >= length
    BY <1>1, <1>4, <2>1
  <2> QED
    BY <1>2, <1>3, <2>2, <2>3
<1>5. CASE ~(extra + length <= MaxAdviceChars)
  <2>1. PICK n \in Nat : n = (extra + length) - Budget
    BY <1>1, <1>5
  <2>2. PICK d \in Nat \ {0} : d = Digits(n)
    BY NineDigits
  <2>3. PICK size \in Nat : size = Budget + MarkerLength - 1 + d
    BY <1>1 DEF MarkerLength
  <2>4. advice = [head |-> head, length |-> size, clipped |-> TRUE]
    <3>1. advice = [head |-> head, clipped |-> TRUE,
                    length |-> Budget + MarkerLength - 1 + Digits((extra + length) - Budget)]
      BY <1>2, <1>5 DEF Bounded
    <3>2. Digits((extra + length) - Budget) = d
      BY <2>1, <2>2
    <3> QED
      BY <2>3, <3>1, <3>2
  <2>5. ASSUME length < Uncounted PROVE size <= MaxAdviceChars
    <3>1. Uncounted \in Nat
      BY DEF Uncounted
    <3>2. n < Uncounted
      BY <1>1, <2>1, <2>5, <3>1
    <3>3. d <= 1 + CountSlack
      BY <2>2, <3>2, NineDigits
    <3> QED
      BY <1>1, <2>3, <3>3 DEF MarkerLength, CountSlack
  <2> QED
    BY <1>2, <1>3, <2>4, <2>5
<1> QED
  BY <1>2, <1>4, <1>5

\* How the tool ended decides the first line, and the advice fits.
LEMMA AdviseKeeps ==
    ASSUME JobTyped, ArgvOf, NEW printed \in Prints, NEW length \in OutLengths,
           \/ \E exit \in {"zero", "nonzero"} : ToolExits(exit, printed, length)
           \/ ToolTimesOut(printed, length)
    PROVE  AdviceInv'
<1>1. length \in Nat /\ MaxAdviceChars \in Nat /\ HeadLength \in Nat
      /\ 2 * HeadLength <= MaxAdviceChars /\ 2 * HeadLength \in Nat
  BY Room
<1>2. ASSUME NEW exit \in {"zero", "nonzero", "timeout"}, NEW advice, Advise(exit, printed, length, advice),
             NEW head, Fits(advice, head, length),
             head = "exited" <=> exit = "nonzero",
             head = "timedout" <=> exit = "timeout",
             head = "nofindings" <=> exit = "zero" /\ printed # "findings"
      PROVE  AdviceInv'
  <2>1. /\ job.pc = "running"
        /\ job' = [job EXCEPT !.pc = "advised", !.exit = exit, !.printed = printed,
                              !.length = length, !.advice = advice]
    BY <1>2 DEF Advise
  <2>2. /\ job'.exit = exit /\ job'.printed = printed /\ job'.length = length
        /\ job'.advice = advice
        /\ job'.pc = "advised" /\ job'.token = job.token /\ job'.argv = job.argv
    BY <2>1 DEF JobTyped
  <2>3. JobTyped'
    BY <1>2, <2>1 DEF JobTyped, JobPCs, Fits
  <2>4. ArgvOf'
    BY <2>1, <2>2 DEF ArgvOf
  <2> QED
    BY <1>2, <2>2, <2>3, <2>4 DEF AdviceInv, AdviceFits, FailureShows, Fits
<1>3. ASSUME ToolTimesOut(printed, length) PROVE AdviceInv'
  <2>1. PICK advice : advice = Bounded("timedout", HeadLength + length)
    OBVIOUS
  <2>2. "timedout" \in Heads /\ HeadLength \in Nat /\ HeadLength <= HeadLength
    BY <1>1 DEF Heads
  <2>3. Fits(advice, "timedout", length)
    BY <1>1, <2>1, <2>2, BoundedFits
  <2>4. Advise("timeout", printed, length, advice)
    BY <1>3, <2>1 DEF ToolTimesOut
  <2> QED
    BY <1>2, <2>3, <2>4
<1>4. ASSUME NEW exit \in {"zero", "nonzero"}, ToolExits(exit, printed, length) PROVE AdviceInv'
  <2>1. PICK advice : advice = Finalized(exit, printed, length)
    OBVIOUS
  <2>2. Advise(exit, printed, length, advice)
    BY <1>4, <2>1 DEF ToolExits
  <2>3. CASE exit # "zero"
    <3>1. advice = Bounded("exited", HeadLength + length)
      BY <2>1, <2>3 DEF Finalized
    <3>2. "exited" \in Heads /\ HeadLength \in Nat /\ HeadLength <= HeadLength
      BY <1>1 DEF Heads
    <3>3. Fits(advice, "exited", length)
      BY <1>1, <3>1, <3>2, BoundedFits
    <3> QED
      BY <1>2, <2>2, <2>3, <3>3
  <2>4. CASE exit = "zero" /\ printed # "findings"
    <3>1. advice = [head |-> "nofindings", length |-> 2 * HeadLength, clipped |-> FALSE]
      BY <2>1, <2>4 DEF Finalized
    <3>2. length = 0
      BY <1>1, <2>2, <2>4 DEF Advise
    <3>3. Fits(advice, "nofindings", length)
      BY <1>1, <3>1, <3>2 DEF Heads, Fits
    <3> QED
      BY <1>2, <2>2, <2>4, <3>3
  <2>5. CASE exit = "zero" /\ printed = "findings"
    <3>1. advice = Bounded("output", 0 + length)
      BY <1>1, <2>1, <2>5 DEF Finalized
    <3>2. "output" \in Heads /\ 0 \in Nat /\ 0 <= HeadLength
      BY <1>1 DEF Heads
    <3>3. Fits(advice, "output", length)
      BY <1>1, <3>1, <3>2, BoundedFits
    <3> QED
      BY <1>2, <2>2, <2>5, <3>3
  <2> QED
    BY <2>3, <2>4, <2>5
<1> QED
  BY <1>3, <1>4

\* A job begins with a token and no advice.
LEMMA AdviceInitially == AdviceInit => AdviceInv
<1> SUFFICES ASSUME AdviceInit PROVE AdviceInv
  OBVIOUS
<1>1. PICK token \in Tokens :
         job = [pc |-> "config", token |-> token, argv |-> <<>>, exit |-> "none",
                printed |-> "nothing", length |-> 0, advice |-> NoAdvice]
  BY DEF AdviceInit
<1>2. JobTyped
  BY <1>1 DEF JobTyped, JobPCs, Prints, NoAdvice, Heads
<1> QED
  BY <1>1, <1>2 DEF AdviceInv, ArgvOf, AdviceFits, FailureShows

\* Every step of a job keeps the invariant.
LEMMA AdviceKeeps == AdviceInv /\ [AdviceNext]_job => AdviceInv'
<1> SUFFICES ASSUME AdviceInv, [AdviceNext]_job PROVE AdviceInv'
  OBVIOUS
<1>1. JobTyped /\ ArgvOf
  BY DEF AdviceInv
<1>2. CASE UNCHANGED job
  BY <1>2 DEF AdviceInv, JobTyped, ArgvOf, AdviceFits, FailureShows
<1>3. CASE Register
  <2>1. /\ job.pc = "config"
        /\ job' = [job EXCEPT !.pc = IF Valid(job.token) THEN "registered" ELSE "rejected"]
    BY <1>3 DEF Register
  <2>2. JobTyped' /\ job'.pc \in {"registered", "rejected"}
    BY <1>1, <2>1 DEF JobTyped, JobPCs
  <2>3. ArgvOf'
    BY <1>1, <2>1 DEF JobTyped, ArgvOf
  <2> QED
    BY <2>2, <2>3 DEF AdviceInv, AdviceFits, FailureShows
<1>4. ASSUME NEW matches \in 0..2, Expand(matches) PROVE AdviceInv'
  <2>1. /\ job.pc = "registered"
        /\ \/ job' = [job EXCEPT !.pc = "nomatch"]
           \/ job' = [job EXCEPT !.pc = "running", !.argv = Expanded(job.token, matches)]
    BY <1>4 DEF Expand
  <2>2. JobTyped' /\ job'.pc # "advised"
    BY <1>1, <2>1 DEF JobTyped, JobPCs
  <2>3. ArgvOf'
    BY <1>1, <2>1 DEF JobTyped, ArgvOf
  <2> QED
    BY <2>2, <2>3 DEF AdviceInv, AdviceFits, FailureShows
<1> QED
  BY <1>1, <1>2, <1>3, <1>4, AdviseKeeps DEF AdviceNext

\* What advice relies on, for any tokens and any lengths.
THEOREM AdviceInductive == AdviceSpec => []AdviceInv
  BY AdviceInitially, AdviceKeeps, PTL DEF AdviceSpec

\* Advice never exceeds its bound, and is never cut silently (AdviceFits).
THEOREM AdviceAlwaysFits == AdviceSpec => []AdviceFits
<1>1. AdviceInv => AdviceFits
  BY DEF AdviceInv
<1> QED
  BY <1>1, AdviceInductive, PTL

\* A tool that failed is never reported to have succeeded (FailureShows).
THEOREM FailuresShow == AdviceSpec => []FailureShows
<1>1. AdviceInv => FailureShows
  BY DEF AdviceInv
<1> QED
  BY <1>1, AdviceInductive, PTL

\* The invariant says what argv was expanded from, and that with what validation saw.
LEMMA TemplatesExpanded == AdviceInv => TemplatesExpand
BY ExpandedArguments DEF AdviceInv, JobTyped, ArgvOf, TemplatesExpand

\* No brace of a template reaches the tool, but where a placeholder is in another one or an embed
\* in a selector (TemplatesExpand): for tokens of any length, the ones the run has no room for
\* included.
THEOREM NoPlaceholderReachesTheTool == AdviceSpec => []TemplatesExpand
  BY TemplatesExpanded, AdviceInductive, PTL

\* A job has its type, argv included, which the invariant knows only by what it was expanded from.
LEMMA AdviceTyped == AdviceInv => AdviceTypeOK
<1> SUFFICES ASSUME AdviceInv PROVE AdviceTypeOK
  OBVIOUS
<1>1. JobTyped /\ ArgvOf
  BY DEF AdviceInv
<1>2. \A i \in 1..Len(job.argv) : job.argv[i] \in Seq(Pathed)
  <2>1. CASE job.pc \in {"running", "advised"}
    BY <1>1, <2>1, ExpandedArguments DEF JobTyped, ArgvOf
  <2>2. CASE job.pc \notin {"running", "advised"}
    BY <1>1, <2>2 DEF ArgvOf
  <2> QED
    BY <2>1, <2>2
<1> QED
  BY <1>1, <1>2 DEF JobTyped, AdviceTypeOK

\* Jobs keep their types (AdviceTypeOK).
THEOREM AdviceTypes == AdviceSpec => []AdviceTypeOK
  BY AdviceTyped, AdviceInductive, PTL

-----------------------------------------------------------------------------
(* The library *)

\* The parts that do nothing are in initial states of theirs.
LEMMA IdleParts ==
    /\ NoTransfer => TransferInit
    /\ NoTurn => IterationInit
    /\ NoJob => AdviceInit
    /\ NoEntry => LayoutInit
<1>0. NoTransfer => TransferInit
  <2>1. <<>> = [i \in 1..0 |-> 0]
    OBVIOUS
  <2> QED
    BY <2>1, LibraryAssumption DEF LibraryAssumption, NoTransfer, TransferInit
<1>1. NoTurn => IterationInit
  BY DEF NoTurn, IterationInit
<1>2. NoJob => AdviceInit
  BY LibraryAssumption DEF LibraryAssumption, NoJob, AdviceInit
<1>3. NoEntry => LayoutInit
  <2>1. <<>> \in Aliases /\ <<>> \in PathsSet
    <3>1. <<>> \in [1..0 -> Chars] /\ <<>> \in [1..0 -> Trees \cup {NoSuch}]
      OBVIOUS
    <3>2. MaxAlias \in Nat /\ MaxPaths \in Nat
      BY LayoutAssumption, Zenon DEF LayoutAssumption
    <3>3. 0 \in 0..MaxAlias /\ 0 \in 0..MaxPaths
      BY <3>2
    <3> QED
      BY <3>1, <3>3 DEF Aliases, PathsSet
  <2> QED
    BY <2>1 DEF NoEntry, LayoutInit
<1> QED
  BY <1>0, <1>1, <1>2, <1>3

\* A step of the library is a step or a stutter of each part.
LEMMA LibrarySteps ==
    [LibraryNext]_libraryVars =>
        /\ [TransferNext]_transferVars
        /\ [LookupNext]_lookupVars
        /\ [IterationNext]_iterationVars
        /\ [AdviceNext]_job
        /\ [LayoutNext]_layoutVars
<1> SUFFICES ASSUME [LibraryNext]_libraryVars
             PROVE /\ TransferNext \/ UNCHANGED transferVars
                   /\ LookupNext \/ UNCHANGED lookupVars
                   /\ IterationNext \/ UNCHANGED iterationVars
                   /\ AdviceNext \/ UNCHANGED job
                   /\ LayoutNext \/ UNCHANGED layoutVars
  OBVIOUS
<1>1. CASE UNCHANGED libraryVars
  BY <1>1 DEF libraryVars
<1>2. CASE LibraryNext
  BY <1>2, Zenon DEF LibraryNext, CallPart, EditPart, OthersThanTransfer, TransferNext, LookupPart, IterationPart,
                         AdvicePart, LayoutPart
<1> QED
  BY <1>1, <1>2

\* Side by side the parts are what they are alone: a behaviour of the library is one of each of the
\* five specifications, so that what is proved of each of them holds when they are checked together.
THEOREM LibraryIsItsParts ==
    LibrarySpec => TransferSpec /\ LookupSpec /\ IterationSpec /\ AdviceSpec /\ LayoutSpec
<1>1. LibraryInit => TransferInit /\ LookupInit /\ IterationInit /\ AdviceInit /\ LayoutInit
  BY IdleParts, Zenon DEF LibraryInit
<1> QED
  BY <1>1, LibrarySteps, PTL
     DEF LibrarySpec, TransferSpec, LookupSpec, IterationSpec, AdviceSpec, LayoutSpec

\* Every variable of the library keeps its type (LibraryTypeOK).
THEOREM LibraryTypes == LibrarySpec => []LibraryTypeOK
<1>1. TransferInv /\ PagingInv /\ TurnInv /\ AdviceInv /\ LayoutInv => LibraryTypeOK
  BY AdviceTyped, Zenon DEF TransferInv, PagingInv, TurnInv, LayoutInv, LibraryTypeOK
<1> QED
  BY <1>1, LibraryIsItsParts, TransferInductive, PagingInductive, TurnInductive, AdviceInductive,
     LayoutInductive, PTL
=============================================================================
