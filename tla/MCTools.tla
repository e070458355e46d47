------------------------------- MODULE MCTools ------------------------------
(***************************************************************************)
(* What works beside the service, one per behaviour: the path of words to  *)
(* speaker turns, the enhancement lane, the maker of annotation packs, a   *)
(* benchmark of a corpus or one of the worker.  What a behaviour is not    *)
(* about stays at one fixed initial state.                                 *)
(***************************************************************************)
EXTENDS WordPath, RNNoiseLane, AnnotationPack, BenchmarkRun, RepeatedWorker

-----------------------------------------------------------------------------
(* Tokens, transcripts and diarizations for WordPath: a recording of two   *)
(* milliseconds, each of ten units, so that a word can be shared 80 to 20  *)
(* between speakers and the unit that widens a word is much shorter than a *)
(* millisecond.                                                            *)

Shape(type, leading, trailing) == [type |-> type, leading |-> leading, trailing |-> trailing]
Shapes ==
    {Shape("piece", FALSE, FALSE), Shape("piece", TRUE, FALSE), Shape("piece", FALSE, TRUE),
     Shape("mark", FALSE, FALSE), Shape("mark", TRUE, FALSE), Shape("blank", TRUE, TRUE)}
At(shape, from, to) ==
    [type |-> shape.type, leading |-> shape.leading, trailing |-> shape.trailing,
     from |-> from, to |-> to]

\* Every shape at every time, a marker, and tokens that must be refused.
SomeTokens ==
    {At(shape, from, to) : shape \in Shapes, from \in 0..2, to \in 0..2}
      \cup {At(Shape("special", FALSE, FALSE), 0, 0), At(Shape("invalid", FALSE, FALSE), 0, 1),
            At(Shape("piece", TRUE, FALSE), 2, 3)}

Heard(from, to, label) == [start |-> from, end |-> to, label |-> label]
SomeTimelines ==
    {<< Heard(0, 8, "SPEAKER_00"), Heard(8, 20, "SPEAKER_01") >>,
     << Heard(0, 17, "SPEAKER_00"), Heard(17, 20, "UNKNOWN") >>,
     << Heard(0, 17, "SPEAKER_01"), Heard(17, 20, "SPEAKER_00") >>,
     << Heard(0, 4, "SPEAKER_00"), Heard(4, 7, "NON_SPEECH"), Heard(8, 20, "SPEAKER_01") >>,
     << Heard(0, 12, "SPEAKER_00"), Heard(12, 13, "OVERLAP"), Heard(13, 20, "OTHER") >>}

Spoken(start, end) == [start |-> start, end |-> end, text |-> << >>, inferred |-> FALSE]
SomeWords ==
    {<< Spoken(0, 3), Spoken(3, 6), Spoken(16, 20) >>,
     << Spoken(0, 6), Spoken(5, 9) >>, << Spoken(9, 12), Spoken(2, 4) >>,
     << Spoken(2, 4), Spoken(12, 21) >>, << Spoken(0, 10) >>,
     << Spoken(0, 2), Spoken(2, 12), [Spoken(12, 20) EXCEPT !.inferred = TRUE] >>}

WholePercent == [material |-> 20, dominant |-> 80, unknown |-> 20]

-----------------------------------------------------------------------------
(* Corpora, predictions and locks for BenchmarkRun: one that there is      *)
(* nothing against, and others with one thing wrong each.                  *)

SpanOf(file, who, from, to) == [file |-> file, channel |-> 1, who |-> who, from |-> from, to |-> to]
Scope(file, from, to) == [file |-> file, channel |-> 1, from |-> from, to |-> to]
Wav(length) == [wav |-> TRUE, mono |-> TRUE, rate |-> 16, length |-> length]
AWord(id, file, who, from, to) == [id |-> id, file |-> file, who |-> who, free |-> FALSE, from |-> from, to |-> to]

\* Two recordings of one speaker, and the one of two that is scored.
ARow(k, split, rttm) ==
    [id |-> k, session |-> 10 + k, recording |-> 20 + k, source |-> 0, augmentation |-> 0,
     split |-> split, rate |-> 16, count |-> Cardinality({s.who : s \in ToSet(rttm)}),
     groups |-> {100 * k + s.who : s \in ToSet(rttm)}, conditions |-> {<< "pair", "MF" >>}, status |-> "GOLD_APPROVED",
     policy |-> "FULL_AUDIO", audio |-> Wav(6), rttm |-> rttm, uem |-> << Scope(k, 0, 6) >>,
     words |-> << >>, declares |-> {"audio", "rttm", "uem"}]
TheRttm == << SpanOf(1, 1, 0, 3), SpanOf(1, 2, 2, 5) >>
TheRow == [ARow(1, "RELEASE_HOLDOUT", TheRttm) EXCEPT !.words = << AWord(1, 1, 1, 0, 2) >>]
List(row) == << row, ARow(2, "CALIBRATION", << SpanOf(2, 1, 0, 4) >>),
                ARow(3, "DEVELOPMENT_HOLDOUT", << SpanOf(3, 1, 1, 6) >>) >>
Guess(k) == << SpanOf(k, 11, 0, 2), SpanOf(k, 12, 3, 5) >>
Guessed(guess) == [k \in 1..3 |-> [id |-> k, file |-> k, rttm |-> IF k = 1 THEN guess ELSE Guess(k)]]
Filed(list, guessed) ==
    [place \in {<< 0, "references" >>, << 0, "predictions" >>}
               \cup ((DOMAIN list) \X {"audio", "rttm", "uem", "words"}) \cup ((DOMAIN guessed) \X {"guess"}) |->
       CASE place = << 0, "references" >> -> list
         [] place = << 0, "predictions" >> -> guessed
         [] place[2] = "guess" -> guessed[place[1]].rttm
         [] OTHER -> list[place[1]][place[2]]]
TheLock(list) ==
    [role |-> "GOLD", origin |-> "HUMAN", license |-> "APPROVED_INTERNAL_EVALUATION", timeline |-> "VERIFIED",
     audit |-> "VERIFIED", audited |-> TRUE, independence |-> "VERIFIED",
     capabilities |-> {"diarization", "overlap", "scd"}, held |-> TRUE, manifest |-> list, splits |-> list]
Ask(lock, list, guessed) == [documents |-> Filed(list, guessed), lock |-> lock, split |-> "RELEASE_HOLDOUT"]
Plain(list) == Ask(TheLock(list), list, Guessed(Guess(1)))
Partial == << Scope(1, 0, 3), Scope(1, 3, 5) >>
Touching == << Scope(1, 0, 3), Scope(1, 3, 6) >>
Silver == List([TheRow EXCEPT !.status = "SILVER", !.policy = "AUDITED_EXCLUSIONS", !.uem = << Scope(1, 0, 5) >>])
OtherRttm == << SpanOf(1, 1, 0, 3), SpanOf(1, 2, 3, 6) >>
OtherList == List([TheRow EXCEPT !.rttm = OtherRttm])
MarkedRttm == << SpanOf(1, 1, 0, 3), SpanOf(1, 0, 2, 5) >>
NamedRttm == << SpanOf(1, 1, 0, 3), SpanOf(1, -2, 2, 5) >>
LongRttm == << SpanOf(1, 1, 0, 3), SpanOf(1, 2, 2, 7) >>
Variants ==
    {[TheRow EXCEPT !.groups = {201, 102}], [TheRow EXCEPT !.session = 13], [TheRow EXCEPT !.source = 22],
     [TheRow EXCEPT !.declares = {"audio", "uem"}], [TheRow EXCEPT !.uem = << Scope(1, 0, 5) >>],
     [TheRow EXCEPT !.policy = "ANNOTATED_EXTENT_PROVISIONAL", !.status = "CONVERTED_PROVISIONAL"],
     [TheRow EXCEPT !.policy = "ANNOTATED_EXTENT_PROVISIONAL"],
     [TheRow EXCEPT !.words = << AWord(1, 1, 3, 0, 2) >>], [TheRow EXCEPT !.id = 2, !.rttm = << SpanOf(2, 1, 0, 4), SpanOf(2, 2, 2, 3) >>],
     [TheRow EXCEPT !.policy = "AUDITED_EXCLUSIONS", !.uem = Partial],
     [TheRow EXCEPT !.policy = "AUDITED_EXCLUSIONS", !.uem = Touching, !.rttm = OtherRttm], [TheRow EXCEPT !.rttm = MarkedRttm], [TheRow EXCEPT !.groups = {}],
     [TheRow EXCEPT !.rttm = NamedRttm], [TheRow EXCEPT !.conditions = @ \cup {<< "condition", "noisy" >>}],
     [TheRow EXCEPT !.split = "CALIBRATION"], [TheRow EXCEPT !.audio = Wav(4)], [TheRow EXCEPT !.rttm = LongRttm]}
TheBenchmarks ==
    {Plain(List(row)) : row \in {TheRow} \cup Variants}
    \cup {Ask([TheLock(list) EXCEPT !.role = role], list, Guessed(Guess(1))) :
            list \in {Silver, List(TheRow)}, role \in {"SILVER", "CHALLENGE"}}
    \cup {Ask(TheLock(OtherList), List(TheRow), Guessed(Guess(1))),
          Ask([TheLock(List(TheRow)) EXCEPT !.capabilities = {"diarization", "scd"}], List(TheRow), Guessed(Guess(1))),
          Ask(TheLock(List(TheRow)), List(TheRow), Guessed(<< SpanOf(1, 11, 0, 7) >>)),
          Ask(TheLock(List(TheRow)), List(TheRow), Guessed(<< SpanOf(1, 11, 0, 2), SpanOf(1, -1, 3, 5) >>)),
          Ask(TheLock(List(TheRow)), List(TheRow), Guessed(<< SpanOf(1, -2, 0, 2) >>))}
Put(f, g) == [p \in DOMAIN f \cup DOMAIN g |-> IF p \in DOMAIN f THEN f[p] ELSE g[p]]
TheReplacements ==
    [place \in {<< 0, "references" >>, << 1, "rttm" >>, << 1, "uem" >>, << 1, "audio" >>, << 1, "guess" >>} |->
       CASE place[2] = "references" -> {List(TheRow), OtherList}
         [] place[2] = "rttm" -> {TheRttm, OtherRttm, LongRttm, NamedRttm}
         [] place[2] = "uem" -> {<< Scope(1, 0, 6) >>, Partial}
         [] place[2] = "audio" -> {Wav(6), Wav(4)}
         [] OTHER -> {Guess(1), << SpanOf(1, 11, 0, 7) >>}]
Passing == [g \in {"der", "scd_f1", "osd"} |-> "pass"]
TheMeasures == {Passing, [Passing EXCEPT !["der"] = "fail"], [Passing EXCEPT !["scd_f1"] = "none"]}

-----------------------------------------------------------------------------
(* Inputs of the other tools. *)

TheReferences == {{0, 5}, {9}}
TheSystems == {{<< 1, 2 >>}, {<< 4, 9 >>, << 13, 14 >>}}
TheShuffles == {<< 2, 4, 1, 3 >>, << 4, 2, 3, 1 >>}

PlanOf(n, repetitions, minutes, minimum, mode, version) ==
    [inputs |-> n, repetitions |-> repetitions, minutes |-> minutes, minimum |-> minimum,
     mode |-> mode, version |-> version]
ThePlans ==
    {PlanOf(1, 3, 30, 0, "local_proxy", "any"), PlanOf(2, 2, 15, 60, "target", "any"),
     PlanOf(1, 3, 30, 60, "target", "v2"), PlanOf(2, 1, 20, 60, "local_proxy", "v1"),
     PlanOf(1, 2, 60, 30, "target", "any"), PlanOf(1, 0, 30, 0, "local_proxy", "any")}

-----------------------------------------------------------------------------

VARIABLE tool

toolVars == << tool, vars, laneVars, packVars, benchmarkVars, workerVars >>

\* The state a part has when the behaviour is about another one.
LaneRests == source.genuine /\ given = [c \in Callers |-> CHOOSE g \in [frames : Lengths, fits : {Documents}] : TRUE]
PackRests ==
    /\ clip = [b \in Builders |-> CHOOSE n \in ClipLengths : TRUE]
    /\ inputs.reference = CHOOSE r \in References : TRUE
    /\ inputs.system = CHOOSE s \in Systems : TRUE
BenchmarkRests ==
    LET b == CHOOSE c \in Benchmarks : TRUE IN asked.lock = b.lock /\ documents = b.documents

ToolInit ==
    /\ tool \in {"words", "lane", "pack", "benchmark", "repeated"}
    /\ Init /\ (tool # "words" => origin = "stt")
    /\ LaneInit /\ (tool # "lane" => LaneRests)
    /\ PackInit /\ (tool # "pack" => PackRests)
    /\ BenchmarkInit /\ (tool # "benchmark" => BenchmarkRests)
    /\ WorkerInit /\ (tool # "repeated" => plan = CHOOSE p \in Plans : TRUE)

UseWords ==
    tool = "words" /\ Next /\ UNCHANGED << tool, laneVars, packVars, benchmarkVars, workerVars >>
UseLane ==
    tool = "lane" /\ LaneNext /\ UNCHANGED << tool, vars, packVars, benchmarkVars, workerVars >>
UsePack ==
    tool = "pack" /\ PackNext /\ UNCHANGED << tool, vars, laneVars, benchmarkVars, workerVars >>
UseBenchmark ==
    tool = "benchmark" /\ BenchmarkNext /\ UNCHANGED << tool, vars, laneVars, packVars, workerVars >>
UseWorker ==
    tool = "repeated" /\ WorkerNext /\ UNCHANGED << tool, vars, laneVars, packVars, benchmarkVars >>

ToolNext == UseWords \/ UseLane \/ UsePack \/ UseBenchmark \/ UseWorker

\* Nothing is refused without a reason that lies in what was given or in what was done to
\* it meanwhile: no pack, no benchmark, no worker (AnnotationPack, BenchmarkRun,
\* RepeatedWorker say which reasons).
RefusedForCause == PackRefusedForCause /\ BenchmarkRefusedForCause /\ WorkerRefusedForCause

ToolSpec == ToolInit /\ [][ToolNext]_toolVars

=============================================================================
