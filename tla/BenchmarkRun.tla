---------------------------- MODULE BenchmarkRun ----------------------------
(***************************************************************************)
(* A benchmark of predictions against a locked corpus (evaluation_io.py).  *)
(*                                                                         *)
(* The corpus is validated first, row by row, and each of its files is     *)
(* read more than once on the way; then its manifest and the files are     *)
(* read again, held as bytes and compared with what the manifest declares, *)
(* and only those bytes are judged and scored.  Others may replace a file  *)
(* between any two reads.  A digest is the content it is of.               *)
(***************************************************************************)
EXTENDS Integers, SequencesExt

CONSTANTS
    Benchmarks,   \* what may be asked for: [documents, lock, split], where documents
                  \* gives the content of a file by << row, kind >> and of manifests by << 0, name >>
    Replacements, \* contents by file that it may be replaced with
    Measures,     \* results of the metrics' gates that scores may have
    MaxWork,      \* MAX_BOOTSTRAP_WORK for each iteration and metric: recordings times subgroups
    MaxSwaps      \* bound: replaced files

Intake == INSTANCE AnnotationIntake
Korea == INSTANCE KoreanBenchmark
Recordings == INSTANCE Evaluation

ReferenceList == << 0, "references" >>
PredictionList == << 0, "predictions" >>
\* Manifests that there may be.
Lists ==
    {b.documents[ReferenceList] : b \in Benchmarks}
    \cup UNION {Replacements[place] : place \in DOMAIN Replacements \cap {ReferenceList}}
ASSUME BenchmarkAssumption ==
    /\ {MaxSwaps, MaxWork} \subseteq Nat
    /\ \A b \in Benchmarks :
         /\ {ReferenceList} \cup DOMAIN Replacements \subseteq DOMAIN b.documents
         /\ b.documents[PredictionList] \in Seq(ToSet(b.documents[PredictionList]))
    /\ \A list \in Lists : list \in Seq(ToSet(list))
    /\ \A list \in Lists : \A row \in ToSet(list) :
         /\ row.uem \in Seq(ToSet(row.uem)) /\ row.audio.length \in Nat
         /\ \A x \in ToSet(row.rttm) \cup ToSet(row.uem) : {x.from, x.to} \subseteq Nat

VARIABLES
    stop,       \* statement the run is at
    asked,      \* the benchmark: [lock, split]
    documents,  \* what the files hold now
    swaps,      \* how often one was replaced
    first,      \* reference_manifest_before_validation
    rows,       \* rows of the manifest that is worked on
    at,         \* the row that is
    flaws,      \* rows that validation objected to
    noted,      \* what it has read of the row: [length, uem, scored, speakers]
    loaded,     \* snapshots: sequence of [row, rttm, uem, length], length 0 for another split
    guesses,    \* snapshots of the predictions
    verdict     \* [is, of, gate]

benchmarkVars == << stop, asked, documents, swaps, first, rows, at, flaws, noted, loaded,
                    guesses, verdict >>

Unknown == [length |-> 0, uem |-> << >>, scored |-> {}, speakers |-> {}]
Nothing == [is |-> "none", of |-> {}, gate |-> "none"]

BenchmarkInit ==
    /\ stop = "begin" /\ swaps = 0 /\ first = << >> /\ rows = << >> /\ at = 1
    /\ \E b \in Benchmarks : asked = [lock |-> b.lock, split |-> b.split] /\ documents = b.documents
    /\ flaws = {} /\ noted = Unknown /\ loaded = << >> /\ guesses = << >> /\ verdict = Nothing

Row == rows[at]
Held(kind) == documents[<< at, kind >>]
Note(wrong) == flaws' = IF wrong THEN flaws \cup {at} ELSE flaws
NextRow == at' = at + 1 /\ noted' = Unknown
RefuseRun == stop' = "done" /\ verdict' = [Nothing EXCEPT !.is = "refused"]

-----------------------------------------------------------------------------
(* Validation: validate_annotation_dataset *)

\* The manifest is read for later comparison, and then once more for validation.
BeginRun ==
    /\ stop = "begin" /\ stop' = "list" /\ first' = documents[ReferenceList]
    /\ UNCHANGED << asked, documents, swaps, rows, at, flaws, noted, loaded, guesses, verdict >>
ListRows ==
    /\ stop = "list" /\ stop' = "rttm_digest" /\ rows' = documents[ReferenceList]
    /\ UNCHANGED << asked, documents, swaps, first, at, flaws, noted, loaded, guesses, verdict >>

\* A digest that a row declares is compared with the file by a read of its own; a row
\* need not declare digests of its annotations here.
CheckDigest(kind, this, next, wrong) ==
    /\ stop = this /\ at <= Len(rows) /\ stop' = next
    /\ Note(wrong \/ (kind \in Row.declares /\ Row[kind] # Held(kind)))
    /\ UNCHANGED << asked, documents, swaps, first, rows, at, noted, loaded, guesses, verdict >>
CheckRow ==
    \/ CheckDigest("rttm", "rttm_digest", "uem_digest",
                   at <= Len(rows) /\ (Intake!RowFlawed(Row) \/ \E k \in 1..(at - 1) : rows[k].id = Row.id))
    \/ CheckDigest("uem", "uem_digest", "audio_digest", FALSE)
    \/ CheckDigest("audio", "audio_digest", "layout", FALSE)

\* What is no WAV ends the row.
ReadLayout ==
    /\ stop = "layout"
    /\ IF Held("audio").wav
       THEN /\ stop' = "uem" /\ UNCHANGED at
            /\ noted' = [noted EXCEPT !.length = Held("audio").length]
            /\ Note(Intake!LayoutFlawed(Row, Held("audio")))
       ELSE stop' = "rttm_digest" /\ NextRow /\ Note(TRUE)
    /\ UNCHANGED << asked, documents, swaps, first, rows, loaded, guesses, verdict >>

\* The two annotations are read one after the other, and judged then.
ReadUem ==
    /\ stop = "uem" /\ stop' = "rttm" /\ noted' = [noted EXCEPT !.uem = Held("uem")]
    /\ UNCHANGED << asked, documents, swaps, first, rows, at, flaws, loaded, guesses, verdict >>
ReadRttm ==
    /\ stop = "rttm"
    /\ Note(Intake!AnnotationsFlawed(Row, Held("rttm"), noted.uem, noted.length))
    /\ IF Row.words = << >> THEN stop' = "rttm_digest" /\ NextRow
       ELSE /\ stop' = "words_uem" /\ UNCHANGED at
            /\ noted' = [noted EXCEPT !.speakers = Intake!Speakers(Held("rttm"))]
    /\ UNCHANGED << asked, documents, swaps, first, rows, loaded, guesses, verdict >>

\* For the words the UEM is read once more.
ReadUemAgain ==
    /\ stop = "words_uem" /\ stop' = "words"
    /\ noted' = [noted EXCEPT !.scored = Intake!Scored(Held("uem"), Row.id, noted.length)]
    /\ UNCHANGED << asked, documents, swaps, first, rows, at, flaws, loaded, guesses, verdict >>
ReadWords ==
    /\ stop = "words" /\ stop' = "rttm_digest" /\ NextRow
    /\ Note(\/ Held("words") # Row.words
            \/ Intake!WordsFlawed(Held("words"), Row.id, noted.length, noted.scored, noted.speakers))
    /\ UNCHANGED << asked, documents, swaps, first, rows, loaded, guesses, verdict >>

Manifests(list) ==
    [k \in DOMAIN list |->
       [id |-> list[k].recording, session |-> list[k].session, split |-> list[k].split,
        source |-> list[k].source, augmentation |-> list[k].augmentation, speakers |-> list[k].groups]]

EndValidation ==
    /\ stop = "rttm_digest" /\ at > Len(rows)
    /\ IF flaws = {} /\ Recordings!SplitsApart(Manifests(rows)) /\ Intake!SplitsMissing(rows) = {}
       THEN stop' = "load" /\ UNCHANGED verdict
       ELSE RefuseRun
    /\ UNCHANGED << asked, documents, swaps, first, rows, at, flaws, noted, loaded, guesses >>

-----------------------------------------------------------------------------
(* Snapshots: _read_reference_rows and _read_prediction_rows *)

Load(name, next) ==
    /\ rows' = documents[<< 0, name >>] /\ at' = 1 /\ stop' = next
    /\ UNCHANGED << asked, documents, swaps, first, flaws, noted, loaded, guesses, verdict >>
LoadReferences == stop = "load" /\ Load("references", "load_rttm")

LoadRttm ==
    /\ stop = "load_rttm" /\ at <= Len(rows) /\ stop' = "load_uem"
    /\ loaded' = Append(loaded, [row |-> Row, rttm |-> Held("rttm"), uem |-> << >>, length |-> 0])
    /\ UNCHANGED << asked, documents, swaps, first, rows, at, flaws, noted, guesses, verdict >>

\* Mutant: annotations that validation has accepted are not compared again.
AsDeclared_Trusted(row, rttm, uem) == {"rttm", "uem"} \subseteq row.declares

AsDeclared(row, rttm, uem) ==
    {"rttm", "uem"} \subseteq row.declares /\ row.rttm = rttm /\ row.uem = uem

\* Here a row has to declare everything.
RowComplete(row) ==
    /\ row.count \in {1, 2} /\ Cardinality(row.groups) = row.count
    /\ ~(row.status = "GOLD_APPROVED" /\ row.policy = "ANNOTATED_EXTENT_PROVISIONAL")
LoadUem ==
    /\ stop = "load_uem"
    /\ loaded' = [loaded EXCEPT ![at].uem = Held("uem")]
    /\ IF ~AsDeclared(Row, loaded[at].rttm, Held("uem")) \/ ~RowComplete(Row)
       THEN RefuseRun /\ UNCHANGED at
       ELSE IF Row.split = asked.split THEN stop' = "load_audio" /\ UNCHANGED << at, verdict >>
       ELSE stop' = "load_rttm" /\ at' = at + 1 /\ UNCHANGED verdict
    /\ UNCHANGED << asked, documents, swaps, first, rows, flaws, noted, guesses >>

\* _snapshot_wav: only the recordings that are scored are read.
LoadAudio ==
    /\ stop = "load_audio"
    /\ loaded' = [loaded EXCEPT ![at].length = Held("audio").length]
    /\ IF Row.audio = Held("audio") /\ Held("audio").wav /\ ~Intake!LayoutFlawed(Row, Held("audio"))
       THEN stop' = "load_rttm" /\ at' = at + 1 /\ UNCHANGED verdict
       ELSE RefuseRun /\ UNCHANGED at
    /\ UNCHANGED << asked, documents, swaps, first, rows, flaws, noted, guesses >>

EndReferences ==
    /\ stop = "load_rttm" /\ at > Len(rows)
    /\ IF rows = first /\ rows # << >> THEN stop' = "predictions" /\ UNCHANGED verdict
       ELSE RefuseRun
    /\ UNCHANGED << asked, documents, swaps, first, rows, at, flaws, noted, loaded, guesses >>
LoadPredictions == stop = "predictions" /\ Load("predictions", "guess")

\* The file of a prediction is that of the row it names.
LoadGuess ==
    /\ stop = "guess" /\ at <= Len(rows)
    /\ LET guess == documents[<< Row.file, "guess" >>]
       IN  /\ guesses' = Append(guesses, [id |-> Row.id, rttm |-> guess])
           /\ IF Row.rttm = guess THEN at' = at + 1 /\ UNCHANGED << stop, verdict >>
              ELSE RefuseRun /\ UNCHANGED at
    /\ UNCHANGED << asked, documents, swaps, first, rows, flaws, noted, loaded >>

-----------------------------------------------------------------------------
(* Judgement: evaluate_korean_benchmark *)

Ids(snapshots) == [k \in DOMAIN snapshots |-> snapshots[k].id]
ReferenceIds == [k \in DOMAIN loaded |-> loaded[k].row.id]

Selected == {l \in ToSet(loaded) : l.row.split = asked.split}
RolesFit ==
    \A l \in Selected :
      /\ asked.lock.role = "SILVER" => l.row.status \in {"SILVER", "CONVERTED_PROVISIONAL"}
      /\ asked.lock.role = "CHALLENGE" => l.row.status = "CHALLENGE"

\* What the bootstrap has to do for these rows: each belongs to the group of all and to
\* one for its split, its rate and each of its conditions, the gender pair among them.
BootstrapWork(chosen) ==
    Cardinality(chosen)
      * (1 + Cardinality(UNION {{<< "split", r.split >>, << "rate", r.rate >>} \cup r.conditions : r \in chosen}))

Comparable ==
    /\ asked.lock.manifest = first /\ asked.lock.splits = first
    /\ IsInjective(ReferenceIds) /\ IsInjective(Ids(guesses))
    /\ Recordings!SplitsApart(Manifests([k \in DOMAIN loaded |-> loaded[k].row]))
    /\ Range(ReferenceIds) = Range(Ids(guesses)) /\ Selected # {} /\ RolesFit
    /\ BootstrapWork({l.row : l \in Selected}) <= MaxWork

GuessOf(id) == (CHOOSE g \in ToSet(guesses) : g.id = id).rttm

\* Mutant: intervals of the UEM that touch are taken to overlap.
UemInOrder_Apart(uem) == \A k \in 2..Len(uem) : uem[k - 1].to < uem[k].from

UemInOrder(uem) == \A k \in 2..Len(uem) : uem[k - 1].to <= uem[k].from

\* Mutant: only the answers are looked at.
LabelsFit_GuessOnly(rttm, guess) == \A g \in guess : Intake!Opaque(g.who) \/ g.who = -1

\* _RESERVED_HYPOTHESIS_LABELS: a system may say that it does not know.
LabelsFit(rttm, guess) ==
    /\ \A s \in rttm : Intake!Opaque(s.who)
    /\ \A g \in guess : Intake!Opaque(g.who) \/ g.who = -1

\* What is checked of the bytes that are held, before they are scored.
Scorable(l) ==
    LET all == ToSet(l.rttm) \cup ToSet(l.uem)
        guess == ToSet(GuessOf(l.row.id))
    IN  /\ \A x \in all \cup guess : x.file = l.row.id /\ x.from < x.to /\ x.to <= l.length
        /\ \A x \in all \cup guess : x.channel = 1
        /\ UemInOrder(l.uem)
        /\ l.row.policy = "FULL_AUDIO" =>
             Len(l.uem) = 1 /\ l.uem[1].from = 0 /\ l.uem[1].to = l.length
        /\ \A s \in ToSet(l.rttm) : Intake!Contained(s, ToSet(l.uem))
        /\ Cardinality({s.who : s \in ToSet(l.rttm)}) = l.row.count
        /\ LabelsFit(ToSet(l.rttm), guess)

\* Gates of a gold corpus are not passed by rows that nobody approved as gold.
GateOf(measured) ==
    LET gate == Korea!GateStatus(measured, asked.lock, asked.split)
        approved == \A l \in Selected : l.row.status = "GOLD_APPROVED"
    IN  IF asked.lock.role = "GOLD" /\ ~approved /\ gate = "METRIC_GATES_PASS_REVIEW_REQUIRED"
        THEN "REVIEW_REQUIRED" ELSE gate

Judge(measured) ==
    /\ stop = "guess" /\ at > Len(rows)
    /\ IF rows # << >> /\ Comparable /\ \A l \in Selected : Scorable(l)
       THEN /\ stop' = "done"
            /\ verdict' = [is |-> "scored", gate |-> GateOf(measured),
                           of |-> {[scored |-> l, guess |-> GuessOf(l.row.id)] : l \in Selected}]
       ELSE RefuseRun
    /\ UNCHANGED << asked, documents, swaps, first, rows, at, flaws, noted, loaded, guesses >>

-----------------------------------------------------------------------------

\* Environment: a file is replaced by another.
Swap(place) ==
    /\ stop # "done" /\ swaps < MaxSwaps /\ swaps' = swaps + 1
    /\ \E content \in Replacements[place] :
         content # documents[place] /\ documents' = [documents EXCEPT ![place] = content]
    /\ UNCHANGED << stop, asked, first, rows, at, flaws, noted, loaded, guesses, verdict >>

RunStep ==
    \/ BeginRun \/ ListRows \/ CheckRow \/ ReadLayout \/ ReadUem \/ ReadRttm \/ ReadUemAgain
    \/ ReadWords \/ EndValidation \/ LoadReferences \/ LoadRttm \/ LoadUem \/ LoadAudio
    \/ EndReferences \/ LoadPredictions \/ LoadGuess \/ \E measured \in Measures : Judge(measured)
BenchmarkNext == RunStep \/ \E place \in DOMAIN Replacements : Swap(place)

BenchmarkSpec == BenchmarkInit /\ [][BenchmarkNext]_benchmarkVars

-----------------------------------------------------------------------------

\* A reference that can be scored: of its own recording, inside what is scored of it,
\* and with pseudonyms for labels.
ReferenceSound(row, rttm, uem) ==
    /\ rttm # << >> /\ Cardinality({s.who : s \in ToSet(rttm)}) = row.count
    /\ \A s \in ToSet(rttm) :
         s.file = row.id /\ Intake!Contained(s, ToSet(uem)) /\ Intake!Opaque(s.who)
    /\ \A x, y \in DOMAIN uem : x < y => uem[x].to <= uem[y].from
    /\ \A u \in ToSet(uem) : u.file = row.id /\ u.to <= row.audio.length

\* What is scored is what the locked manifest declares, all of the split and nothing of
\* another, whatever was replaced while the run went on; gates are passed only by a gold
\* corpus that is approved row by row.
ScoredIsDeclared ==
    verdict.is = "scored" =>
      LET list == asked.lock.manifest
          whole == {r \in ToSet(list) : r.split = asked.split}
      IN  /\ {v.scored.row : v \in verdict.of} = whole
          /\ \A v \in verdict.of :
               /\ v.scored.rttm = v.scored.row.rttm /\ v.scored.uem = v.scored.row.uem
               /\ v.scored.length = v.scored.row.audio.length
               /\ ReferenceSound(v.scored.row, v.scored.row.rttm, v.scored.row.uem)
               /\ \A g \in ToSet(v.guess) : g.file = v.scored.row.id /\ g.to <= v.scored.length
          /\ \A r \in whole, s \in ToSet(list) \ whole :
               r.groups \cap s.groups = {} /\ r.session # s.session /\ r.recording # s.recording
          /\ verdict.gate = "METRIC_GATES_PASS_REVIEW_REQUIRED" =>
               asked.lock.role = "GOLD" /\ \A r \in whole : r.status = "GOLD_APPROVED"

\* A benchmark that there is nothing against.
SoundList(list) ==
    /\ IsInjective([k \in DOMAIN list |-> list[k].id])
    /\ IsInjective([k \in DOMAIN list |-> list[k].recording])
    /\ \A k, m \in DOMAIN list : list[k].split # list[m].split =>
         /\ list[k].groups \cap list[m].groups = {} /\ list[k].session # list[m].session
         /\ list[k].augmentation # 0 => list[k].augmentation # list[m].augmentation
         /\ {list[k].recording, list[k].source} \cap {list[m].recording, list[m].source} \subseteq {0}
    /\ Intake!SplitsMissing(list) = {}
SoundFiles(list) ==
    \A k \in DOMAIN list :
      LET row == list[k]
      IN  /\ \A kind \in {"audio", "rttm", "uem"} : documents[<< k, kind >>] = row[kind]
          /\ row.declares = {"audio", "rttm", "uem"} /\ RowComplete(row)
          /\ row.audio.wav /\ row.audio.mono /\ row.audio.rate = row.rate
          /\ ReferenceSound(row, row.rttm, row.uem) /\ \A s \in ToSet(row.rttm) : s.who # 0
          /\ \A x \in ToSet(row.rttm) \cup ToSet(row.uem) : x.from < x.to /\ x.channel = 1
          /\ row.words # << >> =>
               /\ documents[<< k, "words" >>] = row.words
               /\ ~Intake!WordsFlawed(row.words, row.id, row.audio.length, ToSet(row.uem),
                                      Intake!Speakers(row.rttm))
          /\ row.policy = "FULL_AUDIO" /\ row.split = asked.split =>
               Len(row.uem) = 1 /\ row.uem[1].from = 0 /\ row.uem[1].to = row.audio.length
SoundGuesses(list, predicted) ==
    /\ IsInjective(Ids(predicted)) /\ Range(Ids(predicted)) = Range(Ids(list))
    /\ \A p \in ToSet(predicted) :
         /\ p.rttm = documents[<< p.file, "guess" >>]
         /\ \A r \in ToSet(list) : r.id = p.id /\ r.split = asked.split =>
              \A g \in ToSet(p.rttm) :
                g.file = p.id /\ g.channel = 1 /\ g.from < g.to /\ g.to <= r.audio.length /\ g.who # -2

Blameless ==
    LET list == documents[ReferenceList]
        whole == {r \in ToSet(list) : r.split = asked.split}
    IN  /\ SoundList(list) /\ SoundFiles(list) /\ SoundGuesses(list, documents[PredictionList])
        /\ asked.lock.manifest = list /\ asked.lock.splits = list /\ whole # {}
        /\ BootstrapWork(whole) <= MaxWork
        /\ asked.lock.role = "SILVER" => \A r \in whole : r.status \in {"SILVER", "CONVERTED_PROVISIONAL"}
        /\ asked.lock.role = "CHALLENGE" => \A r \in whole : r.status = "CHALLENGE"

\* Left alone, a run refuses nothing that it should score: what validation accepts, the
\* checks of the bytes accept as well.
BenchmarkRefusedForCause == verdict.is = "refused" /\ swaps = 0 => ~Blameless
=============================================================================
