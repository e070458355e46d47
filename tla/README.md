# A TLA+ model of sddiar

sddiar is an offline, CPU-only speaker diarization package for Korean one- or
two-speaker telephone recordings.  A recording enters as a PCM16 WAV file; what
leaves is a JSON envelope with speaker spans, words, turns, a quality verdict and
a digest of the audio it was computed from.  The package is conservative by design:
it would rather say UNKNOWN or ask for a review than name the wrong speaker.

This directory models the parts of it whose correctness depends on order,
concurrency, failure or a search over many alternatives, checks them with TLC on
small instances and proves the central invariants with TLAPS for every size.

All paths below are relative to `src/sddiar/` of the repository; "SDD" is
`SDD_offline_cpu_speaker_diarization_v1_ko.md`.

## 1. Inventory

### How the parts call each other

    caller -> LocalWorker.submit/run  (worker.py, store of JSON files, service.py)
                 `-> handler -> ProductionOrchestrator.process (one lock per object)
                        |-> Pcm16CanonicalAdapter: snapshot, canonical.wav, digest
                        |-> STT: supplied words | none | whisper.cpp (one slot per process)
                        |-> LocalOnnxDiarizer (lazy, cached)
                        |     |-> VAD -> speech regions -> tracklets
                        |     |-> embeddings -> anchors -> H1/H2 -> speaker states
                        |     `-> decode_sequence -> spans
                        |-> optional enhancement hook
                        |-> word mapping, turns, receipts
                        `-> quality gate -> SummaryPolicyAdapter

    beside it      recording -> RNNoise lane -> waveform and receipt
                   recording -> blind annotation pack -> annotators
                   corpus -> annotation intake -> benchmark of a locked corpus -> gates
                   worker -> repeated one-CPU benchmark -> PASS or FAIL
                   models, wheels, evidence -> model pack, release layout -> accepted or issues
                   UNKNOWN speech -> conformal assignment, graph rescue (default off)

### Components

| Component | State it keeps | Operations | What is hard | What makes it correct |
|---|---|---|---|---|
| Job worker and store (`worker.py`, `service.py`) | `jobs/<id>.json`, `results/<id>.json` | submit, run, save, atomic_publish | crash between two writes, a write that fails, an interrupt in the try block, two processes on one store | success comes with its result; one job per key; retries end; outcomes are final |
| Failure taxonomy (`errors.py`) | none | classify_retry | which exception means what | a transient failure is retried, a contract failure never |
| Orchestrator (`production_orchestrator.py`) | process lock, cached diarizer, temporary canonical.wav | process | files change under the job; exceptions at every stage; threads that share an object | exclusive, leaves nothing behind, a result is about the audio it names, authority is earned |
| Quality gate and summary policy (`quality.py`, `service.py`) | none | evaluate_file_quality, decide | evidence, calibration and authority come from different places | speakers are named only with release authority and evidence |
| whisper.cpp adapter (`whispercpp_backend.py`) | process-wide job gate | transcribe, timeline parsing | queue timeout against decoder timeout; zero-length words | the slot is always given back; words stay in order |
| Local ONNX diarizer (`onnx_diarization.py`) | sessions, embedding backend | constructor, process | files are hashed, then opened | sessions run verified files |
| Sequence decoder (`diarization.py`) | tracklets, speaker states, DP tables | build_tracklets, evaluate_hypotheses, refine_recent_states, local_assignment, decode_sequence, _materialize | ties, infinite costs, repair in place, boundaries | cheapest labelling, nobody forced, the timeline says what the labels say |
| Word attribution and corrections (`attribution.py`, `correction.py`) | none | words to speakers, turns, corrections with a callback | words across boundaries, corrections that meet what earlier ones left | every word in one turn; names change only where a reviewer said so |
| Speech front end (`vad.py`, `segmentation.py`, `silero_*.py`, `embedding.py`) | recurrent model state per file | hysteresis, padding, splitting, chunking | equal times, block boundaries, padding that merges regions | regions are what was heard; independent of the block size |
| Neural runtimes (`pyannote_segmentation_runtime.py`, `wespeaker_runtime.py`) | sessions | windows, alignment, change evidence, batches | the network renames speakers in every window; padding and company in a batch | names and company show in no evidence |
| Media and gain (`media.py`, `audio_gain.py`) | open WAV | decode, resample, gain | block boundaries, saturation | independent of blocks; samples stay samples |
| Calibration, model pack (`calibration.py`, `model_pack.py`) | sealed objects | verify, bind, verify again | what is verified is not what is used | only what a release key signed carries authority |
| Blind annotation and intake (`blind_annotation.py`, `annotation_intake.py`) | staging and target directories | build pack, verify pack, validate | publication in steps while files change | annotators never see the key; no half pack; no reasonless refusal |
| RNNoise lane (`rnnoise_experimental.py`) | workspace, busy flag, deadline | prepare | a chain of native processes under one deadline, files that are replaced between looks | a receipt is true; late failure leaves no audio |
| Rescue experiments (`graph_rescue_*`, `conformal_*`, `bm_rcm_integration.py`) | none | rescue_unknowns, assign, batches | iteration to a fixed point, resource limits, cancelling vectors | fair to each speaker, stable, independent of batches |
| Evaluation (`evaluation.py`, `evaluation_io.py`, `stt_evaluation.py`) | loaded snapshots | load, score, map speakers, aggregate | optimal mapping, collars, files read more than once | equals a definition by instants; what is scored is what was declared |
| Release gates (`release.py`, `korean_benchmark.py`, `proxy_stability.py`) | none | validate, gate, audit | each document vouches for a part | an accepted delivery is whole |
| STT cascade (`stt_cascade_experimental.py`) | none | oracle, verify_local_stt_pack | two solvers, ties, digests of directories | the best selection; a verified pack is complete and unchanged |
| One-CPU benchmark (`bench/one_cpu/run_repeated_worker.py`) | samples of memory and counters | run, look, report | sources that cannot be read, counters that start again | a PASS is warranted by what was read |
| CLI, serialisation, contracts, records | none worth modelling | | | |

`PROJECT.json` lists every file under its component with what is and is not modelled.

## 2. Modules

| Module | Models | Uses |
|---|---|---|
| `Failures` | `errors.py` and `worker.classify_retry` | |
| `JobLedger` | abstract: what the store promises | |
| `JobWorker` | `LocalWorker` and `LocalJobStore`; implements `JobLedger` | `Failures` |
| `QualityGate` | `evaluate_file_quality`, `_quality`, `SummaryPolicyAdapter.decide` | |
| `Orchestrator` | `ProductionOrchestrator.process`, the STT job gate, the diarizer cache | `Failures`, `QualityGate` |
| `SequenceDecoder` | `build_tracklets` to `_materialize` | |
| `WordPath` | decoder output to words, speakers and turns | |
| `RNNoiseLane` | `ExperimentalRNNoisePreprocessor.prepare` | |
| `AnnotationPack` | the maker of blind annotation packs | |
| `BenchmarkRun` | a benchmark against a locked corpus | `AnnotationIntake`, `KoreanBenchmark`, `Evaluation` |
| `RepeatedWorker` | the one-CPU benchmark | |
| `SpeechRegions` | regions of speech from frame probabilities | |
| `FrontEnd` | canonical audio, chunks, gain, windows of the VAD | |
| `SegmentationEvidence`, `EmbeddingBatches` | the two networks' windows and batches | |
| `Hypotheses` | one speaker or two: the H1/H2 fits, their evidence and the recent centroid | |
| `Evaluation`, `SttEvaluation`, `ProxyStability` | scores of turns and texts, audit of two timelines | |
| `Calibration`, `ModelPack`, `SttPack`, `Release`, `ReleaseCases` | who and what may be trusted; cases of packs and releases | |
| `Correction` | reviewers' corrections | |
| `Conformal`, `ConformalRescue`, `GraphRescue`, `Cascade` | the experiments | |
| `Algorithms` | all pure algorithms on inputs that grow piece by piece | the modules above |
| `MCTools` | the tools with steps, one per behaviour, and the cases they are checked on | the modules above |
| `MCJobWorker`, `MCOrchestrator`, `MCSequenceDecoder` | instances for TLC | the module they name |
| `JobWorkerProofs`, `OrchestratorProofs`, `SequenceDecoderProofs`, `WordPathProofs`, `RNNoiseLaneProofs`, `AnnotationPackProofs`, `BenchmarkRunProofs` | theorems | the module they name, TLAPS |
| `GateProofs` | theorems about what passes a gate | `RepeatedWorker`, `Calibration`, `Release`, `Conformal`, TLAPS |

### JobWorker

`jobFile` and `resultFile` are the two directories.  `proc[p]` is what a worker
process holds in memory: the statement it is at, the `LocalJob` it loaded and, in
the except branch, whether the exception is retryable.  Every call of
`service.atomic_publish` is one step, because `os.replace` is: a reader sees the
old file or the new one.  Between two such calls a process may crash
(`Crash`, memory is lost, files stay).  A write may fail: inside the try block of
`run` the OSError becomes the failure of the attempt (`WriteFailsInTry`), outside
it leaves the call and the file as it was (`WriteFailsOutside`).  `Interrupt` is a
KeyboardInterrupt between the handler's return and the end of the return statement,
where `except BaseException` catches it; an interrupt during the handler is one of
the failures `HandlerRaises` ranges over.  The handler is the caller's function;
only how it ends matters.

Assumptions, stated as ASSUME: `max_attempts >= 1` (the constructor checks it) and a
job identifier is used for one content (the code does not check it; reuse would
overwrite the older file).

### QualityGate and Orchestrator

One record `job[c]` per calling thread follows `process` from statement to statement
that reads or writes something shared: the process lock, the source file, the
canonical copy, the model and STT files, the decoder slot, the diarizer cache.
`setup` is how the objects were constructed.  Contents of files are versions:
`source` counts rewrites, `canonical[c]` is the version it was made from, or
`Damaged`.  The copy of a recording is taken block by block (`CopyBlock`): when the
recording is rewritten in between, the `snapshot` is `Torn`, a mixture of versions that the
second fstat must refuse (`CompareSource`).  A rewrite is one in place, which an open handle
sees; a program that renames a new file into place leaves the old one to the handle, as if
nothing had changed.  A diarizer records the model files its sessions were opened on.  Every `raise` goes through the `with` blocks
(`Leave`); the four classes that are re-raised and those that lead to the transcript
without speakers (`Recover`) are told apart, as is the order of the integrity
checks.  The numeric thresholds of the quality gate are reduced to the reasons they
yield; the order in which reasons are looked at is kept.

`SourceChanges`, `ModelFileChanges`, `SttFileChanges` and `CanonicalChanges` are the
environment: other programs, or a backend that writes to the file it was handed.
Two assumptions about it: a rewrite of the recording always shows in its size or
times, and a changed file does not return to its earlier content.

### SequenceDecoder

One file through `build_tracklets`, embedding, the decision, the Viterbi pass, the
repair and `_materialize`.  An infinite cost is a value of its own, `Infinity`, above
every number (`Plus`, `Less`); a number large enough for one configuration would not be
for another.  Times are multiples of 50 ms and costs multiples of
1/1200, so that every default of `DiarizationConfig` and the gap relief
`0.25 * gap / 1.5 s` are integers and no rounding is involved.  `cost` and `back`
are the tables `dp` and `back`, filled one tracklet per step (`Score`), read
backwards (`Trace`), and repaired in place from left to right (`Repair`).  A
tracklet's distances from the two fitted speakers are inputs.  The decision is an
input as well, restricted by the conditions on who is heard when: support in
several regions, alternation both ways, no change inside a region
(`MayConfirmTwo`).  Conditions on costs, stability and dispersion are left open, so
the model admits more decisions than the code and never fewer.

`build_tracklets` refuses overlap and speaker-change events, so no tracklet is
protected and no boundary has evidence; those branches are unreachable from the
pipeline and are left out.  So is the opt-in recent centroid.

### WordPath

One transcript, from the tokens of whisper.cpp (or words that the caller supplies) to
turns.  The text of a token is its position in the output, so a lost, doubled or
moved token shows; of its characters only white space at its ends and whether it is
punctuation are kept.  `ReadToken` is the first loop of `_timeline_from_json` with
its refusals, `JoinToken` the second, `Timed` the rule of `flush` for words without
duration.  `MapWord` is `map_word`; coverage is counted in units and compared with
percentages, where the code divides floating-point numbers (the sum of two rounded
ratios, unknown speech and silence, may differ from it at the limit).  A millisecond
has ten units instead of a thousand microseconds.  Only the labels of spans count: in
the pipeline a label determines which statuses it may have.

### RNNoiseLane

`lane[c]` is the statement a caller of `prepare` is at, `files[c]` its private
directory, a function from names to size and genuineness: a file is genuine when it is
the recording whose digest was asked for, a program of the digest asked for, or what
genuine programs make of the genuine recording.  `Work` tabulates the chain: which file
a statement makes of which, by a copy or by which program, what it drops and when the
workspace is audited.  `RunProgram` ranges over what a native process may do: end well,
with a spoilt output, with strays beside it, fail or exceed the deadline.
`RewriteSource` and `Replace` change files between any two statements; the gate
(`gate`) admits one caller.  Sizes follow the code's arithmetic, so `WorkspaceBytes` is
the very formula that the code tests against its limit.

### AnnotationPack and BenchmarkRun

A directory is a function from names to contents and a digest is the content itself.
`AnnotationPack` copies the inputs, chooses clips (a pass over the candidates in the
order of the code, an order given as pairs), cuts them, writes documents, seals, verifies what it
wrote and publishes; `RewriteInput`, `Occupy` and `Tamper` act between any two steps,
and `Stop` is an exception anywhere.  `BenchmarkRun` reads every file as often as the
code does: once to validate, again to load with digests, then judges what it holds.
`Swap` replaces a file between two reads.  A span of a reference or of a system's answer
begins before it ends, and a manifest row counts one or two speakers: the constructors
and the parsers refuse anything else.  A label is a pseudonym or one of three kinds of what is
not, which intake and the loader treat differently (`Opaque`, `LabelsFit`); the bootstrap is
the work it is asked for (`BootstrapWork`).

### RepeatedWorker

What a process holds is a number of pages, a time a number of ticks.  Each source of a
reading (own RSS, process tree, shared, control group, peak; three counters) may become
unreadable, grow or start again between two looks (`Trouble`).  The gates and their
order are the code's.

### The pure algorithms

They are operators over sets and sequences, without variables; `Algorithms` lets an
input arrive piece by piece under one setting and states, of every input on the way, a
property that does not look like the code: a definition without a scan, an enumeration,
or that two ways of cutting, ordering or naming the same input agree.  Floating-point
quantities are integers or fractions.  In `Hypotheses` a vector is in the plane, of length 400, and every
ratio a part of 400, rounded down; `Cfg` in `Algorithms` holds the defaults of
`DiarizationConfig` in these units (clean speech in halves of a second).  Rounding moves a decision
only where a cost gain is within a part of the threshold: of 1,305 of the inputs the run
visits, the code itself decides 16 otherwise (four anchors whose gain is 0.0197 where 0.02 is
wanted), and its labels are the same everywhere.  What nothing reads (`recent_mass`,
`recent_last_us`, reason codes) is left out.  Signatures are values `Signed(d, key)` that
nobody can make for another document; digests are the contents.

## 3. Runs

| Run | Question | Bounds | States |
|---|---|---|---|
| `job_worker` | safety and progress of one worker's store; does it implement `JobLedger`? | 1 process, 3 submissions (2 of one content), 2 attempts, 5 runs; one crash, one failed write, no interrupt | 8,026 |
| `job_worker_shared` | what holds of a store that processes share | 2 processes, 2 submissions of one content, 2 attempts, 3 runs; one crash, one failed write, one interrupt | 1,808,939 |
| `job_retry_bound` | are attempts bounded by `max_attempts`? (no) | 1 submission, 1 crash | counterexample |
| `job_interrupt` | is a success kept? (no) | 1 submission, 1 interrupt | counterexample |
| `orchestrator` | safety of `process` | 2 threads on one object, 1 call each, 3 configurations, one rewrite of the source, the model, STT and canonical files may change at any step | 1,531,136 |
| `orchestrator_live` | every call returns | 2 threads, on one object or on two, built-in backend and local STT | 48,277 |
| `orchestrator_retry` | is a transient failure retried? (no) | 2 threads on two objects | counterexample |
| `sequence_decoder` | labels and timeline | 5 recordings of up to 5 tracklets, 3 distances or none per tracklet, all decisions, hard and soft emissions | 135,006 |
| `decoder_kept` | are valid assignments kept? (no) | 1 recording of 5 turns | counterexample |
| `offline_tools` | words, lane, packs, corpus and worker benchmarks | up to 3 tokens; 2 callers and 1 replaced file; 13 frames, 3 clip lengths, 1 disturbance; 3 recordings, 2 replaced files; 6 plans, 2 troubles | 524,488 |
| `algorithms` | every pure algorithm against what it is for | see below | 225,249 |
| `canonical_audio` | does resampling stay between samples? (no) | 4 samples | counterexample |

Why these bounds are enough.  *Worker*: the store relates at most two jobs (by their
key), so three submissions with one shared key show every pairing; two attempts
tell the first from the last; `MaxRuns` = 5 exceeds `MaxAttempts` + crashes + failed
writes = 4, so the bound on runs never stops a job before the code does.  Two processes
show every interleaving of two copies of one job, and three runs let one be started behind
a finished one.  They may be interrupted; `job_worker` is without interrupts because
`ImplementsLedger` is false with one (finding 2).
*Orchestrator*: the locks relate two callers; contents only need one change, since
a changed file does not come back.  The proofs lift both to any number.
*Decoder*: five tracklets are the fewest with two anchors of each speaker and a
turn among them; the recordings hold a region that is cut twice, a short turn
between pauses longer than the reset, a medium turn, a file of short speech, and
silence.  Distances include one at the ceiling (0.35) and a margin below the
minimum.
*Words* (`MaxTokens`): three tokens are the fewest with white space of its own between
two texts and with a widened word on either side; the spans give shares of exactly 20
and 80 percent, an overlap of one unit, and pauses at and beyond the longest in a turn.
*Lane* (`MaxChanges`): a recording of two network frames that the workspace has room
for, and one that it just has not.  One change anywhere suffices, since the
lane remembers nothing of an earlier change; the proof lifts it.
*Packs* (`MaxDisturbances`): 13 frames hold a uniform, a boundary and a stress clip with
one choice to spare, and too few for one of the lengths.
*Corpus* (`MaxSwaps`): two replacements are the fewest that let a file be other at its
second read and itself again at a third.
*Worker benchmark* (`MaxTroubles`): two readings that change tell a counter that is
reset from one that is lost.

Inputs of `algorithms`: 6 frames of speech; 4 samples in blocks of 1 to 3; 15 samples of
three network windows; 3 regions; 9 turns of two speakers and one more; 3 spans against 4
timelines; 6 units of text; 3 changes of a calibration, 2 of a model pack, of a release
and of a second recogniser's pack; 3 corrections; 3 blocks of 3 directions, 6 tracks; 5
nodes; 4 segments; 4 anchors in 6 kinds (a voice, less clear, drifting; another, also in
mid-block; one that cancels out the first).  They include ties, vectors that cancel out, regions that touch, gains
that are negative and limits that are met and exceeded by one.

Runs do not look for deadlock: a worker with nothing to do, a thread that has made
its calls, a file that is decoded and a tool that is done really stop.

### Properties

* `SucceededHasResult`: nobody sees SUCCEEDED without its result file, however many processes
  share the store.
* `OneJobPerKey`: submit is idempotent (one process).
* `AttemptsPaidFor`: attempts exceed `max_attempts` only by crashes and failed writes.
* `RetriesEnd`: a job that is run again and again reaches a final status.
* `ImplementsLedger`: outcomes are final, results change only while a job is open.
* `Exclusive`, `NothingLeftBehind`: jobs of one object never overlap, one decoder at
  a time; however a call ends, its temporary audio, lock and slot are gone.
* `ResultFaithful`: the speakers come from the audio whose digest the result bears,
  which is one version of the source and no mixture, although the recording may be
  rewritten between two blocks of the copy.
* `AuthorityEarned`: release authority is claimed only for sessions opened on
  verified files, although these are hashed first and opened later.
* `NamesOnlyForReview`: a result does carry speakers, words assigned to them and
  participants, for a reviewer.  It carries them only when speakers were heard in the audio
  that it names, marks them REVIEW_REQUIRED in a speaker-neutral transcript, and whatever
  mode is requested the summary policy uses none of them.
* `FallbackNamesNobody`: the transcript kept after a failed diarization claims nothing.
* `CallsReturn`: every call ends.
* `TrackletsTileSpeech`: no speech is lost, doubled or invented by cutting.
* `LabelsAreCheapest`: the labelling found is cheapest of all labellings (compared
  with an enumeration), and ties at the end go to UNKNOWN.
* `NobodyForced`: a label is a speaker only where that speaker's own gate is passed.
* `IslandsWithheld`: what one pass of the repair guarantees, and the one case it leaves.
* `TimelineFaithful`: spans cover what they should, in order, merged exactly where
  neighbours agree.
* `TextKept`: the tokens that hold text reach the turns, once and in order.
* `SplitAtSpaces`: where words end, said of pairs of tokens.
* `RefusedOnlyWhenWidened`: the word provider refuses words of the local decoder only
  because of the microsecond given to a word without duration.
* `NamesByEvidence`: which words bear a speaker's name, by counting instants.
* `TurnsPartition`: turns are the longest runs of words alike, and disjoint in time.
* `ReceiptTrue`: a waveform with a receipt was made of the recording asked for by the
  genuine programs in order, whatever was replaced meanwhile.
* `WorkspaceBounded`: a directory never holds more than the lane reckoned with before
  it began.
* `LaneClean`: one caller has audio on disk at a time, and who is out holds none.
* `AcceptedIsSound`, `PublishedOnce`: a published pack is of one recording, tells
  annotators nothing of what kind a clip is, repeats what it says it repeats, and
  replaces nothing.
* `RefusedForCause`: a pack, a benchmark or a worker run that is refused has a reason
  that lies in its inputs or in a disturbance.
* `ScoredIsDeclared`: what a benchmark scores are the bytes that the lock and the
  manifests declare, complete, in scope and of the split asked for, whatever was
  replaced between two reads.
* `PassIsWarranted`: a PASS of the worker benchmark was warranted by memory, growth and
  throttling as far as any source could be read.
* `RegionsFollowEvidence`: speech regions defined by runs of frames, without a scan.
* `BlocksDoNotShow`: resampling, gain, windows and regions are those of the whole file.
* `EvidenceIsStable`: names of a window, alignment and company in a batch do not show;
  windows leave out no sample.  (How strong a change is depends on its place in a window, and
  no property says by how much.)  One voice is never counted as two; two clear voices are confirmed exactly when both come back in
  separate blocks, and then every anchor has the label of its voice; a recent centroid
  stays by the stable one and never outvotes it.
* `ScoresAreTrue`: error times counted tick by tick, under the best of all mappings; edit
  distances against all alignments; the audit of two timelines likewise.
* `AuthorityIsEarned`: no PASS without a signed document for this very runtime, no trust
  in a pack or release but for what is there (tampering with any file of it is seen), no
  name changed but where a reviewer said so, and no second recogniser but the one that
  was verified.
* `ConformalIsFair`: a speaker's own blocks are turned away no more often than epsilon
  allows; batches, runs and fragments do not show.
* `GraphRescueStands`: a rescued tracklet keeps its name without any one block.
* `OracleIsOptimal`: both solvers find the one best selection, and more budget never
  costs errors.

The two type invariants that runs check (`JobWorker!TypeOK`, `Orchestrator!TypeOK`) are
there because the proofs use them.

### Fairness

`Progress` (worker) and `Fairness` (orchestrator) say that a call that has begun goes
on to its next statement: the thread is scheduled, handlers and native processes
end (the decoder has a timeout).  Nobody has to call anything, and crashes,
failures and file changes are never forced.  `Rerun` is the outer policy to which
SDD 11.2 leaves retries; without it no job is ever run twice.  Python's lock is not
first-come-first-served; `CallsReturn` is checked with one call per thread, where a
waiting thread cannot be overtaken for ever, so weak fairness is enough.  With
unboundedly many calls a thread could starve, and the code does nothing against it.
The tools need no fairness: their properties are about safety, and each call is a finite
sequence of statements without a retry.

## 4. Proofs

**JobWorkerProofs**, for any number of processes, submissions and failures:
`TypeCorrect` and `ResultBeforeSuccess`.  `SucceededHasResult` is not inductive: the
step that stores SUCCEEDED must know that the result is on disk.  `Holding(p)` adds
what a process at each statement holds: a copy with the key of its job, attempts
within range, and at the write of SUCCEEDED a result file.

The second half of the module is about one process and any number of everything else:
`SubmitIdempotent`, `AttemptsBounded` and the refinement `StoreImplementsLedger`.  The
invariant `OwnerInv` says that the copy in memory is what the disk says (`Current`)
and that a job which may still be run has an attempt left to spend (`Budget`).  The
refinement goes action by action: submit maps to Accept, the two writes of a run
to Publish and Succeed, the except branch to Fail or to a stutter.  It assumes that
nobody interrupts (`MaxInterrupts = 0`); with an interrupt it is false, see
finding 2.  With two processes both `OneJobPerKey` and the refinement are false:
submit looks and saves in two steps and run acts on a copy, and the store has no
lock.  Neither the code nor the SDD says how processes would share a store, so the
theorems state the assumption: one worker process at a time.  The first half needs no such
assumption, and the run `job_worker_shared` shows it with two processes.

**OrchestratorProofs**, for any number of threads, objects and configurations:
`TypeCorrect`, `MutualExclusion`, `CleanExit`, `Faithful`, `Authority`, `UnderReview`,
`FallbackSilent`; and `ReviewAlways`, that the gate ends in REVIEW_REQUIRED for every
input.  The invariant has three parts.  `Held`: locks, slots and copies belong to
whoever is inside.  `Sessioned`: sessions opened on a changed file imply that the
file has changed.  `Progressing`: the canonical copy is what was hashed or is
damaged and stays so, what a backend saw is one or the other, and from assembly on
the result is `Sound`.  While the recording is copied it says that
the version seen before the copy is no newer than the source and that, if the source is still
that version, every block was of it; hence what `CompareSource` lets pass is not `Torn`.  The last integrity check turns `Sound` into `Final`: had the
model file changed before the sessions were opened, it would still differ.

**RNNoiseLaneProofs**, for any number of callers, lengths and replaced files:
`DirectoriesFollow`, `ReceiptsAreTrue` and `LaneIsClean`.  Neither of the last two is
inductive: that a finished waveform is genuine depends on every file it was made of and
on the programs that ran.  `LaneInv` says for each statement what lies in a caller's
directory (`DirectoryOK`: the programs, what was made and not yet dropped, and which
programs ran in which order), that all of it is of the size and origin it should be
(`DataOK`), that the documents were looked at (`DocumentsOK`) and that the gate is held
by whoever is inside (`GateOK`).  A step is proved once for any entry of `Work`
(`MadeOK`, `TidyOK`), with facts about the table itself in `WorkFacts`.
`WorkspaceIsBounded` adds the sizes of the private programs (`SizesInv`): while a
statement is at work its files are among six pairs or triples (`TogetherFacts`), each of
which the estimate covers (`Estimates`); an exception leaves the directory as it is.

**SequenceDecoderProofs**, for recordings of any length, configurations and distances:
`DecoderInvariant` and, from it, `SpeechIsTiled`, `ViterbiIsOptimal`, `GatesHold`,
`RepairIsEnough` and `TimelineIsFaithful`.  `ScoresOK` says of every column of the forward
pass that a label costs what the label its pointer names makes it cost, and that no other
predecessor is cheaper.  That the path read back is a cheapest labelling of the whole file
follows by induction over the tracklets, and needs that `Plus` is monotone, infinity
included.  `TraceOK`: the labels follow the pointers from a cheapest one.  `EligibleOK`:
no label costs infinity, and the repair takes none up; without it `GatesHold` would be
lost at the repair.  `RepairOK`: what the repair has passed is no island, but for the case
`IslandsWithheld` names.  The timeline is a lemma about `Materialized`.

**WordPathProofs**, for outputs, word lists and diarizations of any length: `WordInvariant`
and, from it, `TextReachesTurns`, `WordsEndAtSpaces`, `OnlyWidenedIsRefused`,
`NamesAreEarned` and `TurnsAreAPartition`.  Its parts are predicates of values.  `Orderly`
is what the reader let through.  `Joined` is the invariant of the loop that joins: the
words made so far *with the word at work flushed* hold every text up to the position
reached, in order, and split where white space says so; and `pending` tells whether white
space was seen since the last text, which decides about the next.  Each word is what its
tokens make it (`Made`), so a refusal of the provider leads back to two words of which
`Timed` widened one (`NextWord`).  `CoverageIsShare`: the sum over spans in `map_word` is
the number of units the label has in the word, by induction over the spans.
`MapWordClaims` then compares six ways out of `map_word` with one condition; that two
speakers cannot both dominate rests on the assumption that the dominant share is a
majority (`WordAssumption`): `WordMappingConfig` checks nothing, but the pipeline only
ever uses its defaults (20, 80 and 20 %).
`Grouped` is the loop of `_build_turns`.

**AnnotationPackProofs**, for any number of builders, any inputs, clip lengths and
disturbances: `PackInvariant`, `PackPublishedOnce`, `PackAcceptedIsSound` and
`PackRefusesForCause`.  `PackInv`
says what the private copies and the staging directory hold at each statement
(`CopiesOK`, `ClipsOK`, `DocumentsOK`).  From the manifest on it speaks of the manifest
alone: its clips were picked for what it names as their timing and cut from what it names
as their source (`GoodManifest`), which stays true whatever becomes of the inputs and the
target.  `TargetOK` ties what lies at the output path to one builder.  That a selection is
disjoint and of the listed kinds is a lemma about the pass over the candidates.
`PackRefusesForCause` needs a second invariant on top (`PackCauses`): which documents are
there at each statement and that each is made of those before it (`FilesOK`, `Drafted`).
It rests on two facts about the operators.  Whenever disjoint clips of the two kinds
exist, some attempt finds them (`ChoicesExist`): the starts computed from times and events
are exactly those whose clip has a point or an event (`BoundaryIs`, `StressIs`), and taking
boundary starts that are no stress starts first leaves enough of the latter (`RareLeaves`).
And what a builder seals is what verify_pack accepts (`OwnVerified`): on a grid whose step
is a whole number of microseconds, times are multiples of one number, so the sum over
clips is the time of the frames they cover (`SpentIs`, `CoveredIs`), and quotas and
repeated clips are counted by bijections (`QuotaHolds`, `AuditsHold`).  The attempt showed
what the model had left out: a marked event ends after it begins, without which one that
covers no frame would belong to no start and yet overlap a clip; and that 128 unlucky
draws leave the decision to the rarest-first choice alone, which may refuse although a
draw could have succeeded (`Stuck`; the theorem says that it never does).

**BenchmarkRunProofs**, for any corpus and any number of replaced files:
`BenchmarkInvariant`, `BenchmarkScoresDeclared` and `BenchmarkRefusesForCause`.  `BenchmarkInv` says, read by read,
which relation holds between what is in memory and what the lock and the manifests
declare, never between memory and disk, which may have changed.  The attempt to prove it
failed twice for a good reason: the model had left out that a manifest row counts one or
two speakers and that a span begins before it ends, both of which the code checks
(`evaluation.py:93`, `evaluation.py:108`).  `BenchmarkRefusesForCause` is about the corpus
that nobody touches.  `LeftAloneOK` says that memory then agrees with what is on disk, read
by read (`Listed`, `Predicted`), and that no statement has found anything
(`Untroubled`); each read of a blameless corpus then succeeds (`AloneReads`, `AloneLoads`,
`AloneGuesses`, `AloneJudges`).  Here too the attempt found what the model of a blameless
corpus had left out: a recording has one channel, the split that is asked for has a row,
and the names of the splits are those of `_readiness`.

**GateProofs** is about four gates.  *The worker benchmark*, for any plan, limits and host:
`WorkerInvariant`, `WorkerPassesOnEvidence` and `WorkerRefusesForCause`.  `WorkerInv` says
of every record of which host it was taken and that no gate would refuse it (`Good`,
`NotWarm`), and counts the calls (`RunsOK`), so that a PASS can be taken back to each call.
Refusals need more: `Caused` says of each way to end what is then true of the host, and
`Quiet` what an undisturbed host, its counters and its records are like at each statement.
The worker and its helper, which start with six pages between them, must fit under the
cap (`MemoryCap >= 6`), or an undisturbed host would be refused, rightly.  *Calibration*:
`CalibrationAuthority` follows the tests of the verifier in their order; the first
failure decides (`FirstFailure`), so a binding without one has passed them all.
*Releases*: `DeliveryIsFixed` says that what the manifest pins leaves one delivery to
accept, whence `ChangesAreSeen` and `DeliveryIsWhole`; files called like the manifest are
excepted (`Named`), since `_inventory_issues` excepts that name in every directory
(`release.py:575`).  *The rank test*: `FewAreTurnedAway` counts.  All of a
speaker's blocks have one table of scores, whichever of them is the candidate
(`ScoresAreShared`), and of any numbers at most k have a rank of k or less.  It needs each
block to be comparable with the rest (`Comparable`); otherwise `_cosine_distance_ratio`
fails closed and no rank is formed.

**Induction over data** is done without an operator as parameter: every set of natural
numbers has a least member (`LeastNumber`, from well-foundedness in the library), hence
`Induction` (`Handed`), stated of a *set* of numbers; a recursive function is pinned down by a
lemma that one exists.  Operators that the library defines by folds, sorts or selections
(`FoldSet`, `FoldLeft`, `SortSeq`, `SelectSeq`) stay closed to the provers, so the modules
with theorems define what they need in first-order terms: `InOrder` for a sorted
sequence, `Used` for a sum over the names of a directory, `Compatible` for a pass.

**Only model-checked**: liveness (`RetriesEnd`, `CallsReturn`), which TLAPS does not do;
that the three parts of `RefusedForCause`, each a theorem, also hold side by side in
`MCTools`, whose steps are steps of one part; and the properties of `Algorithms`, whose
module reaches recursive operators and folds.  Of these, parts of `AuthorityIsEarned` (calibration, releases) and `ConformalIsFair`
(coverage) are theorems about the operators they use.

The proofs rest on the named ASSUMEs of the modules, which every run evaluates.

## 5. Findings

1. **Attempts are not bounded by `max_attempts`** (`worker.py:101`, run
   `job_retry_bound`).  After a crash the job is RUNNING, and `run` starts it again
   without a comparison.  A test name promises that the retry is bounded.
   `AttemptsPaidFor` is what does hold.
2. **An interrupt turns success into failure** (`worker.py:107`, run `job_interrupt`).
   The save of SUCCEEDED and the return are inside the try block.
3. **A busy or slow decoder and a full disk are never retried**
   (`production_orchestrator.py:322`, run `orchestrator_retry`), contrary to SDD 11.1:
   they arrive as contract errors.
4. **The sequence pass undoes valid assignments** (`diarization.py:825`, run
   `decoder_kept`), which a comment beside `unknown_cost` excludes: a turn between two
   turns of the other speaker costs two switches of 0.35 less the gap relief, but
   UNKNOWN costs 0.40 + 2 * 0.02.  The LocalOnnxDiarizer option
   `assignment_distance_limit` sets `unknown_cost` to the limit plus 0.05, with the
   same effect.
5. **Two full-scale negative samples at 8 kHz end the job**
   (`production_orchestrator.py:619`, run `canonical_audio`).  `_integer_average` rounds a
   negative total down twice: the average of two samples of -32768 is -32769, which does
   not fit in 16 bits, so that `struct.pack` refuses it and `prepare` fails.

Observed while modelling, without a run:

* With the defaults a MICRO tracklet keeps a speaker only at distances up to about
  0.06 after a short pause, and 0.02 after a long one, since UNKNOWN costs 0.02.
* SDD 8.7 gives a hard overlap infinite cost for everything but OVERLAP and lets ties
  go to OVERLAP; `_emission` leaves UNKNOWN finite and ties go to UNKNOWN.
  Unreachable while `build_tracklets` refuses overlap events.
* SDD 8.4 makes two speakers a candidate only when the fit meets its constraints;
  `evaluate_hypotheses` leaves that condition out, so that a cheap fit that may not be
  confirmed ends in UNCERTAIN_1_OR_2 where the document would look at H1.  SDD 8.5 ignores a
  recent centroid outside the radius where `maybe_update_recent` freezes the speaker for good.
* The label OTHER is unreachable: a confirmed hypothesis bears no third-speaker risk.
* `cli.py:72` calls `LocalJobStore(...).status`, which does not exist; `job status`
  always ends with exit code 2.
* `SummaryPolicyAdapter.decide` takes a mapping without a status for one that is not
  blocked.  Inside the pipeline the status is always there.
* A word of zero duration is widened by a microsecond.  When the next token begins at
  the same millisecond, or when the word stands at the end of the file behind one that
  ends there, the word provider refuses the whole transcript: a rounding of one
  token costs all of them (`RefusedOnlyWhenWidened` says that nothing else does).
* `WordMappingConfig.boundary_guard_us` is never read.  A word with less than a fifth
  of the other speaker is assigned.  SDD 8.8 forbids naming boundary words, and its
  pseudocode consults two guards (around overlap and around a change of speaker) that the
  code does not have; `NamesByEvidence` states what the code promises instead.
* `correction.apply_session_corrections` compares only bounds and speaker after its
  callback, so the callback may drop the HUMAN_CONFIRMED status, and it may add other
  named spans that overlap corrected ones.
* `verify_local_stt_pack` says that a group may contain several artifacts; the code wants
  exactly one for every required group.  Empty directories are no part of a digest, and
  an artifact may be the whole root.
* A directory on the way to an artifact that becomes a link after the verification of
  such a pack is not noticed, if the files it leads to are the same.
* A file called `release-manifest.json` at any depth of a release escapes inventory, hashes
  and SBOM; where the catalogue lists nothing, the target's own manifest, unsigned, is
  what counts, in production as well; signature gates look only at what the evidence says
  of itself.
* A model pack verified in development mode with a release signature and approval yields
  release trust; an entry of `target_matrix` that names nothing is met by every runtime.
* A legacy calibration matches a subset of the runtime's hashes where a strict one demands
  equality; it never authorises the gate.
* An annotation pack whose target is the canonical root itself passes
  `_canonical_output_target` and is always refused at sealing; a clip whose length is no
  whole number of microseconds may be refused by the pack's own check; a KeyboardInterrupt
  leaves the staging directory.
* Intake makes digests of RTTM and UEM, speaker groups and the recording optional, which the
  loader requires.  The comment at `evaluation_io.py:597` says that invalid reference data
  is never scored, but a label such as UNKNOWN_1, which intake refuses, is a pseudonym to the
  check of the bytes that are scored, which may have replaced those that intake read.
* The split guard of `evaluation.py` compares pairs and misses chains of them; the aggregated
  false-H2 ratio mixes two durations; the mapping of speakers is chosen on collared time.
* Conformal batches: a disabled batch beyond the limit yields one result less than its
  inputs, an enabled one a result for each of the first and one for the refusal; anchors are
  added up unrounded while the candidate is rounded; a centroid that cancels out without one
  block fails closed.
* `bm_rcm_integration` fails closed on a candidate below the minimum quality and on a group
  called like its own candidates.
* `silero_temporal`: the "hard" maximum and the exclusion of low-probability frames that
  comments promise do not hold for padding and for bridged frames.
* `iter_open_chunks` (`media.py:455`), which only a test calls, rounds the first target sample
  of a chunk down to a time before it; the source index is then negative and Python counts it
  from the chunk's end.  With 44.1 kHz and the default chunk, the fourth chunk begins with its
  last sample but one, where a docstring promises the nearest.  `BlocksDoNotShow` holds all
  other samples to their times.  A last chunk may be shorter than one output sample.
* Segmentation: the last samples of a window, fewer than a receptive field, belong to no
  frame; that names do not show rests on the required purity of at least a half.  In padded
  mode an embedding's padding shows which regions share its bucket.
* `run_repeated_worker`: growth compares the largest of whichever sources were readable, so a
  control group can mask growth of the process tree; missing throttle counters, or ones that
  start again, disable their gate even in target mode, and a reset shows only when the
  later value is lower.
* `proxy_stability`: if only one canonical speaker is heard, both speakers of the variant map
  to it, and retention at the centre may depend on which of two equal mappings is taken.

## 6. Not modelled, and what could follow

* ONNX, FBANK and embedding arithmetic: numerical, and inputs of the models here.
* RIFF, JSON, RTTM and UEM parsing, contracts, canonical serialisation, reports: conversions
  without protocol state; their rejections are the failures of the models.
* How a native process is confined (limits, environment, sessions): its outcomes are
  modelled, the operating system is not.
* The socket patching of the offline guard, `cli.py`, `nikl_adapter.py`, `benchmark.py`,
  `boundary_evidence.py`, development scripts and recorded experiments.
* The bootstrap of `evaluation.py`: random resampling, whose result is an estimate.
* A model pack that is rolled back to its verified content after a changed one was loaded
  (`production_orchestrator.py:1538`): the code looks at files and not at sessions, so it
  cannot notice; the models assume that a changed file stays changed.
* Normalisation of texts, rates and percentiles of `stt_evaluation.py`: formulas.

Open question: what a store shared by several processes should promise beyond
`SucceededHasResult`.
