----------------------------- MODULE Orchestrator -----------------------------
(***************************************************************************)
(* ProductionOrchestrator.process of src/sddiar/production_orchestrator.py *)
(* with the local STT adapter behind it.  Callers are threads; several may *)
(* share an orchestrator, whose process lock runs their jobs one by one,   *)
(* and all orchestrators of the process share the single decoder slot of   *)
(* whispercpp_backend._JOB_GATE.  Files change under a running job: the    *)
(* source recording, the model files, the STT files, and the canonical     *)
(* copy that the job hands to its backends.  The recording is rewritten in *)
(* place, also between two reads of one copy; one that is replaced by a    *)
(* rename leaves the open file alone.  A changed file never comes back to  *)
(* its earlier content.                                                    *)
(***************************************************************************)
EXTENDS Naturals, FiniteSets, Failures, QualityGate

CONSTANTS Callers,          \* threads that call process()
          Orchestrators,    \* ProductionOrchestrator objects
          Setups,           \* configurations to explore, see Setup
          Envelopes,        \* outcomes of diarization: [decision, speakers]
          Requests,         \* arguments callers pass, see Request
          Changing,         \* files that change under the jobs, see FileKinds
          MaxCalls,         \* bound: calls per caller
          MaxSourceChanges, \* bound: rewrites of the source recording
          Torn, Damaged,    \* contents: a mixed snapshot, an altered copy
          None

FileKinds == {"source", "model", "stt", "canonical"}
Backends == {"injected", "factory", "builtin"}
Packs == {"absent", "development", "release"}

\* How the orchestrators were constructed.  Without an injected diarizer the
\* constructor insists on a release-trusted pack.
Setup == [backend : Backends, pack : Packs, calibration : Calibrations,
          profileMatches : BOOLEAN, stt : BOOLEAN,
          enhancement : {"off", "missing", "hook"},
          uses : [Callers -> Orchestrators]]

\* Supplied words, participant bindings, quality evidence of a call.
Request == [supplied : BOOLEAN, bindings : BOOLEAN, evidence : Evidence]

ASSUME OrchestratorAssumption ==
    /\ Setups \subseteq Setup
    /\ \A s \in Setups : s.backend # "injected" => s.pack = "release"
    /\ Envelopes \subseteq [decision : Decisions, speakers : 0..2]
    /\ Requests \subseteq Request
    /\ Changing \subseteq FileKinds
    /\ MaxCalls \in Nat /\ MaxSourceChanges \in Nat
    /\ Torn # Damaged
    /\ {Torn, Damaged} \cap (0..MaxSourceChanges) = {}
    /\ None \notin Callers \cup {Torn, Damaged} \cup (0..MaxSourceChanges)

VARIABLES
    setup,      \* the configuration, fixed
    source,     \* content of the source recording, a version
    modelFile,  \* the VAD and embedding files of the model pack
    sttFile,    \* the engine and model files of the local STT
    canonical,  \* canonical[c]: content of the job's canonical.wav, or None
    lock,       \* lock[o]: the caller that holds _process_lock, or None
    gate,       \* the caller whose decoder runs, or None
    diarizer,   \* diarizer[o]: the cached diarizer, or None
    job,        \* job[c]: the call a caller is in
    outcome,    \* outcome[c]: what its last call returned or raised, or None
    calls       \* calls[c]: calls made

files == << source, modelFile, sttFile >>
locks == << lock, gate >>
vars == << setup, source, modelFile, sttFile, canonical, lock, gate, diarizer,
           job, outcome, calls >>

Contents == (0..MaxSourceChanges) \cup {Torn, Damaged}
Orch(c) == setup.uses[c]

-----------------------------------------------------------------------------
\* Mutant: the reason of the failure is stored as the decision.
NoEnvelope_ReasonAsDecision == [decision |-> "DIARIZATION_FAILED", speakers |-> 0]

\* The speaker claim of a job that has none.
NoEnvelope == [decision |-> "UNCERTAIN_1_OR_2", speakers |-> 0]

\* A call: where it is, what the caller passed, and what it found so far.
\* `before` is the fstat of the open source, `snapshot` what has been copied of it,
\* `digest` the hash of canonical.wav, `seen` the audio the diarizer read.
NoJob == [at |-> "idle", supplied |-> FALSE, bindings |-> FALSE,
          evidence |-> NoEvidence, before |-> None, snapshot |-> None,
          digest |-> None, words |-> FALSE, seen |-> None,
          envelope |-> NoEnvelope, wellFormed |-> TRUE, failed |-> FALSE,
          enhanced |-> FALSE, result |-> None]

Init ==
    /\ setup \in Setups
    /\ source = 0
    /\ modelFile = "verified"
    /\ sttFile = "verified"
    /\ canonical = [c \in Callers |-> None]
    /\ lock = [o \in Orchestrators |-> None]
    /\ gate = None
    /\ diarizer = [o \in Orchestrators |->
                     IF setup.backend = "injected" THEN "injected" ELSE None]
    /\ job = [c \in Callers |-> NoJob]
    /\ outcome = [c \in Callers |-> None]
    /\ calls = [c \in Callers |-> 0]

At(c, label) == job[c].at = label
Goto(c, label) == job' = [job EXCEPT ![c].at = label]
Raised(failure, cause) == [failure |-> failure, cause |-> cause]

\* An exception unwinds to the end of the with blocks.
Raise(c, failure, cause) ==
    job' = [job EXCEPT ![c].at = "leaving", ![c].result = Raised(failure, cause)]

\* _assert_model_pack_unchanged and _assert_canonical_unchanged.
PackChanged == setup.pack # "absent" /\ modelFile # "verified"
CanonicalChanged(c) == canonical[c] # job[c].digest

\* Mutants: one of the two checks is left out.
IntegrityFailure_CanonicalOnly(c) ==
    IF CanonicalChanged(c) THEN "ContractValidationError" ELSE None
IntegrityFailure_PackOnly(c) ==
    IF PackChanged THEN "ModelHashMismatch" ELSE None

\* Both checks in their order: the failure they raise, or None.
IntegrityFailure(c) ==
    IF CanonicalChanged(c) THEN "ContractValidationError"
    ELSE IF PackChanged THEN "ModelHashMismatch" ELSE None

-----------------------------------------------------------------------------
(* Entering: process() and the checks before the audio is opened. *)

Call(c) ==
    /\ At(c, "idle")
    /\ calls[c] < MaxCalls
    /\ calls' = [calls EXCEPT ![c] = @ + 1]
    /\ \E r \in Requests :
         job' = [job EXCEPT ![c] = [NoJob EXCEPT
                   !.at = "waiting", !.supplied = r.supplied,
                   !.bindings = r.bindings, !.evidence = r.evidence]]
    /\ outcome' = [outcome EXCEPT ![c] = None]
    /\ UNCHANGED << setup, files, canonical, locks, diarizer >>

\* Mutant: the job runs outside _process_lock.
Lock_Ignored(c) ==
    /\ At(c, "waiting")
    /\ lock' = [lock EXCEPT ![Orch(c)] = c]
    /\ Goto(c, "entered")
    /\ UNCHANGED << setup, files, canonical, gate, diarizer, outcome, calls >>

Lock(c) ==
    /\ At(c, "waiting")
    /\ lock[Orch(c)] = None
    /\ lock' = [lock EXCEPT ![Orch(c)] = c]
    /\ Goto(c, "entered")
    /\ UNCHANGED << setup, files, canonical, gate, diarizer, outcome, calls >>

Stay == UNCHANGED << setup, files, canonical, locks, diarizer, outcome, calls >>

\* Arguments of the wrong type are refused, then the model pack is examined.
Enter(c) ==
    /\ At(c, "entered")
    /\ \/ Raise(c, "ContractValidationError", "arguments")
       \/ IF PackChanged THEN Raise(c, "ModelHashMismatch", "pack")
                         ELSE Goto(c, "opening")
    /\ Stay

\* No temporary directory, or a source that is not a regular local file.
RejectSource(c) ==
    /\ At(c, "opening")
    /\ \/ Raise(c, "OSError", "storage")
       \/ \E failure \in {"ContractValidationError", "OfflinePolicyViolation"} :
            Raise(c, failure, "source")
    /\ Stay

\* _snapshot_source: the file is opened, its size and times are noted, and an empty
\* copy is created.
OpenSource(c) ==
    /\ At(c, "opening")
    /\ job' = [job EXCEPT ![c].at = "copying", ![c].before = source,
                          ![c].snapshot = None]
    /\ Stay

\* The open file is read block by block: a block read after a rewrite does not go
\* with the blocks before it.  Or the copy cannot be written.
CopyBlock(c) ==
    /\ At(c, "copying")
    /\ \/ job' = [job EXCEPT ![c].snapshot =
                      IF @ \in {None, source} THEN source ELSE Torn]
       \/ Raise(c, "ProductionOrchestrationError", "storage")
    /\ Stay

\* Mutant: the file is not looked at again after the last block.
CompareSource_Omitted(c) ==
    /\ At(c, "copying")
    /\ job[c].snapshot # None
    /\ Goto(c, "preparing")
    /\ Stay

\* After the last block, fstat again: a source rewritten meanwhile is refused.
CompareSource(c) ==
    /\ At(c, "copying")
    /\ job[c].snapshot # None
    /\ \/ IF source = job[c].before
            THEN Goto(c, "preparing")
            ELSE Raise(c, "ContractValidationError", "source")
       \/ Raise(c, "ProductionOrchestrationError", "storage")
    /\ Stay

\* Pcm16CanonicalAdapter.prepare: canonical.wav is written from the snapshot, which
\* nobody else is handed, and hashed; or the recording is refused.
PrepareCanonical(c) ==
    /\ At(c, "preparing")
    /\ \/ /\ canonical' = [canonical EXCEPT ![c] = job[c].snapshot]
          /\ job' = [job EXCEPT ![c].at = "transcript", ![c].digest = job[c].snapshot]
       \/ /\ Raise(c, "ProductionOrchestrationError", "audio")
          /\ UNCHANGED canonical
    /\ UNCHANGED << setup, files, locks, diarizer, outcome, calls >>

-----------------------------------------------------------------------------
(* The transcript: supplied words, none, or the local STT. *)

\* SuppliedWordTimelineProvider.words accepts the words or raises.
TakeWords(c) ==
    \/ job' = [job EXCEPT ![c].at = "checking", ![c].words = TRUE]
    \/ job' = [job EXCEPT ![c].at = "checking"]
    \/ Raise(c, "ContractValidationError", "words")

TranscriptSupplied(c) ==
    /\ At(c, "transcript")
    /\ job[c].supplied
    /\ TakeWords(c)
    /\ Stay

TranscriptNotConfigured(c) ==
    /\ At(c, "transcript")
    /\ ~job[c].supplied /\ ~setup.stt
    /\ Goto(c, "checking")
    /\ Stay

TranscriptLocal(c) ==
    /\ At(c, "transcript")
    /\ ~job[c].supplied /\ setup.stt
    /\ IF sttFile = "verified" THEN Goto(c, "queued")
                               ELSE Raise(c, "ModelHashMismatch", "stt")
    /\ Stay

EnterGate(c) ==
    /\ At(c, "queued")
    /\ gate = None
    /\ gate' = c
    /\ Goto(c, "decoding")
    /\ UNCHANGED << setup, files, canonical, lock, diarizer, outcome, calls >>

\* WhisperCppBusyError after queue_timeout_seconds.  The hash-verified wrapper
\* turns every failure of the engine into a ProductionOrchestrationError.
GateTimeout(c) ==
    /\ At(c, "queued")
    /\ gate # None
    /\ Raise(c, "ProductionOrchestrationError", "sttBusy")
    /\ Stay

\* The decoder ends: with words, with a failure or a timeout, out of memory.
Decode(c) ==
    /\ At(c, "decoding")
    /\ gate' = None
    /\ \/ Goto(c, "decoded")
       \/ \E cause \in {"sttFailed", "sttTimedOut"} :
            Raise(c, "ProductionOrchestrationError", cause)
       \/ Raise(c, "MemoryError", "stt")
    /\ UNCHANGED << setup, files, canonical, lock, diarizer, outcome, calls >>

VerifyTranscript(c) ==
    /\ At(c, "decoded")
    /\ IF sttFile = "verified" THEN TakeWords(c)
                               ELSE Raise(c, "ModelHashMismatch", "stt")
    /\ Stay

-----------------------------------------------------------------------------
(* Diarization. *)

CheckCanonical(c) ==
    /\ At(c, "checking")
    /\ IF CanonicalChanged(c) THEN Raise(c, "ContractValidationError", "canonical")
                              ELSE Goto(c, "building")
    /\ Stay

\* _get_diarizer: the cached one, or a new one under _diarizer_lock.
UseDiarizer(c) ==
    /\ At(c, "building")
    /\ diarizer[Orch(c)] # None
    /\ Goto(c, "diarizing")
    /\ Stay

\* LocalOnnxDiarizer first hashes the model files (a missing one is no mismatch);
\* an injected factory need not.
VerifyModel(c) ==
    /\ At(c, "building")
    /\ diarizer[Orch(c)] = None
    /\ IF setup.backend = "builtin" /\ modelFile # "verified"
         THEN Raise(c, "ModelHashMismatch", "model") \/ Goto(c, "recovering")
         ELSE Goto(c, "loading")
    /\ Stay

\* Then it opens its sessions on whatever the files hold by then, and the
\* orchestrator caches it for all later jobs; or the runtime refuses.
OpenSession(c) ==
    /\ At(c, "loading")
    /\ \/ /\ diarizer' = [diarizer EXCEPT ![Orch(c)] = modelFile]
          /\ Goto(c, "diarizing")
       \/ /\ Goto(c, "recovering")
          /\ UNCHANGED diarizer
    /\ UNCHANGED << setup, files, canonical, locks, outcome, calls >>

\* The diarizer reads canonical.wav and returns, well-formed or not, or raises.
Diarize(c) ==
    /\ At(c, "diarizing")
    /\ \/ \E envelope \in Envelopes, ok \in BOOLEAN :
            job' = [job EXCEPT ![c].at = "diarized", ![c].seen = canonical[c],
                               ![c].envelope = envelope, ![c].wellFormed = ok]
       \/ \E failure \in Fatal : Raise(c, failure, "diarizer")
       \/ Goto(c, "recovering")
    /\ Stay

\* Integrity comes before the result is looked at.  What breaks the contract is
\* refused; what cannot even be examined counts as a failed diarization.
CheckDiarization(c) ==
    /\ At(c, "diarized")
    /\ IF IntegrityFailure(c) # None
         THEN Raise(c, IntegrityFailure(c), "integrity")
       ELSE IF ~job[c].wellFormed
         THEN \/ Raise(c, "ContractValidationError", "envelope")
              \/ Goto(c, "recovering")
       ELSE \/ setup.enhancement = "off" /\ Goto(c, "assembling")
            \/ setup.enhancement = "hook" /\ Goto(c, "enhancing")
            \/ /\ setup.enhancement = "missing"
               /\ Raise(c, "ProductionOrchestrationError", "hook")
    /\ Stay

\* Mutant: what the diarizer had returned survives the failure.
Recover_KeepsEnvelope(c) ==
    /\ At(c, "recovering")
    /\ IF IntegrityFailure(c) # None
         THEN Raise(c, IntegrityFailure(c), "integrity")
         ELSE job' = [job EXCEPT ![c].at = "assembling", ![c].failed = TRUE]
    /\ Stay

\* After any other exception the transcript is kept, without speakers.
Recover(c) ==
    /\ At(c, "recovering")
    /\ IF IntegrityFailure(c) # None
         THEN Raise(c, IntegrityFailure(c), "integrity")
         ELSE job' = [job EXCEPT ![c].at = "assembling", ![c].failed = TRUE,
                                 ![c].seen = None, ![c].envelope = NoEnvelope]
    /\ Stay

Enhance(c) ==
    /\ At(c, "enhancing")
    /\ \/ \E envelope \in Envelopes, ok \in BOOLEAN :
            job' = [job EXCEPT ![c].at = "enhanced", ![c].enhanced = TRUE,
                               ![c].seen = canonical[c], ![c].envelope = envelope, ![c].wellFormed = ok]
       \/ \E failure \in {"ProductionOrchestrationError", "MemoryError"} :
            Raise(c, failure, "hook")
    /\ Stay

CheckEnhancement(c) ==
    /\ At(c, "enhanced")
    /\ IF ~job[c].wellFormed
         THEN Raise(c, "ContractValidationError", "envelope")
       ELSE IF CanonicalChanged(c)
         THEN Raise(c, "ContractValidationError", "canonical")
       ELSE Goto(c, "assembling")
    /\ Stay

-----------------------------------------------------------------------------
(* The result. *)

\* _has_release_model_authority: a trusted pack and the diarizer built from it.
ReleaseAuthority(c) ==
    /\ setup.pack = "release"
    /\ setup.backend = "builtin"
    /\ diarizer[Orch(c)] # None

\* The calibration agrees with a run whose model hashes it names.
CalibrationAgrees(c) == setup.profileMatches /\ ReleaseAuthority(c)

\* Participant bindings are looked at unless diarization failed; each must name
\* a speaker that is present.
Bindings(c) == job[c].bindings /\ ~job[c].failed

\* A speaker is assigned to words only where there are words and speakers.
MayAssign(c) == job[c].words /\ job[c].envelope.speakers > 0

Result(c, assigned) ==
    LET run == [authority |-> ReleaseAuthority(c), words |-> job[c].words,
                assigned |-> assigned, speakers |-> job[c].envelope.speakers,
                decision |-> job[c].envelope.decision,
                enhanced |-> job[c].enhanced, failed |-> job[c].failed,
                calibrated |-> setup.calibration # "none",
                profileMatches |-> setup.profileMatches]
        report == Quality(run, job[c].evidence, setup.calibration,
                          CalibrationAgrees(c))
    IN  [audio |-> job[c].digest,
         seen |-> job[c].seen,
         session |-> diarizer[Orch(c)],
         authority |-> ReleaseAuthority(c),
         calibrated |-> setup.calibration = "release" /\ CalibrationAgrees(c),
         failed |-> job[c].failed,
         speakers |-> job[c].envelope.speakers,
         assigned |-> assigned,
         bindings |-> Bindings(c),
         status |-> report.status,
         mode |-> report.mode,
         aware |-> report.mode = "SPEAKER_AWARE"]

Assemble(c) ==
    /\ At(c, "assembling")
    /\ \/ /\ Bindings(c) => job[c].envelope.speakers > 0
          /\ \E assigned \in {FALSE, MayAssign(c)} :
               job' = [job EXCEPT ![c].at = "finishing",
                                  ![c].result = Result(c, assigned)]
       \/ /\ Bindings(c)
          /\ Raise(c, "ContractValidationError", "bindings")
    /\ Stay

\* Serialisation is part of the transaction.
Finish(c) ==
    /\ At(c, "finishing")
    /\ \/ IF IntegrityFailure(c) # None
            THEN Raise(c, IntegrityFailure(c), "integrity")
            ELSE Goto(c, "leaving")
       \/ Raise(c, "ContractValidationError", "schema")
    /\ Stay

\* Mutant: an exception leaves the temporary directory and the lock behind.
Leave_OnlyOnReturn(c) ==
    /\ At(c, "leaving")
    /\ outcome' = [outcome EXCEPT ![c] = job[c].result]
    /\ job' = [job EXCEPT ![c] = NoJob]
    /\ IF "failure" \in DOMAIN job[c].result
         THEN UNCHANGED << canonical, lock >>
         ELSE /\ canonical' = [canonical EXCEPT ![c] = None]
              /\ lock' = [lock EXCEPT ![Orch(c)] = None]
    /\ UNCHANGED << setup, files, gate, diarizer, calls >>

\* The temporary directory is removed, the lock released, the caller resumes.
Leave(c) ==
    /\ At(c, "leaving")
    /\ outcome' = [outcome EXCEPT ![c] = job[c].result]
    /\ job' = [job EXCEPT ![c] = NoJob]
    /\ canonical' = [canonical EXCEPT ![c] = None]
    /\ lock' = [lock EXCEPT ![Orch(c)] = None]
    /\ UNCHANGED << setup, files, gate, diarizer, calls >>

-----------------------------------------------------------------------------
(* The files change. *)

SourceChanges ==
    /\ "source" \in Changing
    /\ source < MaxSourceChanges
    /\ source' = source + 1
    /\ UNCHANGED << setup, modelFile, sttFile, canonical, locks, diarizer, job,
                    outcome, calls >>

ModelFileChanges ==
    /\ "model" \in Changing
    /\ modelFile' = "changed"
    /\ UNCHANGED << setup, source, sttFile, canonical, locks, diarizer, job,
                    outcome, calls >>

SttFileChanges ==
    /\ "stt" \in Changing
    /\ sttFile' = "changed"
    /\ UNCHANGED << setup, source, modelFile, canonical, locks, diarizer, job,
                    outcome, calls >>

\* By a backend that was handed its path.
CanonicalChanges(c) ==
    /\ "canonical" \in Changing
    /\ canonical[c] # None
    /\ canonical' = [canonical EXCEPT ![c] = Damaged]
    /\ UNCHANGED << setup, files, locks, diarizer, job, outcome, calls >>

Step(c) ==
    \/ Lock(c) \/ Enter(c) \/ RejectSource(c) \/ OpenSource(c) \/ CopyBlock(c)
    \/ CompareSource(c) \/ PrepareCanonical(c)
    \/ TranscriptSupplied(c) \/ TranscriptNotConfigured(c) \/ TranscriptLocal(c)
    \/ EnterGate(c) \/ GateTimeout(c) \/ Decode(c) \/ VerifyTranscript(c)
    \/ CheckCanonical(c) \/ UseDiarizer(c) \/ VerifyModel(c) \/ OpenSession(c)
    \/ Diarize(c) \/ CheckDiarization(c) \/ Recover(c)
    \/ Enhance(c) \/ CheckEnhancement(c)
    \/ Assemble(c) \/ Finish(c) \/ Leave(c)

Environment ==
    \/ SourceChanges \/ ModelFileChanges \/ SttFileChanges
    \/ \E c \in Callers : CanonicalChanges(c)

Next == Environment \/ \E c \in Callers : Call(c) \/ Step(c)

Spec == Init /\ [][Next]_vars

\* A thread inside process() goes on; nobody has to call it.
Fairness == \A c \in Callers : WF_vars(Step(c))
FairSpec == Spec /\ Fairness

-----------------------------------------------------------------------------
(* Properties *)

Labels == {"idle", "waiting", "entered", "opening", "copying", "preparing",
           "transcript", "queued", "decoding", "decoded", "checking",
           "building", "loading", "diarizing", "diarized", "recovering",
           "enhancing", "enhanced", "assembling", "finishing", "leaving"}

Causes == {"arguments", "pack", "storage", "source", "audio", "words", "stt",
           "sttBusy", "sttFailed", "sttTimedOut", "canonical", "model",
           "diarizer", "integrity", "envelope", "hook", "bindings", "schema"}

Sessions == {None, "injected", "verified", "changed"}

Refusals == [failure : Failure, cause : Causes]
Results == [audio : Contents \cup {None}, seen : Contents \cup {None},
            session : Sessions, authority : BOOLEAN, calibrated : BOOLEAN,
            failed : BOOLEAN, speakers : 0..2, assigned : BOOLEAN,
            bindings : BOOLEAN, status : Statuses, mode : Modes, aware : BOOLEAN]

\* None is no value of the fields it is absent from.
ASSUME NoneAssumption ==
    /\ None \notin Results \cup Refusals
    /\ None \notin {"injected", "verified", "changed"} \cup Failure

Job == [at : Labels, supplied : BOOLEAN, bindings : BOOLEAN,
        evidence : Evidence, before : Contents \cup {None},
        snapshot : Contents \cup {None}, digest : Contents \cup {None},
        words : BOOLEAN, seen : Contents \cup {None},
        envelope : [decision : Decisions, speakers : 0..2],
        wellFormed : BOOLEAN, failed : BOOLEAN, enhanced : BOOLEAN,
        result : Refusals \cup Results \cup {None}]

\* Every variable holds what the code can put into it.
TypeOK ==
    /\ setup \in Setups
    /\ source \in 0..MaxSourceChanges
    /\ modelFile \in {"verified", "changed"}
    /\ sttFile \in {"verified", "changed"}
    /\ canonical \in [Callers -> Contents \cup {None}]
    /\ lock \in [Orchestrators -> Callers \cup {None}]
    /\ gate \in Callers \cup {None}
    /\ diarizer \in [Orchestrators -> Sessions]
    /\ job \in [Callers -> Job]
    /\ outcome \in [Callers -> Refusals \cup Results \cup {None}]
    /\ calls \in [Callers -> 0..MaxCalls]

Inside(c) == job[c].at \notin {"idle", "waiting"}
Returned(c) == outcome[c] \in Results
Raising(c) == outcome[c] \in Refusals

\* _process_lock and _JOB_GATE: the jobs of one orchestrator never overlap, and
\* the process never runs two decoders.
Exclusive ==
    /\ \A c \in Callers : Inside(c) => lock[Orch(c)] = c
    /\ \A c \in Callers : At(c, "decoding") => gate = c

\* Whichever way a call ended, its temporary audio is gone and it holds neither
\* the lock nor the decoder slot.
NothingLeftBehind ==
    \A c \in Callers : ~Inside(c) =>
        /\ canonical[c] = None
        /\ gate # c
        /\ \A o \in Orchestrators : lock[o] # c

\* The speakers of a returned result come from the audio whose digest it bears,
\* and that audio is one version of the source, not a mixture of blocks of two.
ResultFaithful ==
    \A c \in Callers : Returned(c) =>
        /\ outcome[c].audio \in 0..MaxSourceChanges
        /\ ~outcome[c].failed => outcome[c].seen = outcome[c].audio

\* A result that claims the authority of the release pack was computed by
\* sessions opened on the verified files, and only it can claim a calibration.
AuthorityEarned ==
    \A c \in Callers : Returned(c) =>
        /\ outcome[c].authority =>
              setup.pack = "release" /\ outcome[c].session = "verified"
        /\ outcome[c].calibrated => outcome[c].authority

\* A result may carry speakers in its spans, words, turns and bindings, but V1 has no
\* release evidence and they are there for review: each is a speaker of its spans,
\* heard in its own audio, and whatever evidence, calibration or enhancement is
\* offered, the status is REVIEW_REQUIRED, the speaker-aware transcript is empty
\* and no request makes the summary policy accept a speaker-aware summary.
NamesOnlyForReview ==
    \A c \in Callers : Returned(c) =>
        LET report == [status |-> outcome[c].status, mode |-> outcome[c].mode]
        IN  /\ outcome[c].assigned \/ outcome[c].bindings =>
                  outcome[c].speakers > 0 /\ outcome[c].seen = outcome[c].audio
            /\ outcome[c].status = "REVIEW_REQUIRED"
            /\ ~outcome[c].aware
            /\ \A requested \in Modes \cup {"AUTO"} :
                 Decide(report, requested) # "SPEAKER_AWARE"

\* The transcript published after a failed diarization makes no speaker claim:
\* no spans, no attributed word, no participant.
FallbackNamesNobody ==
    \A c \in Callers : Returned(c) /\ outcome[c].failed =>
        /\ outcome[c].seen = None
        /\ outcome[c].speakers = 0
        /\ ~outcome[c].assigned
        /\ ~outcome[c].bindings

\* Every call ends, also when the decoder slot is taken and orchestrators wait
\* for each other's jobs.
CallsReturn == \A c \in Callers : At(c, "waiting") ~> At(c, "idle")

\* SDD 11.1: a busy or slow STT and missing temporary storage are worth a retry.
TransientIsRetryable ==
    \A c \in Callers :
        Raising(c) /\ outcome[c].cause \in {"sttBusy", "sttTimedOut", "storage"}
          => ClassifyRetry(outcome[c].failure)
=============================================================================
