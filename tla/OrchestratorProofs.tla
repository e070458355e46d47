-------------------------- MODULE OrchestratorProofs --------------------------
(***************************************************************************)
(* The safety of ProductionOrchestrator.process for every number of        *)
(* callers, orchestrators and configurations: the invariants that MC runs  *)
(* check on small instances follow from one inductive invariant, IInv.     *)
(***************************************************************************)
EXTENDS Orchestrator, TLAPS

Versions == 0..MaxSourceChanges

-----------------------------------------------------------------------------
(* The quality gate. *)

\* Evidence that a caller hands in is always a reason for review.
LEMMA EvidenceIsReason == \A e : EvidenceReasons(e) # {}
  BY DEF EvidenceReasons

\* ProductionOrchestrator._quality ends in a review without speakers whatever
\* the run, the evidence and the calibration are: V1 releases nothing by itself.
THEOREM ReviewAlways ==
    ASSUME NEW run, NEW e, NEW calibration, NEW agrees
    PROVE  /\ Quality(run, e, calibration, agrees).status = "REVIEW_REQUIRED"
           /\ Quality(run, e, calibration, agrees).mode = "SPEAKER_NEUTRAL"
  <1> DEFINE d == [outOfProfile |-> FALSE,
                   reviews |-> ReviewReasons(run, e),
                   uncertain |-> run.decision = "UNCERTAIN_1_OR_2",
                   degrades |-> When(e.degrades, "Q_UNATTRIBUTED"),
                   highRules |-> e.high,
                   osd |-> e.osd]
             report == EvaluateFileQuality(d, calibration, agrees)
  <1>1. ReviewReasons(run, e) # {}
    BY EvidenceIsReason DEF ReviewReasons
  <1>2. \E reasons : report = Report("REVIEW_REQUIRED", "MANUAL_REVIEW", reasons)
    <2>1. d.outOfProfile = FALSE /\ d.reviews # {}
      BY <1>1
    <2> HIDE DEF d
    <2>2. QED
      BY <2>1 DEF EvaluateFileQuality
  <1>3. Quality(run, e, calibration, agrees)
          = IF report.status = "REVIEW_REQUIRED"
              THEN [report EXCEPT !.mode = "SPEAKER_NEUTRAL"] ELSE report
    BY DEF Quality
  <1> HIDE DEF report
  <1>4. PICK reasons : report = [status |-> "REVIEW_REQUIRED", mode |-> "MANUAL_REVIEW",
                                 reasons |-> reasons]
    BY <1>2 DEF Report
  <1>5. Quality(run, e, calibration, agrees)
          = [status |-> "REVIEW_REQUIRED", mode |-> "SPEAKER_NEUTRAL",
             reasons |-> reasons]
    BY <1>3, <1>4
  <1>6. QED
    BY <1>5

\* service.SummaryPolicyAdapter.decide refuses a speaker-aware summary of a
\* result under review and does not choose one.
LEMMA ReviewBlocksSummary ==
    ASSUME NEW report, report.status = "REVIEW_REQUIRED"
    PROVE  \A requested : Decide(report, requested) # "SPEAKER_AWARE"
  BY DEF Decide, Blocked

-----------------------------------------------------------------------------
(* Facts about the types. *)

LEMMA SetupFacts ==
    ASSUME TypeOK
    PROVE  /\ setup \in Setup
           /\ \A c \in Callers : Orch(c) \in Orchestrators
           /\ setup.profileMatches \in BOOLEAN
  BY OrchestratorAssumption DEF TypeOK, Setup, Orch

LEMMA ContentFacts ==
    /\ Damaged \notin Versions /\ None \notin Versions /\ Damaged # None
    /\ None \notin Callers
    /\ Versions \subseteq Contents
  BY OrchestratorAssumption DEF Versions, Contents

LEMMA NoJobType == NoJob \in Job
  BY DEF NoJob, Job, Labels, Evidence, NoEnvelope, Decisions

LEMMA LabelFacts == {"diarized", "enhanced", "assembling"} \subseteq Labels
  BY DEF Labels

\* A refusal is not a result.
LEMMA RefusalIsNoResult == \A r \in Refusals : r \notin Results
  <1>1. \A r \in Refusals : "audio" \notin DOMAIN r
    BY DEF Refusals
  <1>2. \A r \in Results : "audio" \in DOMAIN r
    BY DEF Results
  <1>3. QED
    BY <1>1, <1>2

\* Every exception the model raises is one of Failure.
LEMMA FatalIsFailure == Fatal \subseteq Failure
  BY DEF Fatal, Failure, Contract, ModelPack, Transient, Other

-----------------------------------------------------------------------------
(* The inductive invariant. *)

\* The locks: whoever is inside holds exactly the lock of its orchestrator, and
\* whoever decodes the decoder slot; audio exists only inside.
Held ==
    /\ Exclusive
    /\ \A c \in Callers, o \in Orchestrators :
         lock[o] = c => Inside(c) /\ o = Orch(c)
    /\ \A c \in Callers : gate = c => At(c, "decoding")
    /\ \A c \in Callers : ~Inside(c) => canonical[c] = None

\* The diarizers: one opened on a changed file means that the file has changed.
Sessioned ==
    \A o \in Orchestrators :
        /\ diarizer[o] = "changed" => modelFile = "changed"
        /\ diarizer[o] = "injected" => setup.backend = "injected"

\* What holds of a result from the moment it is assembled.
Sound(r) ==
    /\ r.audio \in Versions
    /\ ~r.failed => r.seen = r.audio
    /\ r.assigned \/ r.bindings => r.speakers > 0
    /\ r.failed => r.seen = None /\ r.speakers = 0 /\ ~r.assigned /\ ~r.bindings
    /\ r.authority => setup.pack = "release" /\ r.session \in {"verified", "changed"}
    /\ r.calibrated => r.authority
    /\ r.status = "REVIEW_REQUIRED"
    /\ ~r.aware

\* What holds of it once the last integrity check has passed.
Final(r) ==
    /\ Sound(r)
    /\ r.authority => r.session = "verified"

Fetched == {"transcript", "queued", "decoding", "decoded", "checking",
            "building", "loading", "diarizing", "diarized", "recovering",
            "enhancing", "enhanced", "assembling"}

\* A call at each of its stages: while the source has the version it was opened
\* with, what is copied is of that version; the canonical copy bears its digest until it is damaged,
\* and then stays damaged; the audio a backend saw is one or the other.
Progressing(c) ==
    /\ At(c, "copying") =>
         /\ job[c].before \in 0..source
         /\ job[c].snapshot # None /\ job[c].before = source
              => job[c].snapshot = source
    /\ At(c, "preparing") => job[c].snapshot \in Versions
    /\ job[c].at \in Fetched =>
         /\ job[c].digest \in Versions
         /\ canonical[c] \in {job[c].digest, Damaged}
    /\ job[c].at \in {"diarized", "enhanced"} =>
         /\ job[c].seen \in {job[c].digest, Damaged}
         /\ job[c].seen = Damaged => canonical[c] = Damaged
    /\ job[c].failed => job[c].at \in {"assembling", "finishing", "leaving"}
    /\ At(c, "assembling") =>
         \/ ~job[c].failed /\ job[c].seen = job[c].digest
         \/ job[c].failed /\ job[c].seen = None /\ job[c].envelope.speakers = 0
    /\ At(c, "finishing") =>
         /\ Sound(job[c].result)
         /\ job[c].result.session = "changed" => modelFile = "changed"
         /\ job[c].result \in Results
    /\ At(c, "leaving") => /\ job[c].result \in Results => Final(job[c].result)
                           /\ job[c].result \in Results \cup Refusals
    /\ outcome[c] \in Results => Final(outcome[c])

IInv ==
    /\ TypeOK
    /\ Held
    /\ Sessioned
    /\ \A c \in Callers : Progressing(c)

LEMMA InitIInv == Init => IInv
  <1> SUFFICES ASSUME Init PROVE IInv
    OBVIOUS
  <1>1. \A c \in Callers : job[c] = NoJob /\ canonical[c] = None /\ outcome[c] = None
    BY DEF Init
  <1>2. None \notin Results
    BY NoneAssumption
  <1>3. TypeOK
    BY NoJobType, OrchestratorAssumption
       DEF Init, TypeOK, Sessions, Setup
  <1>4. Held
    BY <1>1, ContentFacts DEF Init, Held, Exclusive, Inside, At, NoJob
  <1>5. Sessioned
    BY NoneAssumption DEF Init, Sessioned
  <1>6. \A c \in Callers : Progressing(c)
    BY <1>1, <1>2 DEF Progressing, At, NoJob, Fetched
  <1>7. QED
    BY <1>3, <1>4, <1>5, <1>6 DEF IInv

-----------------------------------------------------------------------------
(* Steps of one caller that only move its own job. *)

\* The other callers are not disturbed.
LEMMA OthersProgress ==
    ASSUME IInv, NEW c \in Callers, NEW d \in Callers, d # c,
           job'[d] = job[d], canonical'[d] = canonical[d],
           outcome'[d] = outcome[d], UNCHANGED << setup, source, modelFile >>
    PROVE  Progressing(d)'
  BY DEF IInv, Progressing, At, Sound, Final

\* Inside its orchestrator, outside the decoder.
Free(label) == label \in Labels \ {"idle", "waiting", "decoding"}

LEMMA StayStep ==
    ASSUME IInv, NEW c \in Callers, NEW r \in Job, Stay,
           job' = [job EXCEPT ![c] = r],
           Free(job[c].at), Free(r.at), Progressing(c)'
    PROVE  IInv'
  <1>1. \A d \in Callers : job'[d] = IF d = c THEN r ELSE job[d]
    BY DEF IInv, TypeOK
  <1>2. UNCHANGED << setup, source, modelFile, sttFile, canonical, lock, gate,
                     diarizer, outcome, calls >>
    BY DEF Stay, files, locks
  <1>3. TypeOK'
    BY <1>2 DEF IInv, TypeOK
  <1>4. Held'
    BY <1>1, <1>2 DEF IInv, Held, Exclusive, Inside, At, Orch, Free
  <1>5. Sessioned'
    BY <1>2 DEF IInv, Sessioned
  <1>6. \A d \in Callers : Progressing(d)'
    <2>1. TAKE d \in Callers
    <2>2. CASE d = c
      BY <2>2
    <2>3. CASE d # c
      BY <1>1, <1>2, <2>3, OthersProgress
    <2>4. QED
      BY <2>2, <2>3
  <1>7. QED
    BY <1>3, <1>4, <1>5, <1>6 DEF IInv

\* The job after Goto and Raise.
LEMMA GotoJob ==
    ASSUME TypeOK, NEW c \in Callers, NEW label \in Labels, Goto(c, label)
    PROVE  \E r \in Job :
             /\ job' = [job EXCEPT ![c] = r] /\ job'[c] = r
             /\ r.at = label
             /\ r.snapshot = job[c].snapshot /\ r.digest = job[c].digest
             /\ r.seen = job[c].seen /\ r.envelope = job[c].envelope
             /\ r.failed = job[c].failed /\ r.result = job[c].result
  <1> DEFINE r == [job[c] EXCEPT !.at = label]
  <1>1. job[c] \in Job
    BY DEF TypeOK
  <1>2. job' = [job EXCEPT ![c] = r] /\ job'[c] = r
    BY DEF Goto, TypeOK
  <1>3. /\ r \in Job /\ r.at = label
        /\ r.snapshot = job[c].snapshot /\ r.digest = job[c].digest
        /\ r.seen = job[c].seen /\ r.envelope = job[c].envelope
        /\ r.failed = job[c].failed /\ r.result = job[c].result
    BY <1>1 DEF Job
  <1>4. QED
    BY <1>2, <1>3

LEMMA RaiseJob ==
    ASSUME TypeOK, NEW c \in Callers, NEW failure \in Failure, NEW cause \in Causes,
           Raise(c, failure, cause)
    PROVE  \E r \in Job :
             /\ job' = [job EXCEPT ![c] = r] /\ job'[c] = r
             /\ r.at = "leaving" /\ r.result \in Refusals
  <1> DEFINE r == [[job[c] EXCEPT !.at = "leaving"]
                     EXCEPT !.result = Raised(failure, cause)]
  <1>1. job[c] \in Job
    BY DEF TypeOK
  <1>2. job' = [job EXCEPT ![c] = r] /\ job'[c] = r
    BY DEF Raise, TypeOK
  <1>3. Raised(failure, cause) \in Refusals
    BY DEF Raised, Refusals
  <1>4. r \in Job /\ r.at = "leaving" /\ r.result = Raised(failure, cause)
    BY <1>1, <1>3 DEF Job, Labels
  <1>5. QED
    BY <1>2, <1>3, <1>4

\* Raising is always safe: what holds of a job that unwinds is only that it
\* has no result.
LEMMA RaiseStep ==
    ASSUME IInv, NEW c \in Callers, NEW failure \in Failure, NEW cause \in Causes,
           Raise(c, failure, cause), Stay, Free(job[c].at)
    PROVE  IInv'
  <1>1. PICK r \in Job : /\ job' = [job EXCEPT ![c] = r] /\ job'[c] = r
                         /\ r.at = "leaving" /\ r.result \in Refusals
    BY RaiseJob DEF IInv
  <1>2. UNCHANGED << outcome, setup >>
    BY DEF Stay
  <1>3. outcome[c] \in Results => Final(outcome[c])
    BY DEF IInv, Progressing
  <1>4. r.result \notin Results
    BY <1>1, RefusalIsNoResult
  <1>5. Progressing(c)'
    BY <1>1, <1>2, <1>3, <1>4 DEF Progressing, At, Fetched, Final, Sound
  <1>6. Free(r.at)
    BY <1>1 DEF Free, Labels
  <1>7. QED
    BY <1>1, <1>5, <1>6, StayStep

\* Going on to another stage is safe where the next stage asks for no more
\* than what is known.
LEMMA GotoStep ==
    ASSUME IInv, NEW c \in Callers, NEW label \in Labels,
           label \notin {"idle", "waiting", "copying", "decoding", "diarized",
                       "enhanced", "finishing", "leaving"},
           Goto(c, label), Stay, Free(job[c].at),
           job[c].at \notin {"assembling", "finishing", "leaving"},
           label = "preparing" => job[c].snapshot \in Versions,
           label \in Fetched => job[c].at \in Fetched,
           label = "assembling" => job[c].seen = job[c].digest
    PROVE  IInv'
  <1>1. PICK r \in Job : /\ job' = [job EXCEPT ![c] = r] /\ job'[c] = r
                         /\ r.at = label
                         /\ r.snapshot = job[c].snapshot /\ r.digest = job[c].digest
                         /\ r.seen = job[c].seen /\ r.failed = job[c].failed
    BY GotoJob DEF IInv
  <1>2. UNCHANGED << outcome, setup, canonical >>
    BY DEF Stay
  <1>3. /\ outcome[c] \in Results => Final(outcome[c])
        /\ ~job[c].failed
        /\ label \in Fetched => /\ job[c].digest \in Versions
                               /\ canonical[c] \in {job[c].digest, Damaged}
    BY DEF IInv, Progressing
  <1>4. Progressing(c)'
    BY <1>1, <1>2, <1>3 DEF Progressing, At, Final, Sound
  <1>5. Free(r.at)
    BY <1>1 DEF Free, Labels
  <1>6. QED
    BY <1>1, <1>4, <1>5, StayStep

\* The failures and causes that are raised.
LEMMA FailureFacts ==
    /\ {"ContractValidationError", "ModelHashMismatch", "OSError",
        "OfflinePolicyViolation", "ProductionOrchestrationError",
        "MemoryError"} \subseteq Failure
    /\ \A c : IntegrityFailure(c) # None => IntegrityFailure(c) \in Failure
    /\ \A c : IntegrityFailure(c) = None => ~CanonicalChanged(c) /\ ~PackChanged
  BY NoneAssumption
     DEF Failure, Contract, ModelPack, Transient, Other, IntegrityFailure

\* Everything up to the copy of the source.
LEMMA EnterIInv ==
    ASSUME IInv, NEW c \in Callers,
           Enter(c) \/ RejectSource(c) \/ OpenSource(c) \/ CompareSource(c)
    PROVE  IInv'
  <1>0. Stay /\ Free(job[c].at) /\ job[c].at \in {"entered", "opening", "copying"}
    BY DEF Enter, RejectSource, OpenSource, CompareSource, At, Free, Labels
  <1>1. ASSUME NEW failure \in Failure, NEW cause \in Causes, Raise(c, failure, cause)
        PROVE  IInv'
    BY <1>0, <1>1, RaiseStep
  <1>2. CASE Enter(c)
    <2>1. CASE Goto(c, "opening")
      BY <1>0, <2>1, GotoStep DEF Labels, Fetched
    <2>2. QED
      BY <1>1, <1>2, <2>1, FailureFacts DEF Enter, Causes
  <1>3. CASE RejectSource(c)
    BY <1>1, <1>3, FailureFacts DEF RejectSource, Causes
  <1>4. CASE OpenSource(c)
    <2> DEFINE r == [[[job[c] EXCEPT !.at = "copying"] EXCEPT !.before = source]
                       EXCEPT !.snapshot = None]
    <2>1. job[c] \in Job /\ source \in Versions /\ source \in Contents
      BY DEF IInv, TypeOK, Versions, Contents
    <2>2. job' = [job EXCEPT ![c] = r] /\ job'[c] = r
      BY <1>4 DEF OpenSource, IInv, TypeOK
    <2>3. /\ r \in Job /\ r.at = "copying" /\ r.before = source
          /\ r.failed = job[c].failed /\ r.snapshot = None
      BY <2>1 DEF Job, Labels
    <2>4. ~job[c].failed /\ (outcome[c] \in Results => Final(outcome[c]))
      BY <1>0 DEF IInv, Progressing
    <2>5. UNCHANGED << outcome, setup, source >>
      BY <1>0 DEF Stay, files
    <2> HIDE DEF r
    <2>6. Progressing(c)'
      <3>1. source \in 0..source
        BY <2>1, OrchestratorAssumption DEF Versions
      <3>2. QED
        BY <2>2, <2>3, <2>4, <2>5, <3>1 DEF Progressing, At, Fetched, Final, Sound
    <2>7. Free(r.at)
      BY <2>3 DEF Free, Labels
    <2>8. QED
      BY <1>0, <2>2, <2>3, <2>6, <2>7, StayStep
  <1>5. CASE CompareSource(c)
    <2>1. CASE source = job[c].before /\ Goto(c, "preparing")
      <3>1. job[c].snapshot \in Versions
        BY <1>5, <2>1 DEF CompareSource, At, IInv, Progressing, TypeOK, Versions
      <3>2. QED
        BY <1>0, <2>1, <3>1, GotoStep DEF Labels, Fetched
    <2>2. QED
      BY <1>1, <1>5, <2>1, FailureFacts DEF CompareSource, Causes
  <1>6. QED
    BY <1>2, <1>3, <1>4, <1>5

\* One more block of the source: the copy is of the version it was opened with, or
\* the source no longer is.
LEMMA CopyBlockIInv ==
    ASSUME IInv, NEW c \in Callers, CopyBlock(c)
    PROVE  IInv'
  <1>0. Stay /\ Free(job[c].at) /\ At(c, "copying")
    BY DEF CopyBlock, At, Free, Labels
  <1>1. CASE Raise(c, "ProductionOrchestrationError", "storage")
    BY <1>0, <1>1, RaiseStep, FailureFacts DEF Causes
  <1>2. CASE job' = [job EXCEPT ![c].snapshot =
                       IF @ \in {None, source} THEN source ELSE Torn]
    <2> DEFINE copied == IF job[c].snapshot \in {None, source} THEN source ELSE Torn
               r == [job[c] EXCEPT !.snapshot = copied]
    <2>1. job[c] \in Job /\ copied \in Contents
      BY DEF IInv, TypeOK, Contents
    <2>2. job' = [job EXCEPT ![c] = r] /\ job'[c] = r
      BY <1>2 DEF IInv, TypeOK
    <2>3. /\ r \in Job /\ r.at = "copying" /\ r.before = job[c].before
          /\ r.failed = job[c].failed /\ r.snapshot = copied
      BY <1>0, <2>1 DEF Job, Labels, At
    <2>4. /\ ~job[c].failed /\ (outcome[c] \in Results => Final(outcome[c]))
          /\ job[c].before \in 0..source
          /\ job[c].before = source => copied = source
      BY <1>0 DEF IInv, Progressing, At
    <2>5. UNCHANGED << outcome, setup, source >>
      BY <1>0 DEF Stay, files
    <2> HIDE DEF copied, r
    <2>6. Progressing(c)'
      BY <2>2, <2>3, <2>4, <2>5 DEF Progressing, At, Fetched, Final, Sound
    <2>7. Free(r.at)
      BY <2>3 DEF Free, Labels
    <2>8. QED
      BY <1>0, <2>2, <2>3, <2>6, <2>7, StayStep
  <1>3. QED
    BY <1>1, <1>2 DEF CopyBlock

\* The words, and the check that follows them.
LEMMA TranscriptIInv ==
    ASSUME IInv, NEW c \in Callers,
           \/ TranscriptSupplied(c) \/ TranscriptNotConfigured(c) \/ TranscriptLocal(c)
           \/ GateTimeout(c) \/ VerifyTranscript(c) \/ CheckCanonical(c)
    PROVE  IInv'
  <1>0. /\ Stay /\ Free(job[c].at) /\ job[c].at \in Fetched
        /\ job[c].at \in {"transcript", "queued", "decoded", "checking"}
    BY DEF TranscriptSupplied, TranscriptNotConfigured, TranscriptLocal, GateTimeout,
           VerifyTranscript, CheckCanonical, At, Free, Labels, Fetched
  <1>1. ASSUME NEW failure \in Failure, NEW cause \in Causes, Raise(c, failure, cause)
        PROVE  IInv'
    BY <1>0, <1>1, RaiseStep
  <1>2. ASSUME NEW label \in {"checking", "queued", "building"}, Goto(c, label)
        PROVE  IInv'
    BY <1>0, <1>2, GotoStep DEF Labels
  <1>3. ASSUME TakeWords(c) PROVE IInv'
    <2>1. CASE job' = [job EXCEPT ![c].at = "checking", ![c].words = TRUE]
      <3> DEFINE r == [[job[c] EXCEPT !.at = "checking"] EXCEPT !.words = TRUE]
      <3>1. job[c] \in Job
        BY DEF IInv, TypeOK
      <3>2. job' = [job EXCEPT ![c] = r] /\ job'[c] = r
        BY <2>1 DEF IInv, TypeOK
      <3>3. /\ r \in Job /\ r.at = "checking" /\ r.digest = job[c].digest
            /\ r.failed = job[c].failed
        BY <3>1 DEF Job, Labels
      <3>4. /\ ~job[c].failed /\ (outcome[c] \in Results => Final(outcome[c]))
            /\ job[c].digest \in Versions /\ canonical[c] \in {job[c].digest, Damaged}
        BY <1>0 DEF IInv, Progressing
      <3>5. UNCHANGED << outcome, setup, canonical >>
        BY <1>0 DEF Stay
      <3>6. Progressing(c)'
        BY <3>2, <3>3, <3>4, <3>5 DEF Progressing, At, Final, Sound
      <3>7. Free(r.at)
        BY <3>3 DEF Free, Labels
      <3>8. QED
        BY <1>0, <3>2, <3>3, <3>6, <3>7, StayStep
    <2>2. CASE job' = [job EXCEPT ![c].at = "checking"]
      BY <1>2, <2>2 DEF Goto
    <2>3. CASE Raise(c, "ContractValidationError", "words")
      BY <1>1, <2>3, FailureFacts DEF Causes
    <2>4. QED
      BY <1>3, <2>1, <2>2, <2>3 DEF TakeWords
  <1>4. QED
    BY <1>1, <1>2, <1>3, FailureFacts
       DEF TranscriptSupplied, TranscriptNotConfigured, TranscriptLocal, GateTimeout,
           VerifyTranscript, CheckCanonical, Causes
\* A backend has looked at canonical.wav: what it saw is the copy as it was.
LEMMA SeenStep ==
    ASSUME IInv, NEW c \in Callers, NEW r \in Job, Stay,
           Free(job[c].at), job[c].at \in Fetched, ~job[c].failed,
           job' = [job EXCEPT ![c] = r],
           r.at \in {"diarized", "enhanced"}, r.seen = canonical[c],
           r.digest = job[c].digest, ~r.failed
    PROVE  IInv'
  <1>1. /\ outcome[c] \in Results => Final(outcome[c])
        /\ job[c].digest \in Versions /\ canonical[c] \in {job[c].digest, Damaged}
    BY DEF IInv, Progressing
  <1>2. UNCHANGED << outcome, setup, canonical >>
    BY DEF Stay
  <1>3. job'[c] = r
    BY DEF IInv, TypeOK
  <1>4. Progressing(c)'
    BY <1>1, <1>2, <1>3 DEF Progressing, At, Final, Sound
  <1>5. Free(r.at)
    BY DEF Free, Labels
  <1>6. QED
    BY <1>4, <1>5, StayStep

LEMMA DiarizeIInv ==
    ASSUME IInv, NEW c \in Callers, Diarize(c) \/ Enhance(c)
    PROVE  IInv'
  <1>0. /\ Stay /\ Free(job[c].at) /\ job[c].at \in Fetched
        /\ job[c].at \in {"diarizing", "enhancing"}
    BY DEF Diarize, Enhance, At, Free, Labels, Fetched
  <1>1. ASSUME NEW failure \in Failure, NEW cause \in Causes, Raise(c, failure, cause)
        PROVE  IInv'
    BY <1>0, <1>1, RaiseStep
  <1>2. /\ ~job[c].failed /\ job[c].failed \in BOOLEAN /\ job[c] \in Job
        /\ canonical[c] \in Contents \cup {None}
    BY <1>0 DEF IInv, Progressing, TypeOK, Job
  <1>3. Envelopes \subseteq [decision : Decisions, speakers : 0..2]
    BY OrchestratorAssumption
  <1>4. CASE Diarize(c)
    <2>1. ASSUME NEW envelope \in Envelopes, NEW ok \in BOOLEAN,
                 job' = [job EXCEPT ![c].at = "diarized", ![c].seen = canonical[c],
                                    ![c].envelope = envelope, ![c].wellFormed = ok]
          PROVE  IInv'
      <3> DEFINE q == [[job[c] EXCEPT !.at = "diarized"] EXCEPT !.seen = canonical[c]]
                 r == [[q EXCEPT !.envelope = envelope] EXCEPT !.wellFormed = ok]
      <3>1. job' = [job EXCEPT ![c] = r]
        BY <2>1 DEF IInv, TypeOK
      <3>2. /\ q \in Job /\ q.at = "diarized" /\ q.seen = canonical[c]
            /\ q.digest = job[c].digest /\ q.failed = job[c].failed
        BY <1>2, LabelFacts DEF Job
      <3> HIDE DEF q
      <3>3. /\ r \in Job /\ r.at = "diarized" /\ r.seen = canonical[c]
            /\ r.digest = job[c].digest /\ r.failed = job[c].failed
        BY <1>3, <3>2 DEF Job
      <3>4. QED
        BY <1>0, <1>2, <3>1, <3>3, SeenStep
    <2>2. CASE Goto(c, "recovering")
      BY <1>0, <2>2, GotoStep DEF Labels
    <2>3. QED
      BY <1>1, <1>4, <2>1, <2>2, FatalIsFailure DEF Diarize, Causes
  <1>5. CASE Enhance(c)
    <2>1. ASSUME NEW envelope \in Envelopes, NEW ok \in BOOLEAN,
                 job' = [job EXCEPT ![c].at = "enhanced", ![c].enhanced = TRUE,
                                    ![c].seen = canonical[c], ![c].envelope = envelope,
                                    ![c].wellFormed = ok]
          PROVE  IInv'
      <3> DEFINE q == [[[job[c] EXCEPT !.at = "enhanced"] EXCEPT !.enhanced = TRUE]
                         EXCEPT !.seen = canonical[c]]
                 r == [[q EXCEPT !.envelope = envelope] EXCEPT !.wellFormed = ok]
      <3>1. job' = [job EXCEPT ![c] = r]
        BY <2>1 DEF IInv, TypeOK
      <3>2. /\ q \in Job /\ q.at = "enhanced" /\ q.seen = canonical[c]
            /\ q.digest = job[c].digest /\ q.failed = job[c].failed
        BY <1>2, LabelFacts DEF Job
      <3> HIDE DEF q
      <3>3. /\ r \in Job /\ r.at = "enhanced" /\ r.seen = canonical[c]
            /\ r.digest = job[c].digest /\ r.failed = job[c].failed
        BY <1>3, <3>2 DEF Job
      <3>4. QED
        BY <1>0, <1>2, <3>1, <3>3, SeenStep
    <2>2. QED
      BY <1>1, <1>5, <2>1, FailureFacts DEF Enhance, Causes
  <1>6. QED
    BY <1>4, <1>5

\* What was seen is the audio of the digest once the copy is found unchanged.
LEMMA SeenIsDigest ==
    ASSUME IInv, NEW c \in Callers, job[c].at \in {"diarized", "enhanced"},
           ~CanonicalChanged(c)
    PROVE  job[c].seen = job[c].digest
  BY ContentFacts DEF IInv, Progressing, CanonicalChanged, Fetched

LEMMA CheckIInv ==
    ASSUME IInv, NEW c \in Callers,
           \/ UseDiarizer(c) \/ VerifyModel(c)
           \/ CheckDiarization(c) \/ CheckEnhancement(c)
    PROVE  IInv'
  <1>0. /\ Stay /\ Free(job[c].at) /\ job[c].at \in Fetched
        /\ job[c].at \in {"building", "diarized", "enhanced"}
    BY DEF UseDiarizer, VerifyModel, CheckDiarization, CheckEnhancement, At, Free,
           Labels, Fetched
  <1>1. ASSUME NEW failure \in Failure, NEW cause \in Causes, Raise(c, failure, cause)
        PROVE  IInv'
    BY <1>0, <1>1, RaiseStep
  <1>2. ASSUME NEW label \in {"loading", "diarizing", "recovering", "enhancing"},
               Goto(c, label)
        PROVE  IInv'
    BY <1>0, <1>2, GotoStep DEF Labels
  <1>3. ASSUME ~CanonicalChanged(c), job[c].at \in {"diarized", "enhanced"},
               Goto(c, "assembling")
        PROVE  IInv'
    BY <1>0, <1>3, SeenIsDigest, GotoStep DEF Labels
  <1>4. CASE UseDiarizer(c) \/ VerifyModel(c)
    BY <1>1, <1>2, <1>4, FailureFacts DEF UseDiarizer, VerifyModel, Causes
  <1>5. CASE CheckDiarization(c)
    BY <1>1, <1>2, <1>3, <1>5, FailureFacts DEF CheckDiarization, Causes, At
  <1>6. CASE CheckEnhancement(c)
    BY <1>1, <1>3, <1>6, FailureFacts DEF CheckEnhancement, Causes, At
  <1>7. QED
    BY <1>4, <1>5, <1>6

LEMMA RecoverIInv ==
    ASSUME IInv, NEW c \in Callers, Recover(c)
    PROVE  IInv'
  <1>0. Stay /\ Free(job[c].at) /\ job[c].at = "recovering"
    BY DEF Recover, At, Free, Labels
  <1>1. CASE IntegrityFailure(c) # None
    BY <1>0, <1>1, RaiseStep, FailureFacts DEF Recover, Causes
  <1>2. CASE IntegrityFailure(c) = None
    <2> DEFINE q == [[job[c] EXCEPT !.at = "assembling"] EXCEPT !.failed = TRUE]
               r == [[q EXCEPT !.seen = None] EXCEPT !.envelope = NoEnvelope]
    <2>1. job[c] \in Job
      BY DEF IInv, TypeOK
    <2>2. job' = [job EXCEPT ![c] = r] /\ job'[c] = r
      BY <1>2 DEF Recover, IInv, TypeOK
    <2>a. /\ NoEnvelope \in [decision : Decisions, speakers : 0..2]
          /\ NoEnvelope.speakers = 0
      BY DEF NoEnvelope, Decisions
    <2>b. /\ q \in Job /\ q.at = "assembling" /\ q.failed = TRUE
          /\ q.digest = job[c].digest
      BY <2>1, LabelFacts DEF Job
    <2> HIDE DEF q
    <2>3. /\ r \in Job /\ r.at = "assembling" /\ r.failed = TRUE /\ r.seen = None
          /\ r.envelope = NoEnvelope /\ r.digest = job[c].digest
      BY <2>a, <2>b DEF Job
    <2>4. /\ outcome[c] \in Results => Final(outcome[c])
          /\ job[c].digest \in Versions /\ canonical[c] \in {job[c].digest, Damaged}
      BY <1>0 DEF IInv, Progressing, Fetched
    <2>5. UNCHANGED << outcome, setup, canonical >>
      BY <1>0 DEF Stay
    <2>6. Progressing(c)'
      BY <2>a, <2>2, <2>3, <2>4, <2>5 DEF Progressing, At, Final, Sound
    <2>7. Free(r.at)
      BY <2>3 DEF Free, Labels
    <2>8. QED
      BY <1>0, <2>2, <2>3, <2>6, <2>7, StayStep
  <1>3. QED
    BY <1>1, <1>2

-----------------------------------------------------------------------------
(* The result. *)

\* What is assembled is a result, and sound.
LEMMA ResultSound ==
    ASSUME IInv, NEW c \in Callers, At(c, "assembling"),
           Bindings(c) => job[c].envelope.speakers > 0,
           NEW assigned \in {FALSE, MayAssign(c)}
    PROVE  /\ Result(c, assigned) \in Results
           /\ Sound(Result(c, assigned))
           /\ Result(c, assigned).session = "changed" => modelFile = "changed"
  <1> DEFINE run == [authority |-> ReleaseAuthority(c), words |-> job[c].words,
                assigned |-> assigned, speakers |-> job[c].envelope.speakers,
                decision |-> job[c].envelope.decision,
                enhanced |-> job[c].enhanced, failed |-> job[c].failed,
                calibrated |-> setup.calibration # "none",
                profileMatches |-> setup.profileMatches]
             report == Quality(run, job[c].evidence, setup.calibration,
                               CalibrationAgrees(c))
             r == Result(c, assigned)
  <1>1. report.status = "REVIEW_REQUIRED" /\ report.mode = "SPEAKER_NEUTRAL"
    BY ReviewAlways
  <1> HIDE DEF run, report
  <1>2. r = [audio |-> job[c].digest, seen |-> job[c].seen,
             session |-> diarizer[Orch(c)], authority |-> ReleaseAuthority(c),
             calibrated |-> setup.calibration = "release" /\ CalibrationAgrees(c),
             failed |-> job[c].failed, speakers |-> job[c].envelope.speakers,
             assigned |-> assigned, bindings |-> Bindings(c),
             status |-> report.status, mode |-> report.mode,
             aware |-> report.mode = "SPEAKER_AWARE"]
    BY DEF Result, run, report
  <1> HIDE DEF r
  <1>3. job[c] \in Job /\ diarizer[Orch(c)] \in Sessions
    BY SetupFacts DEF IInv, TypeOK
  <1>4. assigned \in BOOLEAN /\ (assigned => job[c].envelope.speakers > 0)
    BY DEF MayAssign
  <1>5. ReleaseAuthority(c) \in BOOLEAN /\ Bindings(c) \in BOOLEAN
        /\ (setup.calibration = "release" /\ CalibrationAgrees(c)) \in BOOLEAN
    BY DEF ReleaseAuthority, Bindings
  <1>6. r \in Results
    BY <1>1, <1>2, <1>3, <1>4, <1>5 DEF Results, Job, Statuses, Modes
  <1>7. Sessioned /\ Orch(c) \in Orchestrators
    BY SetupFacts DEF IInv
  <1>8. ReleaseAuthority(c) => /\ setup.pack = "release"
                              /\ diarizer[Orch(c)] \in {"verified", "changed"}
    BY <1>3, <1>7 DEF ReleaseAuthority, Sessioned, Sessions
  <1>9. CalibrationAgrees(c) => ReleaseAuthority(c)
    BY DEF CalibrationAgrees
  <1>10. /\ job[c].digest \in Versions
         /\ \/ ~job[c].failed /\ job[c].seen = job[c].digest
            \/ job[c].failed /\ job[c].seen = None /\ job[c].envelope.speakers = 0
    BY DEF IInv, Progressing, At, Fetched
  <1>11. job[c].failed => ~Bindings(c) /\ ~assigned
    BY <1>4, <1>10 DEF Bindings
  <1>12. Sound(r)
    BY <1>1, <1>2, <1>4, <1>8, <1>9, <1>10, <1>11 DEF Sound
  <1>13. r.session = "changed" => modelFile = "changed"
    BY <1>2, <1>7 DEF Sessioned
  <1>14. QED
    BY <1>6, <1>12, <1>13 DEF r

LEMMA AssembleIInv ==
    ASSUME IInv, NEW c \in Callers, Assemble(c)
    PROVE  IInv'
  <1>0. Stay /\ Free(job[c].at) /\ At(c, "assembling")
    BY DEF Assemble, At, Free, Labels
  <1>1. CASE Raise(c, "ContractValidationError", "bindings")
    BY <1>0, <1>1, RaiseStep, FailureFacts DEF Causes
  <1>2. ASSUME Bindings(c) => job[c].envelope.speakers > 0,
               NEW assigned \in {FALSE, MayAssign(c)},
               job' = [job EXCEPT ![c].at = "finishing", ![c].result = Result(c, assigned)]
        PROVE  IInv'
    <2> DEFINE result == Result(c, assigned)
    <2> DEFINE r == [[job[c] EXCEPT !.at = "finishing"] EXCEPT !.result = result]
    <2>1. /\ result \in Results /\ Sound(result)
          /\ result.session = "changed" => modelFile = "changed"
      BY <1>0, <1>2, ResultSound
    <2> HIDE DEF result
    <2>2. job[c] \in Job
      BY DEF IInv, TypeOK
    <2>3. job' = [job EXCEPT ![c] = r] /\ job'[c] = r
      BY <1>2 DEF IInv, TypeOK, result
    <2>4. r \in Job /\ r.at = "finishing" /\ r.result = result
      BY <2>1, <2>2 DEF Job, Labels
    <2>5. outcome[c] \in Results => Final(outcome[c])
      BY DEF IInv, Progressing
    <2>6. UNCHANGED << outcome, setup, modelFile >>
      BY <1>0 DEF Stay, files
    <2> HIDE DEF r
    <2>7. Progressing(c)'
      BY <2>1, <2>3, <2>4, <2>5, <2>6 DEF Progressing, At, Fetched, Final, Sound
    <2>8. Free(r.at)
      BY <2>4 DEF Free, Labels
    <2>9. QED
      BY <1>0, <2>3, <2>4, <2>7, <2>8, StayStep
  <1>3. QED
    BY <1>1, <1>2 DEF Assemble

\* The last integrity check makes a sound result final.
LEMMA FinishIInv ==
    ASSUME IInv, NEW c \in Callers, Finish(c)
    PROVE  IInv'
  <1>0. Stay /\ Free(job[c].at) /\ At(c, "finishing")
    BY DEF Finish, At, Free, Labels
  <1>1. ASSUME NEW failure \in Failure, NEW cause \in Causes, Raise(c, failure, cause)
        PROVE  IInv'
    BY <1>0, <1>1, RaiseStep
  <1>2. CASE IntegrityFailure(c) = None /\ Goto(c, "leaving")
    <2>1. PICK r \in Job : /\ job' = [job EXCEPT ![c] = r] /\ job'[c] = r
                           /\ r.at = "leaving" /\ r.result = job[c].result
      BY <1>2, GotoJob DEF IInv, Labels
    <2>2. /\ job[c].result \in Results /\ Sound(job[c].result)
          /\ job[c].result.session = "changed" => modelFile = "changed"
      BY <1>0 DEF IInv, Progressing
    <2>3. ~PackChanged
      BY <1>2, FailureFacts
    <2>4. Final(job[c].result)
      <3>1. setup.pack = "release" => modelFile = "verified"
        BY <2>3 DEF PackChanged
      <3>2. QED
        BY <2>2, <3>1 DEF Final, Sound
    <2>5. outcome[c] \in Results => Final(outcome[c])
      BY DEF IInv, Progressing
    <2>6. UNCHANGED << outcome, setup >>
      BY <1>0 DEF Stay
    <2>7. Progressing(c)'
      BY <2>1, <2>2, <2>4, <2>5, <2>6 DEF Progressing, At, Fetched, Final, Sound
    <2>8. Free(r.at)
      BY <2>1 DEF Free, Labels
    <2>9. QED
      BY <1>0, <2>1, <2>7, <2>8, StayStep
  <1>3. QED
    BY <1>1, <1>2, FailureFacts DEF Finish, Causes
-----------------------------------------------------------------------------
(* Steps that touch the locks, the files and the diarizers. *)

LEMMA CallIInv ==
    ASSUME IInv, NEW c \in Callers, Call(c)
    PROVE  IInv'
  <1>1. PICK q \in Requests :
          job' = [job EXCEPT ![c] = [NoJob EXCEPT
                   !.at = "waiting", !.supplied = q.supplied,
                   !.bindings = q.bindings, !.evidence = q.evidence]]
    BY DEF Call
  <1> DEFINE r == [NoJob EXCEPT !.at = "waiting", !.supplied = q.supplied,
                                !.bindings = q.bindings, !.evidence = q.evidence]
  <1>2. r \in Job /\ r.at = "waiting" /\ r.failed = FALSE
    <2>1. /\ q.supplied \in BOOLEAN /\ q.bindings \in BOOLEAN
          /\ q.evidence \in Evidence
      BY OrchestratorAssumption DEF Request
    <2>2. NoJob \in Job /\ NoJob.failed = FALSE
      BY NoJobType DEF NoJob
    <2> HIDE DEF NoJob
    <2>3. QED
      BY <2>1, <2>2 DEF Job, Labels
  <1> HIDE DEF r
  <1>3. /\ At(c, "idle")
        /\ \A d \in Callers : job'[d] = IF d = c THEN r ELSE job[d]
        /\ \A d \in Callers : outcome'[d] = IF d = c THEN None ELSE outcome[d]
        /\ UNCHANGED << setup, source, modelFile, sttFile, canonical, lock, gate,
                        diarizer >>
    BY <1>1 DEF Call, IInv, TypeOK, files, locks, r
  <1>4. TypeOK'
    <2>1. job' \in [Callers -> Job]
      BY <1>1, <1>2 DEF IInv, TypeOK, r
    <2>2. calls' \in [Callers -> 0..MaxCalls]
      <3>1. calls[c] \in 0..MaxCalls /\ calls[c] < MaxCalls /\ MaxCalls \in Nat
        BY OrchestratorAssumption DEF Call, IInv, TypeOK
      <3>2. calls[c] + 1 \in 0..MaxCalls
        BY <3>1
      <3>3. QED
        BY <3>2 DEF Call, IInv, TypeOK
    <2>3. outcome' \in [Callers -> Refusals \cup Results \cup {None}]
      BY DEF Call, IInv, TypeOK
    <2>4. QED
      BY <1>3, <2>1, <2>2, <2>3 DEF IInv, TypeOK
  <1>5. Held'
    BY <1>2, <1>3 DEF IInv, Held, Exclusive, Inside, At, Orch
  <1>6. Sessioned'
    BY <1>3 DEF IInv, Sessioned
  <1>7. \A d \in Callers : Progressing(d)'
    <2>1. TAKE d \in Callers
    <2>2. CASE d = c
      BY <2>2, <1>2, <1>3, NoneAssumption DEF Progressing, At, Fetched
    <2>3. CASE d # c
      BY <1>3, <2>3, OthersProgress
    <2>4. QED
      BY <2>2, <2>3
  <1>8. QED
    BY <1>4, <1>5, <1>6, <1>7 DEF IInv

\* A step that moves one job by Goto or Raise and changes no file it depends on
\* keeps what is known of every job.
LEMMA AllProgress ==
    ASSUME IInv, NEW c \in Callers, NEW r \in Job,
           job' = [job EXCEPT ![c] = r],
           UNCHANGED << setup, source, modelFile, canonical, outcome >>,
           Progressing(c)'
    PROVE  \A d \in Callers : Progressing(d)'
  <1>1. TAKE d \in Callers
  <1>2. CASE d = c
    BY <1>2
  <1>3. CASE d # c
    <2>1. job'[d] = job[d]
      BY <1>3 DEF IInv, TypeOK
    <2>2. QED
      BY <1>3, <2>1, OthersProgress
  <1>4. QED
    BY <1>2, <1>3

LEMMA LockIInv ==
    ASSUME IInv, NEW c \in Callers, Lock(c)
    PROVE  IInv'
  <1>1. PICK r \in Job : /\ job' = [job EXCEPT ![c] = r] /\ job'[c] = r
                         /\ r.at = "entered" /\ r.failed = job[c].failed
    BY GotoJob DEF Lock, IInv, Labels
  <1>2. /\ At(c, "waiting") /\ Orch(c) \in Orchestrators /\ lock[Orch(c)] = None
        /\ \A d \in Callers : job'[d] = IF d = c THEN r ELSE job[d]
        /\ \A o \in Orchestrators : lock'[o] = IF o = Orch(c) THEN c ELSE lock[o]
        /\ UNCHANGED << setup, source, modelFile, sttFile, canonical, gate,
                        diarizer, outcome, calls >>
    BY <1>1, SetupFacts DEF Lock, IInv, TypeOK, files
  <1>3. TypeOK'
    <2>1. lock' \in [Orchestrators -> Callers \cup {None}]
      BY DEF Lock, IInv, TypeOK
    <2>2. job' \in [Callers -> Job]
      BY <1>1 DEF IInv, TypeOK
    <2>3. QED
      BY <1>2, <2>1, <2>2 DEF IInv, TypeOK
  <1>4. Held'
    BY <1>1, <1>2, SetupFacts, ContentFacts DEF IInv, Held, Exclusive, Inside, At, Orch
  <1>5. Sessioned'
    BY <1>2 DEF IInv, Sessioned
  <1>6. Progressing(c)'
    BY <1>1, <1>2 DEF IInv, Progressing, At, Fetched, Final, Sound
  <1>7. QED
    BY <1>1, <1>2, <1>3, <1>4, <1>5, <1>6, AllProgress DEF IInv

LEMMA GateIInv ==
    ASSUME IInv, NEW c \in Callers, EnterGate(c) \/ Decode(c)
    PROVE  IInv'
  <1>1. PICK r \in Job : /\ job' = [job EXCEPT ![c] = r] /\ job'[c] = r
                         /\ \/ /\ r.at \in {"decoding", "decoded"}
                               /\ r.digest = job[c].digest /\ r.failed = job[c].failed
                            \/ r.at = "leaving" /\ r.result \in Refusals
                         /\ EnterGate(c) => r.at = "decoding"
                         /\ Decode(c) => r.at # "decoding"
    <2>1. CASE EnterGate(c)
      BY <2>1, GotoJob DEF EnterGate, Decode, At, IInv, Labels
    <2>2. CASE Decode(c)
      <3>1. CASE Goto(c, "decoded")
        BY <2>2, <3>1, GotoJob DEF EnterGate, Decode, At, IInv, Labels
      <3>2. CASE \E cause \in {"sttFailed", "sttTimedOut"} :
                   Raise(c, "ProductionOrchestrationError", cause)
        BY <2>2, <3>2, RaiseJob, FailureFacts DEF EnterGate, Decode, At, IInv, Causes
      <3>3. CASE Raise(c, "MemoryError", "stt")
        BY <2>2, <3>3, RaiseJob, FailureFacts DEF EnterGate, Decode, At, IInv, Causes
      <3>4. QED
        BY <2>2, <3>1, <3>2, <3>3 DEF Decode
    <2>3. QED
      BY <2>1, <2>2
  <1>2. /\ job[c].at \in {"queued", "decoding"}
        /\ \A d \in Callers : job'[d] = IF d = c THEN r ELSE job[d]
        /\ UNCHANGED << setup, source, modelFile, sttFile, canonical, lock,
                        diarizer, outcome, calls >>
    BY <1>1 DEF EnterGate, Decode, At, IInv, TypeOK, files
  <1>3. \/ gate = None /\ gate' = c /\ r.at = "decoding"
        \/ gate = c /\ gate' = None /\ r.at # "decoding"
    BY <1>1 DEF EnterGate, Decode, IInv, Held, Exclusive
  <1>4. TypeOK'
    BY <1>1, <1>2, <1>3 DEF IInv, TypeOK
  <1>5. Held'
    BY <1>1, <1>2, <1>3, ContentFacts DEF IInv, Held, Exclusive, Inside, At, Orch
  <1>6. Sessioned'
    BY <1>2 DEF IInv, Sessioned
  <1>7. Progressing(c)'
    <2>1. r.at = "leaving" => r.result \notin Results /\ r.result \in Refusals
      BY <1>1, RefusalIsNoResult
    <2>2. QED
      BY <1>1, <1>2, <2>1 DEF IInv, Progressing, At, Fetched, Final, Sound
  <1>8. QED
    BY <1>1, <1>2, <1>4, <1>5, <1>6, <1>7, AllProgress DEF IInv
LEMMA PrepareCanonicalIInv ==
    ASSUME IInv, NEW c \in Callers, PrepareCanonical(c)
    PROVE  IInv'
  <1>1. /\ At(c, "preparing") /\ job[c].snapshot \in Versions /\ ~job[c].failed
        /\ outcome[c] \in Results => Final(outcome[c])
    BY DEF PrepareCanonical, IInv, Progressing, At
  <1>2. UNCHANGED << setup, source, modelFile, sttFile, lock, gate, diarizer,
                     outcome, calls >>
    BY DEF PrepareCanonical, files, locks
  <1>3. CASE Raise(c, "ProductionOrchestrationError", "audio") /\ UNCHANGED canonical
    <2>1. Stay /\ Free(job[c].at)
      BY <1>1, <1>2, <1>3 DEF Stay, files, locks, Free, Labels, At
    <2>2. QED
      BY <1>3, <2>1, RaiseStep, FailureFacts DEF Causes
  <1>4. CASE /\ canonical' = [canonical EXCEPT ![c] = job[c].snapshot]
             /\ job' = [job EXCEPT ![c].at = "transcript", ![c].digest = job[c].snapshot]
    <2> DEFINE r == [[job[c] EXCEPT !.at = "transcript"] EXCEPT !.digest = job[c].snapshot]
    <2>1. job[c] \in Job
      BY DEF IInv, TypeOK
    <2>2. r \in Job /\ r.at = "transcript" /\ r.digest = job[c].snapshot
          /\ r.failed = job[c].failed
      BY <2>1 DEF Job, Labels
    <2>3. job' = [job EXCEPT ![c] = r]
      BY <1>4 DEF IInv, TypeOK
    <2> HIDE DEF r
    <2>4. /\ \A d \in Callers : job'[d] = IF d = c THEN r ELSE job[d]
          /\ \A d \in Callers : canonical'[d] = IF d = c THEN job[c].snapshot
                                                          ELSE canonical[d]
      BY <1>4, <2>3 DEF IInv, TypeOK
    <2>5. TypeOK'
      <3>1. canonical' \in [Callers -> Contents \cup {None}]
        BY <1>1, <1>4, ContentFacts DEF IInv, TypeOK
      <3>2. job' \in [Callers -> Job]
        BY <2>2, <2>3 DEF IInv, TypeOK
      <3>3. QED
        BY <1>2, <3>1, <3>2 DEF IInv, TypeOK
    <2>6. Held'
      BY <1>1, <1>2, <2>2, <2>4 DEF IInv, Held, Exclusive, Inside, At, Orch
    <2>7. Sessioned'
      BY <1>2 DEF IInv, Sessioned
    <2>8. \A d \in Callers : Progressing(d)'
      <3>1. TAKE d \in Callers
      <3>2. CASE d = c
        BY <1>1, <1>2, <2>2, <2>4, <3>2 DEF Progressing, At, Final, Sound
      <3>3. CASE d # c
        BY <1>2, <2>4, <3>3, OthersProgress
      <3>4. QED
        BY <3>2, <3>3
    <2>9. QED
      BY <2>5, <2>6, <2>7, <2>8 DEF IInv
  <1>5. QED
    BY <1>3, <1>4 DEF PrepareCanonical

LEMMA OpenSessionIInv ==
    ASSUME IInv, NEW c \in Callers, OpenSession(c)
    PROVE  IInv'
  <1>1. PICK label \in {"diarizing", "recovering"} :
           /\ Goto(c, label)
           /\ \/ diarizer' = [diarizer EXCEPT ![Orch(c)] = modelFile]
              \/ UNCHANGED diarizer
    BY DEF OpenSession
  <1>2. PICK r \in Job : /\ job' = [job EXCEPT ![c] = r] /\ job'[c] = r
                         /\ r.at = label
                         /\ r.digest = job[c].digest /\ r.failed = job[c].failed
    BY <1>1, GotoJob DEF IInv, Labels
  <1>3. /\ At(c, "loading")
        /\ \A d \in Callers : job'[d] = IF d = c THEN r ELSE job[d]
        /\ UNCHANGED << setup, source, modelFile, sttFile, canonical, lock, gate,
                        outcome, calls >>
    BY <1>2 DEF OpenSession, IInv, TypeOK, files, locks
  <1>4. TypeOK'
    <2>1. diarizer' \in [Orchestrators -> Sessions]
      BY <1>1 DEF IInv, TypeOK, Sessions
    <2>2. job' \in [Callers -> Job]
      BY <1>2 DEF IInv, TypeOK
    <2>3. QED
      BY <1>3, <2>1, <2>2 DEF IInv, TypeOK
  <1>5. Held'
    BY <1>2, <1>3 DEF IInv, Held, Exclusive, Inside, At, Orch
  <1>6. Sessioned'
    BY <1>1, <1>3 DEF IInv, Sessioned, TypeOK
  <1>7. Progressing(c)'
    BY <1>1, <1>2, <1>3 DEF IInv, Progressing, At, Fetched, Final, Sound
  <1>8. QED
    BY <1>2, <1>3, <1>4, <1>5, <1>6, <1>7, AllProgress DEF IInv

LEMMA LeaveIInv ==
    ASSUME IInv, NEW c \in Callers, Leave(c)
    PROVE  IInv'
  <1>1. /\ At(c, "leaving") /\ Orch(c) \in Orchestrators
        /\ job[c].result \in Results => Final(job[c].result)
        /\ job[c].result \in Results \cup Refusals
    BY SetupFacts DEF Leave, IInv, Progressing
  <1>2. /\ \A d \in Callers : job'[d] = IF d = c THEN NoJob ELSE job[d]
        /\ \A d \in Callers : outcome'[d] = IF d = c THEN job[c].result ELSE outcome[d]
        /\ \A d \in Callers : canonical'[d] = IF d = c THEN None ELSE canonical[d]
        /\ \A o \in Orchestrators : lock'[o] = IF o = Orch(c) THEN None ELSE lock[o]
        /\ UNCHANGED << setup, source, modelFile, sttFile, gate, diarizer, calls >>
    BY DEF Leave, IInv, TypeOK, files
  <1>3. NoJob.at = "idle" /\ NoJob.failed = FALSE
    BY DEF NoJob
  <1>4. TypeOK'
    <2>1. job' \in [Callers -> Job]
      BY NoJobType DEF Leave, IInv, TypeOK
    <2>2. /\ outcome' \in [Callers -> Refusals \cup Results \cup {None}]
          /\ canonical' \in [Callers -> Contents \cup {None}]
          /\ lock' \in [Orchestrators -> Callers \cup {None}]
      BY <1>1 DEF Leave, IInv, TypeOK
    <2>3. QED
      BY <1>2, <2>1, <2>2 DEF IInv, TypeOK
  <1>5. Held'
    <2>1. \A d \in Callers : Inside(d)' <=> Inside(d) /\ d # c
      BY <1>1, <1>2, <1>3 DEF Inside, At
    <2>2. \A d \in Callers : At(d, "decoding")' <=> At(d, "decoding")
      BY <1>1, <1>2, <1>3 DEF At
    <2>3. \A d \in Callers : Orch(d)' = Orch(d)
      BY <1>2 DEF Orch
    <2>4. \A d \in Callers : Inside(d) /\ d # c => Orch(d) # Orch(c)
      BY <1>1 DEF IInv, Held, Exclusive, Inside, At
    <2>5. QED
      BY <1>1, <1>2, <2>1, <2>2, <2>3, <2>4, SetupFacts, ContentFacts
         DEF IInv, Held, Exclusive
  <1>6. Sessioned'
    BY <1>2 DEF IInv, Sessioned
  <1>7. \A d \in Callers : Progressing(d)'
    <2>1. TAKE d \in Callers
    <2>2. CASE d = c
      BY <1>1, <1>2, <1>3, <2>2 DEF Progressing, At, Fetched, Final, Sound
    <2>3. CASE d # c
      BY <1>2, <2>3, OthersProgress
    <2>4. QED
      BY <2>2, <2>3
  <1>8. QED
    BY <1>4, <1>5, <1>6, <1>7 DEF IInv

\* The files change under the jobs.
LEMMA EnvironmentIInv ==
    ASSUME IInv, Environment
    PROVE  IInv'
  <1>1. UNCHANGED << setup, lock, gate, diarizer, job, outcome, calls >>
    BY DEF Environment, SourceChanges, ModelFileChanges, SttFileChanges,
           CanonicalChanges, files, locks
  <1>2. modelFile' = modelFile \/ modelFile' = "changed"
    BY DEF Environment, SourceChanges, ModelFileChanges, SttFileChanges,
           CanonicalChanges, files
  <1>3. \A c \in Callers : \/ canonical'[c] = canonical[c]
                           \/ canonical[c] # None /\ canonical'[c] = Damaged
    BY DEF Environment, SourceChanges, ModelFileChanges, SttFileChanges,
           CanonicalChanges, IInv, TypeOK
  <1>4. TypeOK'
    <2>1. source' \in 0..MaxSourceChanges
      BY OrchestratorAssumption
         DEF Environment, SourceChanges, ModelFileChanges, SttFileChanges,
             CanonicalChanges, IInv, TypeOK, files
    <2>2. sttFile' \in {"verified", "changed"}
      BY DEF Environment, SourceChanges, ModelFileChanges, SttFileChanges,
             CanonicalChanges, IInv, TypeOK, files
    <2>3. canonical' \in [Callers -> Contents \cup {None}]
      BY DEF Environment, SourceChanges, ModelFileChanges, SttFileChanges,
             CanonicalChanges, IInv, TypeOK, files, Contents
    <2>4. QED
      BY <1>1, <1>2, <2>1, <2>2, <2>3 DEF IInv, TypeOK
  <1>5. Held'
    BY <1>1, <1>3 DEF IInv, Held, Exclusive, Inside, At, Orch
  <1>6. Sessioned'
    BY <1>1, <1>2 DEF IInv, Sessioned
  <1>7. \A c \in Callers : Progressing(c)'
    <2>1. source \in Nat /\ (source' = source \/ source' = source + 1)
      BY OrchestratorAssumption
         DEF Environment, SourceChanges, ModelFileChanges, SttFileChanges,
             CanonicalChanges, IInv, TypeOK, files
    <2>2. \A v \in 0..source : v \in 0..source' /\ (v = source' => source' = source)
      BY <2>1
    <2>3. QED
      BY <1>1, <1>2, <1>3, <2>2 DEF IInv, Progressing, At, Final, Sound
  <1>8. QED
    BY <1>4, <1>5, <1>6, <1>7 DEF IInv

LEMMA NextIInv == IInv /\ [Next]_vars => IInv'
  <1> SUFFICES ASSUME IInv, [Next]_vars PROVE IInv'
    OBVIOUS
  <1>1. CASE Environment
    BY <1>1, EnvironmentIInv
  <1>2. ASSUME NEW c \in Callers, Call(c) \/ Step(c) PROVE IInv'
    BY <1>2, CallIInv, LockIInv, EnterIInv, CopyBlockIInv, PrepareCanonicalIInv, TranscriptIInv,
       GateIInv, CheckIInv, OpenSessionIInv, DiarizeIInv, RecoverIInv, AssembleIInv,
       FinishIInv, LeaveIInv DEF Step
  <1>3. CASE UNCHANGED vars
    <2>1. UNCHANGED << setup, source, modelFile, sttFile, canonical, lock, gate,
                       diarizer, job, outcome, calls >>
      BY <1>3 DEF vars
    <2>2. TypeOK' /\ Held' /\ Sessioned'
      BY <2>1 DEF IInv, TypeOK, Held, Exclusive, Inside, At, Orch, Sessioned
    <2>3. \A c \in Callers : Progressing(c)'
      BY <2>1 DEF IInv, Progressing, At, Final, Sound
    <2>4. QED
      BY <2>2, <2>3 DEF IInv
  <1>4. QED
    BY <1>1, <1>2, <1>3 DEF Next

\* IInv is an invariant of every instance.
THEOREM Invariant == Spec => []IInv
  <1>1. QED
    BY InitIInv, NextIInv, PTL DEF Spec

-----------------------------------------------------------------------------
(* What follows from it. *)

\* The orchestrators, their jobs and outcomes hold only what the code puts there.
THEOREM TypeCorrect == Spec => []TypeOK
  <1>1. IInv => TypeOK
    BY DEF IInv
  <1>2. QED
    BY <1>1, Invariant, PTL

\* Jobs of one orchestrator never overlap and the process runs one decoder, for
\* any number of threads and orchestrators.
THEOREM MutualExclusion == Spec => []Exclusive
  <1>1. IInv => Exclusive
    BY DEF IInv, Held
  <1>2. QED
    BY <1>1, Invariant, PTL

\* However a call ends, no temporary audio, lock or decoder slot stays behind.
THEOREM CleanExit == Spec => []NothingLeftBehind
  <1>1. IInv => NothingLeftBehind
    BY DEF IInv, Held, NothingLeftBehind, Inside, At
  <1>2. QED
    BY <1>1, Invariant, PTL

\* What a returned call hands out is final.
LEMMA ReturnedFinal == IInv => \A c \in Callers : Returned(c) => Final(outcome[c])
  BY DEF IInv, Progressing, Returned

\* A result's speakers come from the audio of its digest, and that audio is one
\* version of the source, however the files change under the job.
THEOREM Faithful == Spec => []ResultFaithful
  <1>1. IInv => ResultFaithful
    BY ReturnedFinal DEF ResultFaithful, Final, Sound, Versions
  <1>2. QED
    BY <1>1, Invariant, PTL

\* Release authority and calibration are claimed only for sessions opened on the
\* verified model files.
THEOREM Authority == Spec => []AuthorityEarned
  <1>1. IInv => AuthorityEarned
    BY ReturnedFinal DEF AuthorityEarned, Final, Sound
  <1>2. QED
    BY <1>1, Invariant, PTL

\* The speakers a result carries are those heard in its own audio, and they are
\* under review: no speaker-aware transcript comes with them, and no request makes
\* the summary policy accept a speaker-aware summary.
THEOREM UnderReview == Spec => []NamesOnlyForReview
  <1>1. IInv => NamesOnlyForReview
    <2>1. SUFFICES ASSUME IInv, NEW c \in Callers, Returned(c),
                          NEW report, report = [status |-> outcome[c].status,
                                                mode |-> outcome[c].mode]
                   PROVE  /\ outcome[c].assigned \/ outcome[c].bindings =>
                                outcome[c].speakers > 0 /\ outcome[c].seen = outcome[c].audio
                          /\ outcome[c].status = "REVIEW_REQUIRED"
                          /\ ~outcome[c].aware
                          /\ \A requested : Decide(report, requested) # "SPEAKER_AWARE"
      BY DEF NamesOnlyForReview
    <2>2. Sound(outcome[c])
      BY <2>1, ReturnedFinal DEF Final
    <2>3. outcome[c].assigned \/ outcome[c].bindings =>
            outcome[c].speakers > 0 /\ outcome[c].seen = outcome[c].audio
      BY <2>2 DEF Sound
    <2>4. outcome[c].status = "REVIEW_REQUIRED" /\ ~outcome[c].aware
      BY <2>2 DEF Sound
    <2>5. report.status = "REVIEW_REQUIRED"
      BY <2>1, <2>4
    <2>6. QED
      BY <2>3, <2>4, <2>5, ReviewBlocksSummary
  <1>2. QED
    BY <1>1, Invariant, PTL

\* A result published after a failed diarization makes no speaker claim.
THEOREM FallbackSilent == Spec => []FallbackNamesNobody
  <1>1. IInv => FallbackNamesNobody
    BY ReturnedFinal DEF FallbackNamesNobody, Final, Sound
  <1>2. QED
    BY <1>1, Invariant, PTL
=============================================================================
