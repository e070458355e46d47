---------------------------- MODULE RNNoiseLane -----------------------------
(***************************************************************************)
(* The enhancement lane (rnnoise_experimental.py): ExperimentalRNNoise-    *)
(* Preprocessor.prepare, from the one-job gate to the moment the caller    *)
(* leaves the context.  A job copies the source and two programs to a      *)
(* private directory, runs the programs one after the other, and hands     *)
(* out a waveform with a receipt.                                          *)
(*                                                                         *)
(* A file is its size in bytes and whether it is genuine: the recording    *)
(* whose digest was asked for, a program whose digest was asked for, or    *)
(* what genuine programs make of the genuine recording.                    *)
(***************************************************************************)
EXTENDS Integers, SequencesExt

CONSTANTS
    Callers,        \* threads of the process that call prepare
    Lengths,        \* frames a recording may have
    FrameSamples,   \* of RNNoise, at 48 kHz; warm-up and flush have as many
    HeaderBytes,    \* of a WAV file
    HeaderBound,    \* what the code allows for it, 4096
    ProgramBytes,   \* of the two programs together
    WorkspaceLimit, \* policy.max_workspace_bytes
    MaxChanges      \* bound: changes by the environment

Programs == {"rnnoise", "resampler"}
Documents == {"attestation", "proof"}

\* What each statement makes of which file, by which program if any, which files
\* it removes then, and whether it looks at the directory before or after that.
Work ==
    [pcm        |-> [makes |-> "raw16", of |-> "snapshot", by |-> "copy",
                     drops |-> {"snapshot"}, audit |-> "after", next |-> "upsample"],
     upsample   |-> [makes |-> "raw48", of |-> "raw16", by |-> "resampler",
                     drops |-> {}, audit |-> "never", next |-> "pad"],
     pad        |-> [makes |-> "padded48", of |-> "raw48", by |-> "copy",
                     drops |-> {"raw16", "raw48"}, audit |-> "before", next |-> "denoise"],
     denoise    |-> [makes |-> "denoised48", of |-> "padded48", by |-> "rnnoise",
                     drops |-> {"padded48"}, audit |-> "never", next |-> "trim"],
     trim       |-> [makes |-> "aligned48", of |-> "denoised48", by |-> "copy",
                     drops |-> {"denoised48"}, audit |-> "after", next |-> "downsample"],
     downsample |-> [makes |-> "output16", of |-> "aligned48", by |-> "resampler",
                     drops |-> {"aligned48"}, audit |-> "never", next |-> "wav"],
     wav        |-> [makes |-> "prepared", of |-> "output16", by |-> "copy",
                     drops |-> {"output16"}, audit |-> "after", next |-> "recheck"]]

ASSUME LaneAssumption ==
    /\ Lengths \subseteq Nat \ {0} /\ FrameSamples \in Nat \ {0}
    /\ HeaderBytes \in Nat /\ HeaderBound \in Nat /\ HeaderBytes <= HeaderBound
    /\ ProgramBytes \in Nat /\ WorkspaceLimit \in Nat /\ MaxChanges \in Nat

VARIABLES
    lane,      \* statement a caller is at
    gate,      \* callers that hold _GLOBAL_JOB_GATE
    source,    \* the recording: [genuine, identity]
    artifacts, \* whether a program or document still is what its digest says
    given,     \* what the caller's job is: [frames, fits]
    seen,      \* source_identity the caller took
    files,     \* the caller's private directory: name -> file
    outcomes,  \* stage_outcomes
    changes    \* environment changes so far

job == << given, seen, files, outcomes >>
laneVars == << lane, gate, source, artifacts, given, seen, files, outcomes, changes >>

Empty == [n \in {} |-> [bytes |-> 0, genuine |-> TRUE]]

LaneInit ==
    /\ lane = [c \in Callers |-> "idle"]
    /\ gate = {}
    /\ source \in [genuine : BOOLEAN, identity : {0}]
    /\ artifacts = [a \in Programs \cup Documents |-> TRUE]
    /\ given \in [Callers -> [frames : Lengths, fits : SUBSET Documents]]
    /\ seen = [c \in Callers |-> 0]
    /\ files = [c \in Callers |-> Empty]
    /\ outcomes = [c \in Callers |-> << >>]
    /\ changes = 0

-----------------------------------------------------------------------------
(* Sizes *)

PcmBytes(c) == 2 * given[c].frames
UpBytes(c) == 2 * (3 * given[c].frames)

\* Whole frames of RNNoise that hold the recording at 48 kHz, in samples.
PaddedSamples(c) == ((3 * given[c].frames + FrameSamples - 1) \div FrameSamples) * FrameSamples
DemoBytes(c) == 2 * (PaddedSamples(c) + FrameSamples)
DenoisedBytes(c) == DemoBytes(c) - 2 * FrameSamples
SourceBytes(c) == PcmBytes(c) + HeaderBytes

\* expected_workspace_bytes
WorkspaceBytes(c) ==
    ProgramBytes
    + Max({SourceBytes(c) + PcmBytes(c), PcmBytes(c) + UpBytes(c),
           PcmBytes(c) + UpBytes(c) + DemoBytes(c),
           DemoBytes(c) + DenoisedBytes(c), DenoisedBytes(c) + UpBytes(c),
           UpBytes(c) + PcmBytes(c), 2 * PcmBytes(c) + HeaderBound})

-----------------------------------------------------------------------------
(* The private directory *)

File(bytes, genuine) == [bytes |-> bytes, genuine |-> genuine]
With(dir, name, file) == [n \in {name} \cup DOMAIN dir |-> IF n = name THEN file ELSE dir[n]]
Without(dir, names) == Restrict(dir, DOMAIN dir \ names)
BytesOf(dir, name) == IF name \in DOMAIN dir THEN dir[name].bytes ELSE 0

\* Every name the lane or a program uses, written out so that it can be reasoned about.
Used(dir) ==
    BytesOf(dir, "rnnoise") + BytesOf(dir, "resampler") + BytesOf(dir, "stray")
    + BytesOf(dir, "snapshot") + BytesOf(dir, "raw16") + BytesOf(dir, "raw48") + BytesOf(dir, "padded48")
    + BytesOf(dir, "denoised48") + BytesOf(dir, "aligned48") + BytesOf(dir, "output16") + BytesOf(dir, "prepared")

\* _audit_workspace: nothing but what the lane itself put there.
Audited(dir) == "stray" \notin DOMAIN dir /\ Used(dir) <= WorkspaceLimit

\* Mutant: a private copy is trusted once it is made.
Private_Trusted(c, p) == p \in DOMAIN files[c]

\* _verified_executable of a private copy
Private(c, p) == p \in DOMAIN files[c] /\ files[c][p].genuine

-----------------------------------------------------------------------------
(* Entering and leaving *)

\* Any exception in the context: the directory goes, then the gate.
Raise(c) ==
    /\ lane' = [lane EXCEPT ![c] = "leaving"]
    /\ UNCHANGED << gate, source, artifacts, job, changes >>

Goto(c, statement) == lane' = [lane EXCEPT ![c] = statement]

\* Disabled: the source itself is handed out and nothing is looked at.
PrepareDisabled(c) ==
    /\ lane[c] = "idle"
    /\ Goto(c, "out")
    /\ UNCHANGED << gate, source, artifacts, job, changes >>

Enter(c) ==
    /\ lane[c] = "idle"
    /\ \/ gate = {} /\ gate' = {c} /\ Goto(c, "inputs")
       \/ gate # {} /\ gate' = gate /\ Goto(c, "out")     \* RNNoiseBusyError
    /\ UNCHANGED << source, artifacts, job, changes >>

\* Mutant: the gate is given back only after a success.
Leave_KeepsGate(c) ==
    /\ lane[c] \in {"leaving", "yielded"}
    /\ files' = [files EXCEPT ![c] = Empty]
    /\ gate' = IF lane[c] = "yielded" THEN gate \ {c} ELSE gate
    /\ Goto(c, "out")
    /\ UNCHANGED << source, artifacts, given, seen, outcomes, changes >>

\* The caller is done with the waveform, or an exception passes.
Leave(c) ==
    /\ lane[c] \in {"leaving", "yielded"}
    /\ files' = [files EXCEPT ![c] = Empty]
    /\ gate' = gate \ {c}
    /\ Goto(c, "out")
    /\ UNCHANGED << source, artifacts, given, seen, outcomes, changes >>

-----------------------------------------------------------------------------
(* Looking at what was handed in *)

\* Roots, digest, layout, duration and byte limits of the source.
CheckInputs(c) ==
    /\ lane[c] = "inputs"
    /\ \/ /\ source.genuine
          /\ seen' = [seen EXCEPT ![c] = source.identity]
          /\ Goto(c, "artifacts")
          /\ UNCHANGED << gate, source, artifacts, given, files, outcomes, changes >>
       \/ Raise(c)

\* Regular, below the approved root, and with the digest asked for.
StillVerified(a) == artifacts[a]

\* The attestation is about this program and this machine, and claims no more than
\* a build that was recorded; the proof is about these two programs.
AttestationFits(c) == "attestation" \in given[c].fits
ProofFits(c) == "proof" \in given[c].fits

\* Digests and content of programs and documents, and the sizes to come.
CheckArtifacts(c) ==
    /\ lane[c] = "artifacts"
    /\ \/ /\ \A a \in DOMAIN artifacts : StillVerified(a)
          /\ AttestationFits(c) /\ ProofFits(c)
          /\ WorkspaceBytes(c) <= WorkspaceLimit
          /\ Goto(c, "snapshot")
          /\ UNCHANGED << gate, source, artifacts, job, changes >>
       \/ Raise(c)

\* The bytes that were copied are hashed, and the file is the one looked at.
SameSource(c) == source.genuine /\ source.identity = seen[c]

TakeSnapshot(c) ==
    /\ lane[c] = "snapshot"
    /\ \/ /\ SameSource(c)
          /\ files' = [files EXCEPT ![c] =
                         With(@, "snapshot", File(SourceBytes(c), source.genuine))]
          /\ Goto(c, "programs")
          /\ UNCHANGED << gate, source, artifacts, given, seen, outcomes, changes >>
       \/ Raise(c)

\* Private copies of the programs, hashed again, as are the originals.
CopyPrograms(c) ==
    /\ lane[c] = "programs"
    /\ LET size == [rnnoise |-> ProgramBytes \div 2, resampler |-> ProgramBytes - ProgramBytes \div 2]
           copied == With(With(files[c], "rnnoise", File(size.rnnoise, artifacts["rnnoise"])),
                          "resampler", File(size.resampler, artifacts["resampler"]))
       IN  \/ /\ \A p \in Programs : StillVerified(p)
              /\ Audited(copied)
              /\ files' = [files EXCEPT ![c] = copied]
              /\ Goto(c, "pcm")
              /\ UNCHANGED << gate, source, artifacts, given, seen, outcomes, changes >>
           \/ Raise(c)

-----------------------------------------------------------------------------
(* The chain of files *)

Bytes(c, name) ==
    CASE name \in {"raw16", "output16"} -> PcmBytes(c)
      [] name \in {"raw48", "aligned48"} -> UpBytes(c)
      [] name = "padded48" -> DemoBytes(c)
      [] name = "denoised48" -> DenoisedBytes(c)
      [] name = "prepared" -> SourceBytes(c)

\* The file of the statement is not there yet.
Pending(c, w) == w.makes \notin DOMAIN files[c]

\* _copy_exact, _copy_bytes and _write_pcm16_wav
Copy(c) ==
    \E step \in DOMAIN Work :
        LET w == Work[step]
        IN  /\ lane[c] = step /\ w.by = "copy" /\ Pending(c, w)
            /\ \/ /\ files' = [files EXCEPT ![c] =
                       With(@, w.makes, File(Bytes(c, w.makes), @[w.of].genuine))]
                  /\ UNCHANGED << lane, gate, source, artifacts, given, seen, outcomes, changes >>
               \/ Raise(c)

\* What a program leaves: the file it was asked for, made of what it read, perhaps
\* one of its own, and perhaps other bytes in the private programs.
Produced(c, w, spoilt, strays) ==
    LET dir == files[c]
    IN  [n \in DOMAIN dir \cup {w.makes} \cup strays |->
           IF n = w.makes THEN File(Bytes(c, n), dir[w.of].genuine /\ dir[w.by].genuine)
           ELSE IF n = "stray" THEN File(1, FALSE)
           ELSE File(dir[n].bytes, dir[n].genuine /\ n \notin spoilt)]

\* A program runs: it succeeds with a file of the right size, or the lane ends.  It
\* is looked at before and after, as is the file it was copied from.
RunProgram(c) ==
    \E step \in DOMAIN Work :
        LET w == Work[step]
        IN  /\ lane[c] = step /\ w.by \in Programs /\ Pending(c, w)
            /\ \/ \E spoilt \in SUBSET Programs, strays \in SUBSET {"stray"} :
                    /\ Private(c, w.by)
                    /\ Cardinality(spoilt) + Cardinality(strays) + changes <= MaxChanges
                    /\ changes' = changes + Cardinality(spoilt) + Cardinality(strays)
                    /\ files' = [files EXCEPT ![c] = Produced(c, w, spoilt, strays)]
                    /\ outcomes' = [outcomes EXCEPT ![c] = Append(@, step)]
                    /\ UNCHANGED << lane, gate, source, artifacts, given, seen >>
               \/ Raise(c)

\* Mutant: what has been read is kept until the directory goes.
Tidied_KeepsInput(c, w) == files[c]

Tidied(c, w) == Without(files[c], w.drops)

\* What is not needed goes, after the checks that follow a program.
Tidy(c) ==
    \E step \in DOMAIN Work :
        LET w == Work[step]
        IN  /\ lane[c] = step /\ ~Pending(c, w)
            /\ \/ /\ w.by \in Programs => Private(c, w.by) /\ StillVerified(w.by)
                  /\ w.audit = "before" => Audited(files[c])
                  /\ w.audit = "after" => Audited(Tidied(c, w))
                  /\ files' = [files EXCEPT ![c] = Tidied(c, w)]
                  /\ Goto(c, w.next)
                  /\ UNCHANGED << gate, source, artifacts, given, seen, outcomes, changes >>
               \/ Raise(c)

\* Programs and documents are looked at once more, and the receipt is written.
Recheck(c) ==
    /\ lane[c] = "recheck"
    /\ \/ /\ \A a \in DOMAIN artifacts : StillVerified(a)
          /\ Goto(c, "yielded")
          /\ UNCHANGED << gate, source, artifacts, job, changes >>
       \/ Raise(c)

-----------------------------------------------------------------------------
(* The environment *)

Replace(a) ==
    /\ changes < MaxChanges /\ artifacts[a]
    /\ artifacts' = [artifacts EXCEPT ![a] = FALSE]
    /\ changes' = changes + 1
    /\ UNCHANGED << lane, gate, source, job >>

\* The recording is rewritten, with or without a trace in its size and times, or
\* only touched.
RewriteSource ==
    /\ changes < MaxChanges
    /\ \E genuine \in {source.genuine, FALSE}, n \in {0, 1} :
         /\ genuine # source.genuine \/ n = 1
         /\ source' = [genuine |-> genuine, identity |-> source.identity + n]
    /\ changes' = changes + 1
    /\ UNCHANGED << lane, gate, artifacts, job >>

Handle(c) ==
    \/ PrepareDisabled(c) \/ Enter(c) \/ CheckInputs(c) \/ CheckArtifacts(c) \/ TakeSnapshot(c)
    \/ CopyPrograms(c) \/ Copy(c) \/ RunProgram(c) \/ Tidy(c) \/ Recheck(c) \/ Leave(c)

LaneNext ==
    \/ \E c \in Callers : Handle(c)
    \/ \E a \in Programs \cup Documents : Replace(a)
    \/ RewriteSource

LaneSpec == LaneInit /\ [][LaneNext]_laneVars

-----------------------------------------------------------------------------
(* Properties *)

\* A waveform that is handed out with a receipt was made of the recording whose
\* digest was asked for, by the three programs in order, each of them genuine, is as
\* long as the recording, and is alone with the programs in its directory, although
\* every file may be replaced between any two looks at it.  The documents fit the job.
ReceiptTrue ==
    \A c \in Callers : lane[c] = "yielded" =>
        /\ DOMAIN files[c] = {"prepared"} \cup Programs
        /\ files[c]["prepared"] = File(SourceBytes(c), TRUE)
        /\ outcomes[c] = << "upsample", "denoise", "downsample" >>
        /\ given[c].fits = Documents

\* The estimate that admits a job is an upper bound of what its directory holds at
\* any time, but for what a program adds of its own.
WorkspaceBounded ==
    \A c \in Callers : Used(Without(files[c], {"stray"})) <= WorkspaceBytes(c)

\* One job at a time has a private directory, and however the caller's context ends
\* neither audio nor the gate is kept.
LaneClean ==
    /\ \A c, d \in Callers : files[c] # Empty /\ files[d] # Empty => c = d
    /\ \A c \in Callers : lane[c] \in {"idle", "out"} => files[c] = Empty /\ c \notin gate
=============================================================================
