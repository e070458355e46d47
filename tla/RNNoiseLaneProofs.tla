-------------------------- MODULE RNNoiseLaneProofs --------------------------
(***************************************************************************)
(* What a receipt of the enhancement lane says is true for any number of   *)
(* callers, any recordings and any number of files replaced meanwhile: an  *)
(* invariant says what lies in a caller's directory at every statement.    *)
(***************************************************************************)
EXTENDS RNNoiseLane, SequenceTheorems, TLAPS

\* What a statement finds besides the programs, and what ran before it.
Found ==
    [pcm |-> {"snapshot"}, upsample |-> {"raw16"}, pad |-> {"raw16", "raw48"},
     denoise |-> {"padded48"}, trim |-> {"denoised48"}, downsample |-> {"aligned48"},
     wav |-> {"output16"}, recheck |-> {"prepared"}, yielded |-> {"prepared"}]
One == Append(<< >>, "upsample")
Two == Append(One, "denoise")
Three == Append(Two, "downsample")
Ran ==
    [pcm |-> << >>, upsample |-> << >>, pad |-> One, denoise |-> One, trim |-> Two,
     downsample |-> Two, wav |-> Three, recheck |-> Three, yielded |-> Three]

Steps == {"pcm", "upsample", "pad", "denoise", "trim", "downsample", "wav"}
Data == {"snapshot", "raw16", "raw48", "padded48", "denoised48", "aligned48", "output16", "prepared"}

Statements ==
    {"idle", "inputs", "artifacts", "snapshot", "programs", "recheck", "yielded", "leaving", "out"} \cup Steps

\* The size of a caller's file by its name.
SizeOf(c, n) == IF n = "snapshot" THEN SourceBytes(c) ELSE Bytes(c, n)

Running(c) == lane[c] \in Steps \cup {"recheck", "yielded"}

\* Before the statement did its work, or after it and before it tidied up.
DirectoryOK(c) ==
    /\ lane[c] \in {"idle", "out", "inputs", "artifacts", "snapshot"} => files[c] = Empty
    /\ lane[c] = "programs" => DOMAIN files[c] = {"snapshot"}
    /\ lane[c] \in Steps =>
         \/ DOMAIN files[c] \ {"stray"} = Programs \cup Found[lane[c]] /\ outcomes[c] = Ran[lane[c]]
         \/ /\ DOMAIN files[c] \ {"stray"} = Programs \cup Found[lane[c]] \cup {Work[lane[c]].makes}
            /\ outcomes[c] = IF Work[lane[c]].by = "copy" THEN Ran[lane[c]]
                             ELSE Append(Ran[lane[c]], lane[c])
    /\ lane[c] \in {"recheck", "yielded"} =>
         DOMAIN files[c] = Programs \cup Found[lane[c]] /\ outcomes[c] = Ran[lane[c]]
    /\ lane[c] \in {"idle", "inputs", "artifacts", "snapshot", "programs"} => outcomes[c] = << >>

\* Programs may be spoilt meanwhile; what is made of the recording is not.
DataOK(c) ==
    Running(c) \/ lane[c] = "programs" =>
      \A n \in DOMAIN files[c] \cap Data : files[c][n] = File(SizeOf(c, n), TRUE)

DocumentsOK(c) == Running(c) \/ lane[c] \in {"snapshot", "programs"} => given[c].fits = Documents

GateOK(c) == c \in gate <=> lane[c] \notin {"idle", "out"}

CallerOK(c) == DirectoryOK(c) /\ DataOK(c) /\ DocumentsOK(c) /\ GateOK(c)

TypesOK ==
    /\ lane \in [Callers -> Statements]
    /\ files = [c \in Callers |-> files[c]]
    /\ outcomes = [c \in Callers |-> outcomes[c]]
    /\ given \in [Callers -> [frames : Lengths, fits : SUBSET Documents]]
    /\ artifacts \in [Programs \cup Documents -> BOOLEAN]
    /\ source.genuine \in BOOLEAN
    /\ gate \subseteq Callers

OneJob == \A c, d \in gate : c = d

LaneInv == TypesOK /\ OneJob /\ \A c \in Callers : CallerOK(c)

-----------------------------------------------------------------------------
(* The directory *)

LEMMA WithFacts ==
    ASSUME NEW dir, NEW name, NEW file
    PROVE  /\ DOMAIN With(dir, name, file) = {name} \cup DOMAIN dir
           /\ With(dir, name, file)[name] = file
           /\ \A n \in DOMAIN dir : n # name => With(dir, name, file)[n] = dir[n]
  BY DEF With

LEMMA WithoutFacts ==
    ASSUME NEW dir, NEW names
    PROVE  /\ DOMAIN Without(dir, names) = DOMAIN dir \ names
           /\ \A n \in DOMAIN dir \ names : Without(dir, names)[n] = dir[n]
  BY DEF Without, Restrict

LEMMA EmptyFacts == DOMAIN Empty = {}
  BY DEF Empty

LEMMA WorkFacts ==
    /\ DOMAIN Work = Steps
    /\ \A s \in Steps :
         /\ Work[s].makes \in Data /\ Work[s].makes \notin Found[s] /\ Work[s].makes # "snapshot"
         /\ Work[s].of \in Found[s] /\ Work[s].of \in Data /\ Found[s] \subseteq Data
         /\ Work[s].next \in Steps \cup {"recheck"}
         /\ Found[Work[s].next] = (Found[s] \cup {Work[s].makes}) \ Work[s].drops
         /\ Work[s].drops \subseteq Data
         /\ Work[s].by \in Programs \cup {"copy"}
         /\ Ran[Work[s].next] = IF Work[s].by = "copy" THEN Ran[s] ELSE Append(Ran[s], s)
         /\ Work[s].next = "recheck" => s = "wav"
    /\ Work["wav"].audit = "after"
  <1>1. DOMAIN Work = Steps
    BY DEF Work, Steps
  <1>2. ASSUME NEW s \in Steps
        PROVE  /\ Work[s].makes \in Data /\ Work[s].makes \notin Found[s] /\ Work[s].makes # "snapshot"
               /\ Work[s].of \in Found[s] /\ Work[s].of \in Data /\ Found[s] \subseteq Data
               /\ Work[s].next \in Steps \cup {"recheck"}
               /\ Found[Work[s].next] = (Found[s] \cup {Work[s].makes}) \ Work[s].drops
               /\ Work[s].drops \subseteq Data
               /\ Work[s].by \in Programs \cup {"copy"}
               /\ Ran[Work[s].next] = IF Work[s].by = "copy" THEN Ran[s] ELSE Append(Ran[s], s)
               /\ Work[s].next = "recheck" => s = "wav"
    <2>1. CASE s = "pcm"         BY <2>1 DEF Work, Steps, Data, Found, Ran, One, Two, Three, Programs
    <2>2. CASE s = "upsample"    BY <2>2 DEF Work, Steps, Data, Found, Ran, One, Two, Three, Programs
    <2>3. CASE s = "pad"         BY <2>3 DEF Work, Steps, Data, Found, Ran, One, Two, Three, Programs
    <2>4. CASE s = "denoise"     BY <2>4 DEF Work, Steps, Data, Found, Ran, One, Two, Three, Programs
    <2>5. CASE s = "trim"        BY <2>5 DEF Work, Steps, Data, Found, Ran, One, Two, Three, Programs
    <2>6. CASE s = "downsample"  BY <2>6 DEF Work, Steps, Data, Found, Ran, One, Two, Three, Programs
    <2>7. CASE s = "wav"         BY <2>7 DEF Work, Steps, Data, Found, Ran, One, Two, Three, Programs
    <2>8. QED
      BY <2>1, <2>2, <2>3, <2>4, <2>5, <2>6, <2>7 DEF Steps
  <1>3. Work["wav"].audit = "after"
    BY DEF Work
  <1>4. QED
    BY <1>1, <1>2, <1>3

LEMMA AppendKeeps ==
    ASSUME NEW T, NEW s \in Seq(T), NEW e \in T, NEW i \in 1..Len(s)
    PROVE  Append(s, e)[i] = s[i]
  BY AppendProperties

\* What is put together one by one is the tuple.
LEMMA ThreeAppended ==
    ASSUME NEW T, NEW a \in T, NEW b \in T, NEW c \in T
    PROVE  Append(Append(Append(<< >>, a), b), c) = << a, b, c >>
  <1> DEFINE one == Append(<< >>, a)
             two == Append(one, b)
             three == Append(two, c)
             t == << a, b, c >>
  <1> HIDE DEF t
  <1>1. << >> \in Seq(T) /\ Len(<< >>) = 0
    BY EmptySeq
  <1>2. one \in Seq(T) /\ Len(one) = 1 /\ one[1] = a
    BY <1>1, AppendProperties
  <1> HIDE DEF one
  <1>3. two \in Seq(T) /\ Len(two) = 2 /\ two[1] = a /\ two[2] = b
    BY <1>2, AppendProperties
  <1> HIDE DEF two
  <1>4. three \in Seq(T) /\ Len(three) = 3
    <2>1. three \in Seq(T) /\ Len(three) = Len(two) + 1
      BY <1>3, AppendProperties
    <2>2. QED
      BY <2>1, <1>3
  <1>5. three[1] = a /\ three[2] = b
    <2>1. \A i \in 1..Len(two) : three[i] = two[i]
      BY <1>3, AppendKeeps
    <2>2. 1 \in 1..Len(two) /\ 2 \in 1..Len(two)
      BY <1>3
    <2>3. QED
      BY <2>1, <2>2, <1>3
  <1>6. three[3] = c
    <2>1. three[Len(two) + 1] = c
      BY <1>3, AppendProperties
    <2>2. Len(two) + 1 = 3
      BY <1>3
    <2>3. QED
      BY <2>1, <2>2
  <1> HIDE DEF three
  <1>7. t \in Seq(T) /\ Len(t) = 3 /\ t[1] = a /\ t[2] = b /\ t[3] = c
    BY DEF t
  <1>8. \A i \in 1..Len(three) : three[i] = t[i]
    BY <1>4, <1>5, <1>6, <1>7
  <1>9. three = t
    BY <1>4, <1>7, <1>8, SeqEqual
  <1>10. QED
    BY <1>9 DEF three, two, one, t

LEMMA ThreeRan == Three = << "upsample", "denoise", "downsample" >>
  <1>1. "upsample" \in Steps /\ "denoise" \in Steps /\ "downsample" \in Steps
    BY DEF Steps
  <1>2. QED
    BY <1>1, ThreeAppended DEF One, Two, Three

-----------------------------------------------------------------------------
(* Steps of one caller *)

\* A caller whom a step does not concern is as before.
LEMMA OtherCaller ==
    ASSUME NEW d, CallerOK(d), lane'[d] = lane[d], files'[d] = files[d],
           outcomes'[d] = outcomes[d], given' = given, d \in gate' <=> d \in gate
    PROVE  CallerOK(d)'
  <1>1. DirectoryOK(d)'
    BY DEF CallerOK, DirectoryOK
  <1>2. DataOK(d)'
    BY DEF CallerOK, DataOK, Running, SizeOf, SourceBytes, Bytes, PcmBytes, UpBytes, DemoBytes,
           DenoisedBytes, PaddedSamples
  <1>3. DocumentsOK(d)' /\ GateOK(d)'
    BY DEF CallerOK, DocumentsOK, Running, GateOK
  <1>4. QED
    BY <1>1, <1>2, <1>3 DEF CallerOK

\* Sizes are those of the recording, which stays.
LEMMA SizesStay == ASSUME given' = given PROVE \A c, n : SizeOf(c, n)' = SizeOf(c, n)
  BY DEF SizeOf, SourceBytes, Bytes, PcmBytes, UpBytes, DemoBytes, DenoisedBytes, PaddedSamples

LEMMA OneCaller ==
    ASSUME LaneInv, NEW c \in Callers, lane[c] \notin {"idle", "out"}, NEW l \in Statements, NEW dir, NEW o,
           l \notin {"idle", "out"},
           lane' = [lane EXCEPT ![c] = l], files' = [files EXCEPT ![c] = dir],
           outcomes' = [outcomes EXCEPT ![c] = o],
           given' = given, artifacts' = artifacts, source' = source, gate' = gate,
           DirectoryOK(c)', DataOK(c)', DocumentsOK(c)'
    PROVE  LaneInv'
  <1>1. /\ lane'[c] = l /\ files'[c] = dir /\ outcomes'[c] = o
        /\ \A d \in Callers : d # c =>
             lane'[d] = lane[d] /\ files'[d] = files[d] /\ outcomes'[d] = outcomes[d]
    BY DEF LaneInv, TypesOK
  <1>2. TypesOK'
    BY DEF LaneInv, TypesOK
  <1>3. CallerOK(c)'
    BY <1>1 DEF LaneInv, CallerOK, GateOK
  <1>4. ASSUME NEW d \in Callers, d # c PROVE CallerOK(d)'
    BY <1>1, <1>4, OtherCaller DEF LaneInv
  <1>5. OneJob'
    BY DEF LaneInv, OneJob
  <1>6. QED
    BY <1>2, <1>3, <1>4, <1>5 DEF LaneInv

\* What a step leaves alone, in the form that OneCaller asks for.
LEMMA Same ==
    ASSUME LaneInv, NEW c \in Callers
    PROVE  /\ files = [files EXCEPT ![c] = files[c]]
           /\ outcomes = [outcomes EXCEPT ![c] = outcomes[c]]
           /\ lane = [lane EXCEPT ![c] = lane[c]] /\ lane[c] \in Statements
           /\ CallerOK(c) /\ DirectoryOK(c) /\ DataOK(c) /\ DocumentsOK(c) /\ GateOK(c)
  BY DEF LaneInv, TypesOK, CallerOK

LEMMA RaiseOK ==
    ASSUME LaneInv, NEW c \in Callers, Raise(c), lane[c] \notin {"idle", "out"}
    PROVE  LaneInv'
  <1>1. lane'[c] = "leaving"
    BY DEF Raise, LaneInv, TypesOK
  <1>2. DirectoryOK(c)' /\ DataOK(c)' /\ DocumentsOK(c)'
    BY <1>1 DEF DirectoryOK, DataOK, DocumentsOK, Running, Steps
  <1>3. /\ lane' = [lane EXCEPT ![c] = "leaving"] /\ files' = [files EXCEPT ![c] = files[c]]
        /\ outcomes' = [outcomes EXCEPT ![c] = outcomes[c]]
        /\ given' = given /\ artifacts' = artifacts /\ source' = source /\ gate' = gate
    BY Same DEF Raise, job
  <1>4. "leaving" \in Statements /\ "leaving" \notin {"idle", "out"}
    BY DEF Statements
  <1> HIDE DEF Raise
  <1>5. QED
    BY <1>2, <1>3, <1>4, OneCaller

LEMMA CheckInputsOK ==
    ASSUME LaneInv, NEW c \in Callers, CheckInputs(c)
    PROVE  LaneInv'
  <1>1. CASE Raise(c)
    BY <1>1, RaiseOK DEF CheckInputs
  <1>2. CASE ~Raise(c)
    <2>1. /\ lane[c] = "inputs" /\ lane' = [lane EXCEPT ![c] = "artifacts"]
          /\ files' = files /\ outcomes' = outcomes
          /\ given' = given /\ artifacts' = artifacts /\ source' = source /\ gate' = gate
      BY <1>2 DEF CheckInputs, Goto
    <2>2. lane'[c] = "artifacts"
      BY <2>1 DEF LaneInv, TypesOK
    <2>3. DirectoryOK(c)' /\ DataOK(c)' /\ DocumentsOK(c)'
      BY <2>1, <2>2, Same DEF DirectoryOK, DataOK, DocumentsOK, Running, Steps
    <2>4. "artifacts" \in Statements /\ "artifacts" \notin {"idle", "out"}
      BY DEF Statements
    <2>5. QED
      BY <2>1, <2>3, <2>4, Same, OneCaller
  <1>3. QED
    BY <1>1, <1>2

LEMMA CheckArtifactsOK ==
    ASSUME LaneInv, NEW c \in Callers, CheckArtifacts(c)
    PROVE  LaneInv'
  <1>1. CASE Raise(c)
    BY <1>1, RaiseOK DEF CheckArtifacts
  <1>2. CASE ~Raise(c)
    <2>1. /\ lane[c] = "artifacts" /\ lane' = [lane EXCEPT ![c] = "snapshot"]
          /\ files' = files /\ outcomes' = outcomes
          /\ given' = given /\ artifacts' = artifacts /\ source' = source /\ gate' = gate
          /\ AttestationFits(c) /\ ProofFits(c)
      BY <1>2 DEF CheckArtifacts, Goto, job
    <2>2. lane'[c] = "snapshot"
      BY <2>1 DEF LaneInv, TypesOK
    <2>3. given[c].fits = Documents
      BY <2>1 DEF LaneInv, TypesOK, AttestationFits, ProofFits, Documents
    <2>4. DirectoryOK(c)' /\ DataOK(c)' /\ DocumentsOK(c)'
      BY <2>1, <2>2, <2>3, Same DEF DirectoryOK, DataOK, DocumentsOK, Running, Steps
    <2>5. "snapshot" \in Statements /\ "snapshot" \notin {"idle", "out"}
      BY DEF Statements
    <2>6. QED
      BY <2>1, <2>4, <2>5, Same, OneCaller
  <1>3. QED
    BY <1>1, <1>2

LEMMA TakeSnapshotOK ==
    ASSUME LaneInv, NEW c \in Callers, TakeSnapshot(c)
    PROVE  LaneInv'
  <1>1. CASE Raise(c)
    BY <1>1, RaiseOK DEF TakeSnapshot
  <1>2. CASE ~Raise(c)
    <2> DEFINE dir == With(files[c], "snapshot", File(SourceBytes(c), TRUE))
    <2>1. /\ lane[c] = "snapshot" /\ lane' = [lane EXCEPT ![c] = "programs"]
          /\ files' = [files EXCEPT ![c] = dir] /\ outcomes' = outcomes
          /\ given' = given /\ artifacts' = artifacts /\ source' = source /\ gate' = gate
      <3>1. /\ source.genuine
            /\ files' = [files EXCEPT ![c] = With(@, "snapshot", File(SourceBytes(c), source.genuine))]
        BY <1>2 DEF TakeSnapshot, SameSource
      <3>2. source.genuine = TRUE
        BY <3>1 DEF LaneInv, TypesOK
      <3>3. files' = [files EXCEPT ![c] = dir]
        BY <3>1, <3>2 DEF LaneInv, TypesOK
      <3>4. QED
        BY <1>2, <3>3 DEF TakeSnapshot, Goto
    <2>2. DOMAIN dir = {"snapshot"} /\ dir["snapshot"] = File(SourceBytes(c), TRUE)
      <3>1. DOMAIN files[c] = {}
        BY <2>1, Same, EmptyFacts DEF DirectoryOK
      <3>2. QED
        BY <3>1 DEF With
    <2> HIDE DEF dir
    <2>3. lane'[c] = "programs" /\ files'[c] = dir /\ outcomes'[c] = outcomes[c]
      BY <2>1 DEF LaneInv, TypesOK
    <2>4. DirectoryOK(c)'
      BY <2>1, <2>2, <2>3, Same DEF DirectoryOK, Steps
    <2>5. DataOK(c)'
      <3>1. SizeOf(c, "snapshot")' = SourceBytes(c)
        BY <2>1, SizesStay DEF SizeOf
      <3>2. \A n \in DOMAIN files'[c] \cap Data : files'[c][n] = File(SizeOf(c, n)', TRUE)
        BY <2>2, <2>3, <3>1
      <3>3. QED
        BY <3>2 DEF DataOK
    <2>6. DocumentsOK(c)'
      BY <2>1, <2>3, Same DEF DocumentsOK
    <2>7. "programs" \in Statements /\ "programs" \notin {"idle", "out"}
      BY DEF Statements
    <2>8. QED
      BY <2>1, <2>4, <2>5, <2>6, <2>7, Same, OneCaller
  <1>3. QED
    BY <1>1, <1>2

LEMMA CopyProgramsOK ==
    ASSUME LaneInv, NEW c \in Callers, CopyPrograms(c)
    PROVE  LaneInv'
  <1>1. CASE Raise(c)
    BY <1>1, RaiseOK DEF CopyPrograms
  <1>2. CASE ~Raise(c)
    <2> DEFINE first == File(ProgramBytes \div 2, artifacts["rnnoise"])
               second == File(ProgramBytes - ProgramBytes \div 2, artifacts["resampler"])
    <2>1. /\ lane[c] = "programs" /\ lane' = [lane EXCEPT ![c] = "pcm"]
          /\ files' = [files EXCEPT ![c] = With(With(files[c], "rnnoise", first), "resampler", second)]
          /\ outcomes' = outcomes
          /\ given' = given /\ artifacts' = artifacts /\ source' = source /\ gate' = gate
      BY <1>2 DEF CopyPrograms, Goto
    <2> HIDE DEF first, second
    <2> DEFINE half == With(files[c], "rnnoise", first)
               dir == With(half, "resampler", second)
    <2>2. DOMAIN files[c] = {"snapshot"}
      BY <2>1, Same DEF DirectoryOK
    <2>3. DOMAIN half = {"snapshot", "rnnoise"} /\ half["snapshot"] = files[c]["snapshot"]
      BY <2>2 DEF With
    <2>4. DOMAIN dir = Programs \cup {"snapshot"} /\ dir["snapshot"] = files[c]["snapshot"]
      <3> HIDE DEF half
      <3>1. QED
        BY <2>3 DEF With, Programs
    <2>5. files' = [files EXCEPT ![c] = dir]
      BY <2>1
    <2> HIDE DEF dir
    <2>6. lane'[c] = "pcm" /\ files'[c] = dir /\ outcomes'[c] = outcomes[c]
      BY <2>1, <2>5 DEF LaneInv, TypesOK
    <2>7. outcomes[c] = << >>
      BY <2>1, Same DEF DirectoryOK
    <2>8. DirectoryOK(c)'
      BY <2>4, <2>6, <2>7 DEF DirectoryOK, Steps, Found, Ran, Programs
    <2>9. DataOK(c)'
      <3>1. files[c]["snapshot"] = File(SizeOf(c, "snapshot"), TRUE)
        BY <2>1, <2>2, Same DEF DataOK, Data
      <3>2. DOMAIN dir \cap Data = {"snapshot"}
        BY <2>4 DEF Programs, Data
      <3>3. \A n : SizeOf(c, n)' = SizeOf(c, n)
        BY <2>1, SizesStay
      <3>4. \A n \in DOMAIN files'[c] \cap Data : files'[c][n] = File(SizeOf(c, n)', TRUE)
        BY <2>4, <2>6, <3>1, <3>2, <3>3
      <3>5. QED
        BY <3>4 DEF DataOK
    <2>10. DocumentsOK(c)'
      BY <2>1, <2>6, Same DEF DocumentsOK
    <2>11. "pcm" \in Statements /\ "pcm" \notin {"idle", "out"}
      BY DEF Statements, Steps
    <2>12. QED
      BY <2>1, <2>5, <2>8, <2>9, <2>10, <2>11, Same, OneCaller
  <1>3. QED
    BY <1>1, <1>2

-----------------------------------------------------------------------------
(* The chain of files *)

\* A file that is made of the one that is there.
LEMMA MadeOK ==
    ASSUME LaneInv, NEW c \in Callers, NEW s \in Steps, lane[c] = s, Pending(c, Work[s]), NEW dir, NEW o,
           DOMAIN dir \ {"stray"} = (DOMAIN files[c] \cup {Work[s].makes}) \ {"stray"},
           dir[Work[s].makes] = File(Bytes(c, Work[s].makes), TRUE),
           \A n \in DOMAIN files[c] \cap Data : dir[n] = files[c][n],
           o = IF Work[s].by = "copy" THEN outcomes[c] ELSE Append(outcomes[c], s),
           lane' = lane, files' = [files EXCEPT ![c] = dir], outcomes' = [outcomes EXCEPT ![c] = o],
           given' = given, artifacts' = artifacts, source' = source, gate' = gate
    PROVE  LaneInv'
  <1>1. /\ Work[s].makes \in Data /\ Work[s].makes # "snapshot" /\ Work[s].makes # "stray"
        /\ s \in Statements /\ s \notin {"idle", "out"}
    BY WorkFacts DEF Data, Statements, Steps
  <1>2. lane'[c] = s /\ files'[c] = dir /\ outcomes'[c] = o
    BY DEF LaneInv, TypesOK
  <1>3. DOMAIN files[c] \ {"stray"} = Programs \cup Found[s] /\ outcomes[c] = Ran[s]
    BY Same DEF DirectoryOK, Pending
  <1>4. DirectoryOK(c)'
    <2>1. DOMAIN dir \ {"stray"} = Programs \cup Found[s] \cup {Work[s].makes}
      BY <1>1, <1>3
    <2>2. o = IF Work[s].by = "copy" THEN Ran[s] ELSE Append(Ran[s], s)
      BY <1>3
    <2>3. QED
      BY <1>2, <2>1, <2>2 DEF DirectoryOK, Steps
  <1>5. DataOK(c)'
    <2>1. \A n \in DOMAIN files[c] \cap Data : files[c][n] = File(SizeOf(c, n), TRUE)
      BY Same DEF DataOK, Running
    <2>2. \A n \in DOMAIN dir \cap Data : n = Work[s].makes \/ n \in DOMAIN files[c] \cap Data
      BY DEF Data
    <2>3. dir[Work[s].makes] = File(SizeOf(c, Work[s].makes), TRUE)
      BY <1>1 DEF SizeOf
    <2>4. \A n \in DOMAIN dir \cap Data : dir[n] = File(SizeOf(c, n), TRUE)
      BY <2>1, <2>2, <2>3
    <2>5. \A n : SizeOf(c, n)' = SizeOf(c, n)
      BY SizesStay
    <2>6. \A n \in DOMAIN files'[c] \cap Data : files'[c][n] = File(SizeOf(c, n)', TRUE)
      BY <1>2, <2>4, <2>5
    <2>7. QED
      BY <2>6 DEF DataOK
  <1>6. DocumentsOK(c)'
    BY <1>2, Same DEF DocumentsOK, Running
  <1>7. lane' = [lane EXCEPT ![c] = s]
    BY DEF LaneInv, TypesOK
  <1>8. QED
    BY <1>1, <1>4, <1>5, <1>6, <1>7, OneCaller

\* The file a statement reads is there and is as it should be.
LEMMA ReadsGenuine ==
    ASSUME LaneInv, NEW c \in Callers, NEW s \in Steps, lane[c] = s, Pending(c, Work[s])
    PROVE  Work[s].of \in DOMAIN files[c] /\ files[c][Work[s].of].genuine = TRUE
  <1>1. DOMAIN files[c] \ {"stray"} = Programs \cup Found[s]
    BY Same DEF DirectoryOK, Pending
  <1>2. Work[s].of \in DOMAIN files[c] \cap Data
    BY <1>1, WorkFacts
  <1>3. files[c][Work[s].of] = File(SizeOf(c, Work[s].of), TRUE)
    BY <1>2, Same DEF DataOK, Running
  <1>4. QED
    BY <1>2, <1>3 DEF File

LEMMA CopyOK ==
    ASSUME LaneInv, NEW c \in Callers, Copy(c)
    PROVE  LaneInv'
  <1>1. PICK s \in Steps :
          /\ lane[c] = s /\ Work[s].by = "copy" /\ Pending(c, Work[s])
          /\ \/ /\ files' = [files EXCEPT ![c] = With(@, Work[s].makes, File(Bytes(c, Work[s].makes), @[Work[s].of].genuine))]
                /\ UNCHANGED << lane, gate, source, artifacts, given, seen, outcomes, changes >>
             \/ Raise(c)
    BY WorkFacts DEF Copy
  <1>2. CASE Raise(c)
    BY <1>1, <1>2, RaiseOK DEF Steps
  <1>3. CASE ~Raise(c)
    <2> DEFINE dir == With(files[c], Work[s].makes, File(Bytes(c, Work[s].makes), TRUE))
    <2>1. files' = [files EXCEPT ![c] = dir]
      <3>1. files' = [files EXCEPT ![c] = With(files[c], Work[s].makes, File(Bytes(c, Work[s].makes), files[c][Work[s].of].genuine))]
        BY <1>1, <1>3 DEF LaneInv, TypesOK
      <3>2. QED
        BY <1>1, <3>1, ReadsGenuine
    <2>2. /\ DOMAIN dir = {Work[s].makes} \cup DOMAIN files[c]
          /\ dir[Work[s].makes] = File(Bytes(c, Work[s].makes), TRUE)
          /\ \A n \in DOMAIN files[c] : dir[n] = files[c][n]
      BY <1>1 DEF With, Pending
    <2> HIDE DEF dir
    <2>3. outcomes' = [outcomes EXCEPT ![c] = outcomes[c]] /\ lane' = lane /\ given' = given
          /\ artifacts' = artifacts /\ source' = source /\ gate' = gate
      BY <1>1, <1>3, Same
    <2>4. QED
      BY <1>1, <2>1, <2>2, <2>3, MadeOK
  <1>4. QED
    BY <1>2, <1>3

LEMMA RunProgramOK ==
    ASSUME LaneInv, NEW c \in Callers, RunProgram(c)
    PROVE  LaneInv'
  <1>1. PICK s \in Steps :
          /\ lane[c] = s /\ Work[s].by \in Programs /\ Pending(c, Work[s])
          /\ \/ \E spoilt \in SUBSET Programs, strays \in SUBSET {"stray"} :
                  /\ Private(c, Work[s].by)
                  /\ files' = [files EXCEPT ![c] = Produced(c, Work[s], spoilt, strays)]
                  /\ outcomes' = [outcomes EXCEPT ![c] = Append(@, s)]
                  /\ UNCHANGED << lane, gate, source, artifacts, given, seen >>
             \/ Raise(c)
    <2>1. PICK s \in DOMAIN Work :
            /\ lane[c] = s /\ Work[s].by \in Programs /\ Pending(c, Work[s])
            /\ \/ \E spoilt \in SUBSET Programs, strays \in SUBSET {"stray"} :
                    /\ Private(c, Work[s].by)
                    /\ Cardinality(spoilt) + Cardinality(strays) + changes <= MaxChanges
                    /\ changes' = changes + Cardinality(spoilt) + Cardinality(strays)
                    /\ files' = [files EXCEPT ![c] = Produced(c, Work[s], spoilt, strays)]
                    /\ outcomes' = [outcomes EXCEPT ![c] = Append(@, s)]
                    /\ UNCHANGED << lane, gate, source, artifacts, given, seen >>
               \/ Raise(c)
      BY Zenon DEF RunProgram
    <2>2. CASE Raise(c)
      BY <2>1, <2>2, WorkFacts
    <2>3. CASE ~Raise(c)
      <3>1. PICK spoilt \in SUBSET Programs, strays \in SUBSET {"stray"} :
              /\ Private(c, Work[s].by)
              /\ files' = [files EXCEPT ![c] = Produced(c, Work[s], spoilt, strays)]
              /\ outcomes' = [outcomes EXCEPT ![c] = Append(@, s)]
              /\ UNCHANGED << lane, gate, source, artifacts, given, seen >>
        BY <2>1, <2>3, Zenon
      <3>2. s \in Steps
        BY WorkFacts
      <3>3. QED
        BY <2>1, <3>1, <3>2, Zenon
    <2>4. QED
      BY <2>2, <2>3
  <1>2. CASE Raise(c)
    BY <1>1, <1>2, RaiseOK DEF Steps
  <1>3. CASE ~Raise(c)
    <2>1. PICK spoilt \in SUBSET Programs, strays \in SUBSET {"stray"} :
            /\ Private(c, Work[s].by)
            /\ files' = [files EXCEPT ![c] = Produced(c, Work[s], spoilt, strays)]
            /\ outcomes' = [outcomes EXCEPT ![c] = Append(@, s)]
            /\ UNCHANGED << lane, gate, source, artifacts, given, seen >>
      BY <1>1, <1>3
    <2> DEFINE f == files[c]
               dir == Produced(c, Work[s], spoilt, strays)
               o == Append(outcomes[c], s)
    <2>2. files' = [files EXCEPT ![c] = dir] /\ outcomes' = [outcomes EXCEPT ![c] = o]
      BY <2>1 DEF LaneInv, TypesOK
    <2>3. DOMAIN dir \ {"stray"} = (DOMAIN files[c] \cup {Work[s].makes}) \ {"stray"}
      BY DEF Produced
    <2>4. dir[Work[s].makes] = File(Bytes(c, Work[s].makes), TRUE)
      <3>1. f[Work[s].of].genuine = TRUE /\ f[Work[s].by].genuine
        BY <1>1, <2>1, ReadsGenuine DEF Private
      <3>2. (f[Work[s].of].genuine /\ f[Work[s].by].genuine) = TRUE
        BY <3>1
      <3>3. dir[Work[s].makes] = File(Bytes(c, Work[s].makes), f[Work[s].of].genuine /\ f[Work[s].by].genuine)
        BY DEF Produced
      <3>4. QED
        BY <3>2, <3>3
    <2>5. ASSUME NEW n \in DOMAIN files[c] \cap Data PROVE dir[n] = files[c][n]
      <3>1. n # Work[s].makes /\ n # "stray" /\ n \notin spoilt
        BY <1>1 DEF Pending, Data, Programs
      <3>2. f[n] = File(SizeOf(c, n), TRUE)
        BY <1>1, Same DEF DataOK, Running
      <3>3. (f[n].genuine /\ n \notin spoilt) = TRUE /\ f[n].bytes = SizeOf(c, n)
        BY <3>1, <3>2 DEF File
      <3>4. dir[n] = File(f[n].bytes, f[n].genuine /\ n \notin spoilt)
        BY <3>1 DEF Produced
      <3>5. QED
        BY <3>2, <3>3, <3>4
    <2> HIDE DEF dir
    <2>6. o = IF Work[s].by = "copy" THEN outcomes[c] ELSE Append(outcomes[c], s)
      BY <1>1 DEF Programs
    <2> HIDE DEF o
    <2>7. /\ lane' = lane /\ given' = given /\ artifacts' = artifacts
          /\ source' = source /\ gate' = gate
      BY <2>1
    <2>8. \A n \in DOMAIN files[c] \cap Data : dir[n] = files[c][n]
      BY <2>5
    <2>9. QED
      BY <1>1, <2>2, <2>3, <2>4, <2>6, <2>7, <2>8, MadeOK
  <1>4. QED
    BY <1>2, <1>3

\* After the statement did its work its file is there, and so is what it read.
LEMMA DoneOK ==
    ASSUME LaneInv, NEW c \in Callers, NEW s \in Steps, lane[c] = s, ~Pending(c, Work[s])
    PROVE  /\ DOMAIN files[c] \ {"stray"} = Programs \cup Found[s] \cup {Work[s].makes}
           /\ outcomes[c] = Ran[Work[s].next]
  <1>1. DOMAIN files[c] \ {"stray"} # Programs \cup Found[s]
    BY WorkFacts DEF Pending, Data, Programs
  <1>2. /\ DOMAIN files[c] \ {"stray"} = Programs \cup Found[s] \cup {Work[s].makes}
        /\ outcomes[c] = IF Work[s].by = "copy" THEN Ran[s] ELSE Append(Ran[s], s)
    BY <1>1, Same DEF DirectoryOK
  <1>3. QED
    BY <1>2, WorkFacts

LEMMA TidyOK ==
    ASSUME LaneInv, NEW c \in Callers, Tidy(c)
    PROVE  LaneInv'
  <1>1. PICK s \in Steps :
          /\ lane[c] = s /\ ~Pending(c, Work[s])
          /\ \/ /\ Work[s].audit = "after" => Audited(Tidied(c, Work[s]))
                /\ files' = [files EXCEPT ![c] = Tidied(c, Work[s])]
                /\ Goto(c, Work[s].next)
                /\ UNCHANGED << gate, source, artifacts, given, seen, outcomes, changes >>
             \/ Raise(c)
    BY WorkFacts DEF Tidy
  <1>2. CASE Raise(c)
    BY <1>1, <1>2, RaiseOK DEF Steps
  <1>3. CASE ~Raise(c)
    <2> DEFINE dir == Tidied(c, Work[s])
               l == Work[s].next
    <2>1. /\ lane' = [lane EXCEPT ![c] = l] /\ files' = [files EXCEPT ![c] = dir]
          /\ outcomes' = [outcomes EXCEPT ![c] = outcomes[c]]
          /\ given' = given /\ artifacts' = artifacts /\ source' = source /\ gate' = gate
      BY <1>1, <1>3, Same DEF Goto
    <2>2. lane'[c] = l /\ files'[c] = dir /\ outcomes'[c] = outcomes[c]
      BY <2>1 DEF LaneInv, TypesOK
    <2>3. /\ DOMAIN dir = DOMAIN files[c] \ Work[s].drops
          /\ \A n \in DOMAIN dir : dir[n] = files[c][n]
      BY DEF Tidied, Without, Restrict
    <2>4. DOMAIN dir \ {"stray"} = Programs \cup Found[l]
      <3>1. Work[s].drops \subseteq Data /\ Found[l] = (Found[s] \cup {Work[s].makes}) \ Work[s].drops
        BY WorkFacts
      <3>2. DOMAIN files[c] \ {"stray"} = Programs \cup Found[s] \cup {Work[s].makes}
        BY <1>1, DoneOK
      <3>3. Programs \cap Data = {}
        BY DEF Programs, Data
      <3>4. QED
        BY <2>3, <3>1, <3>2, <3>3
    <2>5. outcomes[c] = Ran[l]
      BY <1>1, DoneOK
    <2>6. l = "recheck" => "stray" \notin DOMAIN dir
      BY <1>1, <1>3, WorkFacts DEF Audited
    <2>7. l \in Steps \cup {"recheck"} /\ l \in Statements /\ l \notin {"idle", "out"}
      BY WorkFacts DEF Statements, Steps
    <2> HIDE DEF dir, l
    <2>8. DirectoryOK(c)'
      <3>1. CASE l = "recheck"
        <4>1. DOMAIN dir = Programs \cup Found[l]
          BY <2>4, <2>6, <3>1
        <4>2. QED
          BY <2>2, <2>5, <3>1, <4>1 DEF DirectoryOK, Steps
      <3>2. CASE l \in Steps
        BY <2>2, <2>4, <2>5, <3>2 DEF DirectoryOK, Steps
      <3>3. QED
        BY <2>7, <3>1, <3>2
    <2>9. DataOK(c)'
      <3>1. \A n \in DOMAIN files[c] \cap Data : files[c][n] = File(SizeOf(c, n), TRUE)
        BY <1>1, Same DEF DataOK, Running
      <3>2. \A n : SizeOf(c, n)' = SizeOf(c, n)
        BY <2>1, SizesStay
      <3>3. \A n \in DOMAIN files'[c] \cap Data : files'[c][n] = File(SizeOf(c, n)', TRUE)
        BY <2>1, <2>2, <2>3, <3>1, <3>2
      <3>4. QED
        BY <3>3 DEF DataOK
    <2>10. DocumentsOK(c)'
      BY <1>1, <2>1, Same DEF DocumentsOK, Running
    <2>11. QED
      BY <1>1, <2>1, <2>7, <2>8, <2>9, <2>10, OneCaller DEF Steps
  <1>4. QED
    BY <1>2, <1>3

LEMMA RecheckOK ==
    ASSUME LaneInv, NEW c \in Callers, Recheck(c)
    PROVE  LaneInv'
  <1>1. CASE Raise(c)
    BY <1>1, RaiseOK DEF Recheck
  <1>2. CASE ~Raise(c)
    <2>1. /\ lane[c] = "recheck" /\ lane' = [lane EXCEPT ![c] = "yielded"]
          /\ files' = files /\ outcomes' = outcomes
          /\ given' = given /\ artifacts' = artifacts /\ source' = source /\ gate' = gate
      BY <1>2 DEF Recheck, Goto, job
    <2>2. lane'[c] = "yielded"
      BY <2>1 DEF LaneInv, TypesOK
    <2>3. DirectoryOK(c)'
      <3>1. Found["yielded"] = Found["recheck"] /\ Ran["yielded"] = Ran["recheck"]
        BY DEF Found, Ran
      <3>2. DOMAIN files[c] = Programs \cup Found["recheck"] /\ outcomes[c] = Ran["recheck"]
        BY <2>1, Same DEF DirectoryOK
      <3>3. files'[c] = files[c] /\ outcomes'[c] = outcomes[c] /\ "yielded" \notin Steps
        BY <2>1 DEF Steps
      <3>4. DOMAIN files'[c] = Programs \cup Found["yielded"] /\ outcomes'[c] = Ran["yielded"]
        BY <3>1, <3>2, <3>3
      <3>5. QED
        BY <2>2, <3>3, <3>4 DEF DirectoryOK
    <2>4. DataOK(c)'
      <3>1. \A n \in DOMAIN files[c] \cap Data : files[c][n] = File(SizeOf(c, n), TRUE)
        BY <2>1, Same DEF DataOK, Running
      <3>2. \A n : SizeOf(c, n)' = SizeOf(c, n)
        BY <2>1, SizesStay
      <3>3. \A n \in DOMAIN files'[c] \cap Data : files'[c][n] = File(SizeOf(c, n)', TRUE)
        BY <2>1, <3>1, <3>2
      <3>4. QED
        BY <3>3 DEF DataOK
    <2>5. DocumentsOK(c)'
      BY <2>1, <2>2, Same DEF DocumentsOK, Running
    <2>6. "yielded" \in Statements /\ "yielded" \notin {"idle", "out"}
      BY DEF Statements
    <2>7. QED
      BY <2>1, <2>3, <2>4, <2>5, <2>6, Same, OneCaller
  <1>3. QED
    BY <1>1, <1>2

-----------------------------------------------------------------------------
(* Entering, leaving and the environment *)

\* A caller who leaves, or who is refused.
LEMMA LeaveOK ==
    ASSUME LaneInv, NEW c \in Callers, Leave(c)
    PROVE  LaneInv'
  <1>1. /\ lane' = [lane EXCEPT ![c] = "out"] /\ files' = [files EXCEPT ![c] = Empty]
        /\ outcomes' = outcomes /\ given' = given /\ artifacts' = artifacts
        /\ source' = source /\ gate' = gate \ {c}
    BY DEF Leave, Goto
  <1>2. /\ lane'[c] = "out" /\ files'[c] = Empty
        /\ \A d \in Callers : d # c =>
             lane'[d] = lane[d] /\ files'[d] = files[d] /\ outcomes'[d] = outcomes[d]
    BY <1>1 DEF LaneInv, TypesOK
  <1>3. CallerOK(c)'
    BY <1>1, <1>2 DEF CallerOK, DirectoryOK, DataOK, DocumentsOK, GateOK, Running, Steps
  <1>4. ASSUME NEW d \in Callers, d # c PROVE CallerOK(d)'
    BY <1>1, <1>2, <1>4, OtherCaller DEF LaneInv
  <1>5. "out" \in Statements
    BY DEF Statements
  <1>6. TypesOK' /\ OneJob'
    BY <1>1, <1>5 DEF LaneInv, TypesOK, OneJob
  <1>7. QED
    BY <1>3, <1>4, <1>6 DEF LaneInv

LEMMA EnterOK ==
    ASSUME LaneInv, NEW c \in Callers, PrepareDisabled(c) \/ Enter(c)
    PROVE  LaneInv'
  <1>1. PICK l \in {"inputs", "out"} :
          /\ lane' = [lane EXCEPT ![c] = l] /\ files' = files
          /\ outcomes' = outcomes /\ given' = given /\ artifacts' = artifacts
          /\ source' = source
          /\ IF l = "inputs" THEN gate = {} /\ gate' = {c} ELSE gate' = gate
    BY DEF PrepareDisabled, Enter, Goto, job
  <1>2. lane[c] = "idle"
    BY DEF PrepareDisabled, Enter
  <1>3. /\ lane'[c] = l /\ files'[c] = files[c] /\ outcomes'[c] = outcomes[c]
        /\ \A d \in Callers : d # c =>
             lane'[d] = lane[d] /\ files'[d] = files[d] /\ outcomes'[d] = outcomes[d]
    BY <1>1 DEF LaneInv, TypesOK
  <1>4. c \notin gate /\ files[c] = Empty /\ outcomes[c] = << >>
    BY <1>2, Same DEF GateOK, DirectoryOK
  <1>5. CallerOK(c)'
    <2>1. GateOK(c)'
      BY <1>1, <1>3, <1>4 DEF GateOK
    <2>2. DirectoryOK(c)' /\ DataOK(c)' /\ DocumentsOK(c)'
      BY <1>3, <1>4 DEF DirectoryOK, DataOK, DocumentsOK, Running, Steps
    <2>3. QED
      BY <2>1, <2>2 DEF CallerOK
  <1>6. ASSUME NEW d \in Callers, d # c PROVE CallerOK(d)'
    BY <1>1, <1>3, <1>6, OtherCaller DEF LaneInv
  <1>7. l \in Statements
    BY DEF Statements
  <1>8. TypesOK' /\ OneJob'
    BY <1>1, <1>7 DEF LaneInv, TypesOK, OneJob
  <1>9. QED
    BY <1>5, <1>6, <1>8 DEF LaneInv

\* Whatever the environment replaces, and a step in which nothing happens.
LEMMA EnvironmentOK ==
    ASSUME LaneInv,
           \/ \E a \in Programs \cup Documents : Replace(a)
           \/ RewriteSource
           \/ UNCHANGED laneVars
    PROVE  LaneInv'
  <1>1. /\ lane' = lane /\ files' = files /\ outcomes' = outcomes /\ given' = given /\ gate' = gate
        /\ artifacts' \in [Programs \cup Documents -> BOOLEAN]
        /\ source'.genuine \in BOOLEAN
    <2>1. CASE \E a \in Programs \cup Documents : Replace(a)
      BY <2>1 DEF LaneInv, TypesOK, Replace, job
    <2>2. CASE RewriteSource
      <3>1. PICK genuine \in {source.genuine, FALSE}, n \in {0, 1} :
              source' = [genuine |-> genuine, identity |-> source.identity + n]
        BY <2>2 DEF RewriteSource
      <3>2. source'.genuine \in BOOLEAN
        BY <3>1 DEF LaneInv, TypesOK
      <3>3. QED
        BY <2>2, <3>2 DEF LaneInv, TypesOK, RewriteSource, job
    <2>3. CASE UNCHANGED laneVars
      BY <2>3 DEF LaneInv, TypesOK, laneVars, job
    <2>4. QED
      BY <2>1, <2>2, <2>3
  <1>2. TypesOK' /\ OneJob'
    BY <1>1 DEF LaneInv, TypesOK, OneJob
  <1>3. ASSUME NEW d \in Callers PROVE CallerOK(d)'
    BY <1>1, OtherCaller DEF LaneInv
  <1>4. QED
    BY <1>2, <1>3 DEF LaneInv

-----------------------------------------------------------------------------
(* The lane *)

LEMMA InitOK == LaneInit => LaneInv
  <1> SUFFICES ASSUME LaneInit PROVE LaneInv
    OBVIOUS
  <1>1. TypesOK /\ OneJob
    BY DEF LaneInit, TypesOK, OneJob, Statements
  <1>2. ASSUME NEW c \in Callers PROVE CallerOK(c)
    BY DEF LaneInit, CallerOK, DirectoryOK, DataOK, DocumentsOK, GateOK, Running, Steps
  <1>3. QED
    BY <1>1, <1>2 DEF LaneInv

LEMMA NextOK == LaneInv /\ [LaneNext]_laneVars => LaneInv'
  <1> SUFFICES ASSUME LaneInv, [LaneNext]_laneVars PROVE LaneInv'
    OBVIOUS
  <1>1. ASSUME NEW c \in Callers, Handle(c) PROVE LaneInv'
    BY <1>1, EnterOK, CheckInputsOK, CheckArtifactsOK, TakeSnapshotOK, CopyProgramsOK, CopyOK,
       RunProgramOK, TidyOK, RecheckOK, LeaveOK DEF Handle
  <1>2. QED
    BY <1>1, EnvironmentOK DEF LaneNext

\* What lies in a caller's directory, and what ran, is what the statement it is at
\* says, whichever files are replaced meanwhile (rnnoise_experimental.py, prepare).
THEOREM DirectoriesFollow == LaneSpec => []LaneInv
  <1>1. QED
    BY InitOK, NextOK, PTL DEF LaneSpec

\* A waveform handed out with a receipt was made of the recording asked for, by the
\* genuine programs in order, and the documents fit (prepare, before it yields).
THEOREM ReceiptsAreTrue == LaneSpec => []ReceiptTrue
  <1>1. LaneInv => ReceiptTrue
    <2> SUFFICES ASSUME LaneInv, NEW c \in Callers, lane[c] = "yielded"
                 PROVE  /\ DOMAIN files[c] = {"prepared"} \cup Programs
                        /\ files[c]["prepared"] = File(SourceBytes(c), TRUE)
                        /\ outcomes[c] = << "upsample", "denoise", "downsample" >>
                        /\ given[c].fits = Documents
      BY DEF ReceiptTrue
    <2>1. DOMAIN files[c] = {"prepared"} \cup Programs /\ outcomes[c] = Three
      BY Same DEF DirectoryOK, Found, Ran
    <2>2. files[c]["prepared"] = File(SizeOf(c, "prepared"), TRUE)
      BY <2>1, Same DEF DataOK, Running, Data
    <2>3. SizeOf(c, "prepared") = SourceBytes(c)
      BY DEF SizeOf, Bytes
    <2>4. given[c].fits = Documents
      BY Same DEF DocumentsOK, Running
    <2>5. QED
      BY <2>1, <2>2, <2>3, <2>4, ThreeRan
  <1>2. QED
    BY <1>1, DirectoriesFollow, PTL

\* One job at a time has audio on disk, and a caller who is out holds neither audio
\* nor the gate (_GLOBAL_JOB_GATE and the finally of prepare).
THEOREM LaneIsClean == LaneSpec => []LaneClean
  <1>1. LaneInv => LaneClean
    <2> SUFFICES ASSUME LaneInv PROVE LaneClean
      OBVIOUS
    <2>1. ASSUME NEW c \in Callers, files[c] # Empty PROVE c \in gate
      BY <2>1, Same DEF DirectoryOK, GateOK
    <2>2. ASSUME NEW c \in Callers, lane[c] \in {"idle", "out"} PROVE files[c] = Empty /\ c \notin gate
      BY <2>2, Same DEF DirectoryOK, GateOK
    <2>3. QED
      BY <2>1, <2>2 DEF LaneClean, LaneInv, OneJob
  <1>2. QED
    BY <1>1, DirectoriesFollow, PTL
-----------------------------------------------------------------------------
(* The sizes in a directory *)

ProgramSize(p) == IF p = "rnnoise" THEN ProgramBytes \div 2 ELSE ProgramBytes - ProgramBytes \div 2

ProgramsSized(c) == Running(c) => \A p \in Programs : files[c][p].bytes = ProgramSize(p)

Bounded(c) == Used(Without(files[c], {"stray"})) <= WorkspaceBytes(c)

SizesInv == LaneInv /\ \A c \in Callers : ProgramsSized(c) /\ Bounded(c)

LEMMA MaxOfSeven ==
    ASSUME NEW a \in Int, NEW b \in Int, NEW c \in Int, NEW d \in Int, NEW e \in Int, NEW f \in Int, NEW g \in Int
    PROVE  LET m == Max({a, b, c, d, e, f, g})
           IN  m \in Int /\ m >= a /\ m >= b /\ m >= c /\ m >= d /\ m >= e /\ m >= f /\ m >= g
  <1> DEFINE S == {a, b, c, d, e, f, g}
  <1>1. \E x \in S : \A y \in S : x >= y
    OBVIOUS
  <1>2. Max(S) \in S /\ \A y \in S : Max(S) >= y
    BY <1>1 DEF Max
  <1>3. QED
    BY <1>2

LEMMA QuotientIsInt ==
    ASSUME NEW n \in Nat
    PROVE  (n + FrameSamples - 1) \div FrameSamples \in Nat
  BY LaneAssumption

\* The sizes are natural numbers, and the estimate bounds every two or three files
\* the code thinks of.
LEMMA Estimates ==
    ASSUME NEW c \in Callers, given[c].frames \in Nat
    PROVE  /\ PcmBytes(c) \in Nat /\ UpBytes(c) \in Nat /\ DenoisedBytes(c) \in Nat /\ DemoBytes(c) \in Nat
           /\ SourceBytes(c) \in Nat /\ WorkspaceBytes(c) \in Int
           /\ WorkspaceBytes(c) >= ProgramBytes + SourceBytes(c) + PcmBytes(c)
           /\ WorkspaceBytes(c) >= ProgramBytes + PcmBytes(c) + UpBytes(c) + DemoBytes(c)
           /\ WorkspaceBytes(c) >= ProgramBytes + DemoBytes(c) + DenoisedBytes(c)
           /\ WorkspaceBytes(c) >= ProgramBytes + DenoisedBytes(c) + UpBytes(c)
  <1> DEFINE q == (3 * given[c].frames + FrameSamples - 1) \div FrameSamples
             whole == q * FrameSamples
  <1>1. q \in Nat
    <2>1. 3 * given[c].frames \in Nat
      OBVIOUS
    <2>2. QED
      BY <2>1, QuotientIsInt
  <1>2. whole \in Nat /\ PaddedSamples(c) = whole
    <2>1. PaddedSamples(c) = whole
      BY DEF PaddedSamples
    <2> HIDE DEF q
    <2>2. QED
      BY <1>1, <2>1, LaneAssumption
  <1> HIDE DEF q, whole
  <1>3. FrameSamples \in Nat /\ HeaderBytes \in Nat /\ HeaderBound \in Nat /\ ProgramBytes \in Nat
    BY LaneAssumption
  <1>4. PcmBytes(c) \in Nat /\ UpBytes(c) \in Nat /\ SourceBytes(c) \in Nat
    BY <1>3 DEF PcmBytes, UpBytes, SourceBytes
  <1>5. DemoBytes(c) \in Nat /\ DenoisedBytes(c) \in Nat
    BY <1>2, <1>3 DEF DemoBytes, DenoisedBytes
  <1> DEFINE m == Max({SourceBytes(c) + PcmBytes(c), PcmBytes(c) + UpBytes(c),
                       PcmBytes(c) + UpBytes(c) + DemoBytes(c),
                       DemoBytes(c) + DenoisedBytes(c), DenoisedBytes(c) + UpBytes(c),
                       UpBytes(c) + PcmBytes(c), 2 * PcmBytes(c) + HeaderBound})
  <1>6. /\ m \in Int /\ m >= SourceBytes(c) + PcmBytes(c) /\ m >= PcmBytes(c) + UpBytes(c) + DemoBytes(c)
        /\ m >= DemoBytes(c) + DenoisedBytes(c) /\ m >= DenoisedBytes(c) + UpBytes(c)
    <2> DEFINE s1 == SourceBytes(c) + PcmBytes(c)
               s2 == PcmBytes(c) + UpBytes(c)
               s3 == PcmBytes(c) + UpBytes(c) + DemoBytes(c)
               s4 == DemoBytes(c) + DenoisedBytes(c)
               s5 == DenoisedBytes(c) + UpBytes(c)
               s6 == UpBytes(c) + PcmBytes(c)
               s7 == 2 * PcmBytes(c) + HeaderBound
    <2>1. m = Max({s1, s2, s3, s4, s5, s6, s7})
      OBVIOUS
    <2>2. /\ s1 \in Int /\ s2 \in Int /\ s3 \in Int /\ s4 \in Int
          /\ s5 \in Int /\ s6 \in Int /\ s7 \in Int
      BY <1>3, <1>4, <1>5
    <2> HIDE DEF m, s1, s2, s3, s4, s5, s6, s7
    <2>3. m \in Int /\ m >= s1 /\ m >= s3 /\ m >= s4 /\ m >= s5
      BY <2>1, <2>2, MaxOfSeven
    <2>4. QED
      BY <2>3 DEF s1, s3, s4, s5
  <1>7. WorkspaceBytes(c) = ProgramBytes + m
    BY DEF WorkspaceBytes
  <1> HIDE DEF m
  <1>8. QED
    BY <1>3, <1>4, <1>5, <1>6, <1>7

\* What a directory holds whose files have the sizes their names say.
LEMMA HeldFacts ==
    ASSUME NEW c \in Callers, NEW dir, NEW D \in SUBSET Data,
           DOMAIN dir = D \/ DOMAIN dir = Programs \cup D,
           \A n \in D : dir[n].bytes = SizeOf(c, n),
           \A p \in Programs \cap DOMAIN dir : dir[p].bytes = ProgramSize(p)
    PROVE  /\ BytesOf(dir, "stray") = 0
           /\ \A n \in Data : BytesOf(dir, n) = IF n \in D THEN SizeOf(c, n) ELSE 0
           /\ BytesOf(dir, "rnnoise") \in {0, ProgramSize("rnnoise")}
           /\ BytesOf(dir, "resampler") \in {0, ProgramSize("resampler")}
  BY DEF BytesOf, Programs, Data
\* Which files are there together while a statement is at work.
LEMMA TogetherFacts ==
    /\ Found["pcm"] \cup {Work["pcm"].makes} = {"snapshot", "raw16"}
    /\ Found["upsample"] \cup {Work["upsample"].makes} = {"raw16", "raw48"}
    /\ Found["pad"] \cup {Work["pad"].makes} = {"raw16", "raw48", "padded48"}
    /\ Found["denoise"] \cup {Work["denoise"].makes} = {"padded48", "denoised48"}
    /\ Found["trim"] \cup {Work["trim"].makes} = {"denoised48", "aligned48"}
    /\ Found["downsample"] \cup {Work["downsample"].makes} = {"aligned48", "output16"}
    /\ Found["wav"] \cup {Work["wav"].makes} = {"output16", "prepared"}
  BY DEF Found, Work

\* Where a caller's files are as the statement says, they are within the estimate.
LEMMA StatementBounded ==
    ASSUME LaneInv, NEW c \in Callers, lane[c] # "leaving", ProgramsSized(c)
    PROVE  Bounded(c)
  <1> DEFINE dir == Without(files[c], {"stray"})
             D == DOMAIN dir \cap Data
  <1>1. DOMAIN dir = DOMAIN files[c] \ {"stray"} /\ \A n \in DOMAIN dir : dir[n] = files[c][n]
    BY DEF Without, Restrict
  <1>2. given[c].frames \in Nat
    BY LaneAssumption DEF LaneInv, TypesOK
  <1> HIDE DEF dir
  <1>3. ProgramBytes \in Nat /\ HeaderBytes \in Nat /\ HeaderBound \in Nat
    BY LaneAssumption
  <1>4. ProgramSize("rnnoise") \in Nat /\ ProgramSize("resampler") \in Nat
        /\ ProgramSize("rnnoise") + ProgramSize("resampler") = ProgramBytes
    BY <1>3 DEF ProgramSize
  <1>5. DirectoryOK(c) /\ DataOK(c) /\ lane[c] \in Statements
    BY Same
  <1>6. CASE lane[c] \in {"idle", "out", "inputs", "artifacts", "snapshot"}
    <2>1. DOMAIN dir = {}
      BY <1>1, <1>5, <1>6, EmptyFacts DEF DirectoryOK
    <2>2. Used(dir) = 0
      BY <2>1 DEF Used, BytesOf
    <2>3. QED
      BY <1>2, <1>3, <2>2, Estimates DEF Bounded, dir
  <1>7. ASSUME lane[c] \notin {"idle", "out", "inputs", "artifacts", "snapshot"}
        PROVE  Bounded(c)
    <2>1. lane[c] = "programs" \/ Running(c)
      BY <1>5, <1>7 DEF Statements, Running
    <2>2. ASSUME NEW n \in D PROVE dir[n].bytes = SizeOf(c, n)
      <3>1. n \in DOMAIN files[c] \cap Data /\ dir[n] = files[c][n]
        BY <1>1
      <3>2. files[c][n] = File(SizeOf(c, n), TRUE)
        BY <1>5, <2>1, <3>1 DEF DataOK
      <3>3. QED
        BY <3>1, <3>2 DEF File
    <2>3. \/ lane[c] = "programs" /\ DOMAIN dir = D /\ D = {"snapshot"}
          \/ Running(c) /\ DOMAIN dir = Programs \cup D
               /\ \/ D = Found[lane[c]]
                  \/ lane[c] \in Steps /\ D = Found[lane[c]] \cup {Work[lane[c]].makes}
      <3>1. CASE lane[c] = "programs"
        BY <1>1, <1>5, <3>1 DEF DirectoryOK, Data
      <3>2. CASE lane[c] \in Steps
        <4>1. Found[lane[c]] \subseteq Data /\ Work[lane[c]].makes \in Data
          BY <3>2, WorkFacts
        <4>2. QED
          BY <1>1, <1>5, <3>2, <4>1 DEF DirectoryOK, Running, Data, Programs
      <3>3. CASE lane[c] \in {"recheck", "yielded"}
        BY <1>1, <1>5, <3>3 DEF DirectoryOK, Running, Data, Programs, Found
      <3>4. QED
        BY <2>1, <3>1, <3>2, <3>3 DEF Running
    <2>4. \A p \in Programs \cap DOMAIN dir : dir[p].bytes = ProgramSize(p)
      BY <1>1, <2>3 DEF ProgramsSized, Programs, Data
    <2> HIDE DEF D
    <2>5. D \in SUBSET Data
      BY DEF D
    <2>6. /\ BytesOf(dir, "stray") = 0
          /\ \A n \in Data : BytesOf(dir, n) = IF n \in D THEN SizeOf(c, n) ELSE 0
          /\ BytesOf(dir, "rnnoise") \in {0, ProgramSize("rnnoise")}
          /\ BytesOf(dir, "resampler") \in {0, ProgramSize("resampler")}
      BY <2>2, <2>3, <2>4, <2>5, HeldFacts
    <2>7. \/ D \subseteq {"snapshot", "raw16"} \/ D \subseteq {"raw16", "raw48", "padded48"}
          \/ D \subseteq {"padded48", "denoised48"} \/ D \subseteq {"denoised48", "aligned48"}
          \/ D \subseteq {"aligned48", "output16"} \/ D \subseteq {"output16", "prepared"}
      <3>1. CASE lane[c] = "programs"
        BY <2>3, <3>1 DEF Running, Steps
      <3>2. CASE lane[c] \in {"recheck", "yielded"}
        <4>1. Found[lane[c]] = {"prepared"}
          BY <3>2 DEF Found
        <4>2. D = {"prepared"}
          BY <2>3, <3>2, <4>1 DEF Steps
        <4>3. QED
          BY <4>2
      <3>3. ASSUME lane[c] \in Steps
            PROVE  \/ D \subseteq {"snapshot", "raw16"} \/ D \subseteq {"raw16", "raw48", "padded48"}
                   \/ D \subseteq {"padded48", "denoised48"} \/ D \subseteq {"denoised48", "aligned48"}
                   \/ D \subseteq {"aligned48", "output16"} \/ D \subseteq {"output16", "prepared"}
        <4>1. D \subseteq Found[lane[c]] \cup {Work[lane[c]].makes}
          BY <2>3, <3>3 DEF Steps
        <4>2. CASE lane[c] = "pcm"        BY <4>1, <4>2, TogetherFacts
        <4>3. CASE lane[c] = "upsample"   BY <4>1, <4>3, TogetherFacts
        <4>4. CASE lane[c] = "pad"        BY <4>1, <4>4, TogetherFacts
        <4>5. CASE lane[c] = "denoise"    BY <4>1, <4>5, TogetherFacts
        <4>6. CASE lane[c] = "trim"       BY <4>1, <4>6, TogetherFacts
        <4>7. CASE lane[c] = "downsample" BY <4>1, <4>7, TogetherFacts
        <4>8. CASE lane[c] = "wav"        BY <4>1, <4>8, TogetherFacts
        <4>9. QED
          BY <3>3, <4>2, <4>3, <4>4, <4>5, <4>6, <4>7, <4>8 DEF Steps
      <3>4. QED
        BY <2>1, <3>1, <3>2, <3>3 DEF Running
    <2>8. Used(dir) <= WorkspaceBytes(c)
      <3>1. /\ BytesOf(dir, "stray") = 0
            /\ BytesOf(dir, "rnnoise") + BytesOf(dir, "resampler") \in Int
            /\ BytesOf(dir, "rnnoise") + BytesOf(dir, "resampler") <= ProgramBytes
        BY <1>3, <1>4, <2>6
      <3>2. \A n \in Data \ D : BytesOf(dir, n) = 0
        BY <2>6
      <3>3. /\ BytesOf(dir, "snapshot") \in {0, SourceBytes(c)} /\ BytesOf(dir, "prepared") \in {0, SourceBytes(c)}
            /\ BytesOf(dir, "raw16") \in {0, PcmBytes(c)} /\ BytesOf(dir, "output16") \in {0, PcmBytes(c)}
            /\ BytesOf(dir, "raw48") \in {0, UpBytes(c)} /\ BytesOf(dir, "aligned48") \in {0, UpBytes(c)}
            /\ BytesOf(dir, "padded48") \in {0, DemoBytes(c)} /\ BytesOf(dir, "denoised48") \in {0, DenoisedBytes(c)}
        BY <2>6 DEF Data, SizeOf, Bytes
      <3>4. CASE D \subseteq {"snapshot", "raw16"}
        BY <1>2, <1>3, <3>1, <3>2, <3>3, <3>4, Estimates DEF Used, Data
      <3>5. CASE D \subseteq {"raw16", "raw48", "padded48"}
        BY <1>2, <1>3, <3>1, <3>2, <3>3, <3>5, Estimates DEF Used, Data
      <3>6. CASE D \subseteq {"padded48", "denoised48"}
        BY <1>2, <1>3, <3>1, <3>2, <3>3, <3>6, Estimates DEF Used, Data
      <3>7. CASE D \subseteq {"denoised48", "aligned48"}
        BY <1>2, <1>3, <3>1, <3>2, <3>3, <3>7, Estimates DEF Used, Data
      <3>8. CASE D \subseteq {"aligned48", "output16"}
        BY <1>2, <1>3, <3>1, <3>2, <3>3, <3>8, Estimates DEF Used, Data
      <3>9. CASE D \subseteq {"output16", "prepared"}
        BY <1>2, <1>3, <3>1, <3>2, <3>3, <3>9, Estimates DEF Used, Data
      <3>10. QED
        BY <2>7, <3>4, <3>5, <3>6, <3>7, <3>8, <3>9
    <2>9. QED
      BY <2>8 DEF Bounded, dir
  <1>8. QED
    BY <1>6, <1>7
\* What a step of one caller does to the sizes: it raises and leaves the directory
\* as it is, or the programs it runs with have their sizes.
LEMMA StepSizes ==
    ASSUME SizesInv, NEW c \in Callers, Handle(c)
    PROVE  /\ given' = given
           /\ \A d \in Callers : d # c => files'[d] = files[d] /\ lane'[d] = lane[d]
           /\ lane'[c] = "leaving" => files'[c] = files[c]
           /\ ProgramsSized(c)'
  <1>1. given' = given
    BY DEF Handle, PrepareDisabled, Enter, CheckInputs, CheckArtifacts, TakeSnapshot, CopyPrograms, Copy,
           RunProgram, Tidy, Recheck, Leave, Raise, job
  <1>2. /\ lane = [d \in Callers |-> lane[d]] /\ files = [d \in Callers |-> files[d]]
        /\ lane[c] \in Statements /\ ProgramsSized(c) /\ CallerOK(c)
    BY Same DEF SizesInv, LaneInv, TypesOK
  <1>3. CASE Raise(c)
    BY <1>1, <1>2, <1>3 DEF Raise, job, ProgramsSized, Running, Steps
  <1>4. CASE PrepareDisabled(c) \/ Enter(c) \/ Leave(c)
    BY <1>1, <1>2, <1>4 DEF PrepareDisabled, Enter, Leave, Goto, job, ProgramsSized, Running, Steps
  <1>5. CASE ~Raise(c) /\ (CheckInputs(c) \/ CheckArtifacts(c) \/ TakeSnapshot(c))
    BY <1>1, <1>2, <1>5
       DEF CheckInputs, CheckArtifacts, TakeSnapshot, Goto, job, ProgramsSized, Running, Steps
  <1>6. CASE ~Raise(c) /\ Recheck(c)
    BY <1>1, <1>2, <1>6 DEF Recheck, Goto, job, ProgramsSized, Running, Steps
  <1>7. CASE ~Raise(c) /\ CopyPrograms(c)
    <2> DEFINE first == File(ProgramBytes \div 2, artifacts["rnnoise"])
               second == File(ProgramBytes - ProgramBytes \div 2, artifacts["resampler"])
               dir == With(With(files[c], "rnnoise", first), "resampler", second)
    <2>1. lane' = [lane EXCEPT ![c] = "pcm"] /\ files' = [files EXCEPT ![c] = dir]
      BY <1>7 DEF CopyPrograms, Goto
    <2>2. first.bytes = ProgramSize("rnnoise") /\ second.bytes = ProgramSize("resampler")
      BY DEF File, ProgramSize
    <2> HIDE DEF first, second
    <2>3. dir["rnnoise"] = first /\ dir["resampler"] = second
      BY DEF With
    <2> HIDE DEF dir
    <2>4. lane'[c] = "pcm" /\ files'[c] = dir
      BY <1>2, <2>1
    <2>5. \A p \in Programs : files'[c][p].bytes = ProgramSize(p)
      BY <2>2, <2>3, <2>4 DEF Programs
    <2>6. QED
      BY <1>1, <1>2, <2>1, <2>4, <2>5 DEF ProgramsSized, ProgramSize
  <1>8. CASE ~Raise(c) /\ (Copy(c) \/ RunProgram(c) \/ Tidy(c))
    <2>1. \E s \in Steps : \E dir :
            /\ lane[c] = s
            /\ lane' = lane \/ lane' = [lane EXCEPT ![c] = Work[s].next]
            /\ files' = [files EXCEPT ![c] = dir]
            /\ \A p \in Programs : dir[p].bytes = files[c][p].bytes
      <3>1. CASE Copy(c)
        <4>1. PICK s \in Steps :
                /\ lane[c] = s /\ lane' = lane
                /\ files' = [files EXCEPT ![c] = With(@, Work[s].makes, File(Bytes(c, Work[s].makes), @[Work[s].of].genuine))]
          BY <1>8, <3>1, WorkFacts DEF Copy
        <4> DEFINE file == File(Bytes(c, Work[s].makes), files[c][Work[s].of].genuine)
                   dir == With(files[c], Work[s].makes, file)
        <4>2. files' = [files EXCEPT ![c] = dir]
          BY <1>2, <4>1
        <4>3. Programs \subseteq DOMAIN files[c] /\ Work[s].makes \notin Programs
          BY <1>2, <4>1, WorkFacts DEF CallerOK, DirectoryOK, Data, Programs
        <4> HIDE DEF file
        <4>4. \A p \in Programs : dir[p].bytes = files[c][p].bytes
          BY <4>3 DEF With
        <4> HIDE DEF dir
        <4>5. lane[c] = s /\ (lane' = lane \/ lane' = [lane EXCEPT ![c] = Work[s].next])
          BY <4>1
        <4>6. QED
          BY <4>2, <4>4, <4>5
      <3>2. CASE RunProgram(c)
        <4>1. PICK s \in DOMAIN Work :
                /\ lane[c] = s
                /\ \/ \E spoilt \in SUBSET Programs, strays \in SUBSET {"stray"} :
                        /\ Private(c, Work[s].by)
                        /\ Cardinality(spoilt) + Cardinality(strays) + changes <= MaxChanges
                        /\ changes' = changes + Cardinality(spoilt) + Cardinality(strays)
                        /\ files' = [files EXCEPT ![c] = Produced(c, Work[s], spoilt, strays)]
                        /\ outcomes' = [outcomes EXCEPT ![c] = Append(@, s)]
                        /\ UNCHANGED << lane, gate, source, artifacts, given, seen >>
                   \/ Raise(c)
          BY <3>2, Zenon DEF RunProgram
        <4>2. PICK spoilt \in SUBSET Programs, strays \in SUBSET {"stray"} :
                files' = [files EXCEPT ![c] = Produced(c, Work[s], spoilt, strays)] /\ lane' = lane
          BY <1>8, <4>1
        <4> DEFINE dir == Produced(c, Work[s], spoilt, strays)
        <4>3. s \in Steps
          BY WorkFacts
        <4>4. Programs \subseteq DOMAIN files[c] /\ Work[s].makes \notin Programs
          BY <1>2, <4>1, <4>3, WorkFacts DEF CallerOK, DirectoryOK, Data, Programs
        <4>5. ASSUME NEW p \in Programs PROVE dir[p].bytes = files[c][p].bytes
          <5>1. p \in DOMAIN files[c] /\ p # Work[s].makes /\ p # "stray"
            BY <4>4 DEF Programs
          <5>2. dir[p] = File(files[c][p].bytes, files[c][p].genuine /\ p \notin spoilt)
            BY <5>1 DEF Produced
          <5>3. QED
            BY <5>2 DEF File
        <4> HIDE DEF dir
        <4>6. QED
          BY <4>1, <4>2, <4>3, <4>5 DEF dir
      <3>3. CASE Tidy(c)
        <4>1. PICK s \in Steps :
                /\ lane[c] = s /\ lane' = [lane EXCEPT ![c] = Work[s].next]
                /\ files' = [files EXCEPT ![c] = Tidied(c, Work[s])] /\ ~Pending(c, Work[s])
          BY <1>8, <3>3, WorkFacts DEF Tidy, Goto
        <4> DEFINE dir == Tidied(c, Work[s])
        <4>2. Programs \subseteq DOMAIN files[c] /\ Programs \cap Work[s].drops = {}
          BY <1>2, <4>1, WorkFacts DEF CallerOK, DirectoryOK, Data, Programs
        <4>3. \A p \in Programs : dir[p].bytes = files[c][p].bytes
          BY <4>2 DEF Tidied, Without, Restrict
        <4> HIDE DEF dir
        <4>4. QED
          BY <4>1, <4>3 DEF dir
      <3>4. QED
        BY <1>8, <3>1, <3>2, <3>3
    <2>2. PICK s \in Steps : \E dir :
            /\ lane[c] = s
            /\ lane' = lane \/ lane' = [lane EXCEPT ![c] = Work[s].next]
            /\ files' = [files EXCEPT ![c] = dir]
            /\ \A p \in Programs : dir[p].bytes = files[c][p].bytes
      BY <2>1
    <2>3. PICK dir :
            /\ lane[c] = s
            /\ lane' = lane \/ lane' = [lane EXCEPT ![c] = Work[s].next]
            /\ files' = [files EXCEPT ![c] = dir]
            /\ \A p \in Programs : dir[p].bytes = files[c][p].bytes
      BY <2>2
    <2>4. files'[c] = dir /\ lane'[c] # "leaving"
      BY <1>2, <2>3, WorkFacts DEF Steps
    <2>5. \A p \in Programs : files'[c][p].bytes = ProgramSize(p)
      BY <1>2, <2>3, <2>4 DEF ProgramsSized, Running
    <2>6. QED
      BY <1>1, <1>2, <2>3, <2>4, <2>5 DEF ProgramsSized, ProgramSize
  <1>9. QED
    BY <1>3, <1>4, <1>5, <1>6, <1>7, <1>8 DEF Handle
AllBounded == \A c \in Callers : LaneInv /\ lane[c] # "leaving" /\ ProgramsSized(c) => Bounded(c)

LEMMA StatementsBounded == AllBounded
  BY StatementBounded DEF AllBounded

\* The bound looks at a caller's files and at what its job is.
LEMMA BoundStays ==
    ASSUME NEW d \in Callers, files'[d] = files[d], given' = given, Bounded(d)
    PROVE  Bounded(d)'
  BY DEF Bounded, Used, BytesOf, Without, Restrict, WorkspaceBytes, SourceBytes, PcmBytes, UpBytes, DemoBytes,
         DenoisedBytes, PaddedSamples

LEMMA SizesNextOK == SizesInv /\ [LaneNext]_laneVars => SizesInv'
  <1> SUFFICES ASSUME SizesInv, [LaneNext]_laneVars PROVE SizesInv'
    OBVIOUS
  <1>1. LaneInv /\ LaneInv'
    BY NextOK DEF SizesInv
  <1>2. ASSUME NEW c \in Callers, Handle(c), NEW d \in Callers PROVE ProgramsSized(d)' /\ Bounded(d)'
    <2>1. /\ given' = given /\ \A e \in Callers : e # c => files'[e] = files[e] /\ lane'[e] = lane[e]
          /\ lane'[c] = "leaving" => files'[c] = files[c]
          /\ ProgramsSized(c)'
      BY <1>2, StepSizes
    <2>2. ProgramsSized(d)'
      BY <2>1 DEF SizesInv, ProgramsSized, Running, ProgramSize
    <2>3. CASE files'[d] = files[d]
      BY <2>1, <2>2, <2>3, BoundStays DEF SizesInv
    <2>4. CASE files'[d] # files[d]
      <3>1. lane'[d] # "leaving"
        BY <2>1, <2>4
      <3>2. AllBounded'
        BY StatementsBounded, PTL
      <3>3. QED
        BY <1>1, <2>2, <3>1, <3>2 DEF AllBounded
    <2>5. QED
      BY <2>2, <2>3, <2>4
  <1>3. CASE UNCHANGED << lane, files, given >>
    BY <1>1, <1>3, BoundStays DEF SizesInv, ProgramsSized, Running, ProgramSize
  <1>4. QED
    BY <1>1, <1>2, <1>3 DEF SizesInv, LaneNext, Replace, RewriteSource, laneVars, job

\* What a job holds on disk is never more than the estimate it was admitted by, apart
\* from what a program adds of its own (_workspace_bytes and max_workspace_bytes).
THEOREM WorkspaceIsBounded == LaneSpec => []WorkspaceBounded
  <1>1. LaneInit => SizesInv
    <2> SUFFICES ASSUME LaneInit PROVE SizesInv
      OBVIOUS
    <2>1. LaneInv
      BY InitOK
    <2>2. ASSUME NEW c \in Callers PROVE lane[c] = "idle"
      BY DEF LaneInit
    <2>3. ASSUME NEW c \in Callers PROVE ProgramsSized(c) /\ Bounded(c)
      <3>1. ProgramsSized(c)
        BY <2>2 DEF ProgramsSized, Running, Steps
      <3>2. QED
        BY <2>1, <2>2, <3>1, StatementBounded
    <2>4. QED
      BY <2>1, <2>3 DEF SizesInv
  <1>2. SizesInv => WorkspaceBounded
    BY DEF SizesInv, Bounded, WorkspaceBounded
  <1>3. QED
    BY <1>1, <1>2, SizesNextOK, PTL DEF LaneSpec
=============================================================================
