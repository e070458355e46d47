----------------------------- MODULE Algorithms -----------------------------
(***************************************************************************)
(* The pure algorithms, each on inputs that arrive piece by piece: a       *)
(* behaviour is about one of them under one setting, and its properties    *)
(* are about every input on the way.  The inputs are small and are chosen  *)
(* so that ties, gaps, splits, limits and cancellations come up.           *)
(***************************************************************************)
EXTENDS Integers, SequencesExt

VARIABLES algorithm,    \* which one
          setting,      \* its configuration
          input         \* what has arrived

algorithmVars == << algorithm, setting, input >>

VAD == INSTANCE SpeechRegions
Audio == INSTANCE FrontEnd
Scores == INSTANCE Evaluation
Texts == INSTANCE SttEvaluation
Rescue == INSTANCE ConformalRescue WITH
            VectorScale <- 10, QualityUnits <- 2, MaxDuration <- 10, MaxWork <- 19, MaxBatch <- 3,
            MaxCandidates <- 5, MaxIntegration <- 30
Graph == INSTANCE GraphRescue
Oracle == INSTANCE Cascade WITH MitmLimit <- 2, MaxSegments <- 6, MaxTotal <- 40, MaxStates <- 9
Network == INSTANCE SegmentationEvidence
Voices == INSTANCE EmbeddingBatches
Count == INSTANCE Hypotheses WITH
           Scale <- 400,
           Cfg <- [weightCap |-> 10, outlierDistance |-> 140, maxIterations |-> 30, seeds |-> 6,
                   stabilityBlocks |-> 8, minBlocks |-> 2, minClean |-> 3, maxDispersion |-> 140,
                   maxOutliers |-> 100, minSeparation |-> 60, minGain |-> 8, minStability |-> 200,
                   lambdaTwo |-> 20, lambdaStability |-> 20, lambdaCondition |-> 20, minScd |-> 200,
                   residualDistance |-> 180, residualDispersion |-> 80, residualSeparation |-> 60,
                   blend |-> 80, maxBenefit |-> 32, stableCeiling |-> 140, absoluteMax |-> 160,
                   minMargin |-> 12, updateMargin |-> 32, updateFit |-> 100, updateQuality |-> 2,
                   radius |-> 80, rivalMargin |-> 20, decay |-> 8]
Proxy == INSTANCE ProxyStability
Binding == INSTANCE Calibration
Cases == INSTANCE ReleaseCases
Review == INSTANCE Correction

-----------------------------------------------------------------------------
(* Regions of speech *)

VadSettings ==
    [onset : {50}, negative : {35}, silence : {0, 3}, pad : {1, 3}, longest : {0, 7}]

HearFrame(p) ==
    LET from == IF input = << >> THEN 0 ELSE Last(input).to
    IN  /\ algorithm = "regions" /\ Len(input) < 6
        /\ input' = Append(input, [from |-> from, to |-> from + 2 + (Len(input) % 2), p |-> p])

\* Cores, padding and marks are those of what was heard, however the scan got there.
RegionsFollowEvidence ==
    algorithm = "regions" /\ input # << >> => VAD!RegionsAreHeard(input, setting)

-----------------------------------------------------------------------------
(* Audio in blocks *)

AudioSettings == [size : 1..3, window : {1, 2}, context : 0..1]
GainPolicy == [trigger |-> 2, gain |-> 300, ceiling |-> 4, floor |-> 120]

HearSample(x) ==
    /\ algorithm = "audio" /\ Len(input) < 4
    /\ input' = Append(input, x)

\* Where a file is cut into blocks shows in nothing that is made of it.
BlocksDoNotShow ==
    algorithm = "audio" =>
      /\ Audio!BlocksAreInvisible(input, setting.size, setting.window, setting.context, 3, GainPolicy)
      /\ \A from, to \in {0, 333333, 333334, 500000, 1000000} :
           Audio!RegionIsRead(from, to, 3, Len(input))

\* What the canonical recording holds, between samples of the original: samples again.
CanonicalIsBetween ==
    algorithm = "audio" => Audio!BetweenNeighbours(input, setting.size)

-----------------------------------------------------------------------------
(* Evidence of the networks *)

NetworkSetting(window, shift, context) ==
    [window |-> window, shift |-> shift, context |-> context, field |-> 4, step |-> 3,
     clean |-> 11, purity |-> 13, threshold |-> 4, apart |-> 250]
NetworkSettings == {NetworkSetting(10, 4, 1), NetworkSetting(10, 5, 1), NetworkSetting(16, 5, 2)}

\* Three samples at a time, which is a step of the network's frames.
HearSpeakers(class) ==
    /\ algorithm = "segmentation" /\ Len(input) < 15
    /\ input' = input \o << class, class, class >>

VoiceSettings ==
    {cfg \in [length : {3}, shift : {2}, native : BOOLEAN, batch : {2}, exact : BOOLEAN,
              buffer : {2, 3}, window : {3}, period : {2}, all : BOOLEAN, chosen : {{}, {1, 3}}] :
       Voices!LegalOptions(cfg)}

OfferRegion(samples, says) ==
    /\ algorithm = "embeddings" /\ Len(input) < 3
    /\ input' = Append(input, [id |-> Len(input) + 1, samples |-> samples, says |-> says])

\* A voice as it is, less clear, and as it drifts away; another one, also in mid-block; and a
\* third that cancels out the first.  Clean speech is in halves of a second.
Heard(vector, voice, clean, quality, new) ==
    [vector |-> vector, voice |-> voice, clean |-> clean, quality |-> quality, new |-> new]
HeardAnchors ==
    {Heard(<< 400, 0 >>, 1, 3, 2, 1), Heard(<< 391, 83 >>, 1, 3, 1, 1), Heard(<< 302, 262 >>, 0, 12, 2, 1),
     Heard(<< 0, 400 >>, 2, 3, 2, 1), Heard(<< 0, 400 >>, 2, 3, 2, 0), Heard(<< -400, 0 >>, 0, 3, 2, 1)}

HearAnchor(a) ==
    /\ algorithm = "count" /\ Len(input) < 4
    /\ input' = Append(input, [id |-> Len(input) + 1, vector |-> a.vector, voice |-> a.voice, clean |-> a.clean,
                               quality |-> a.quality, from |-> Len(input), scd |-> 0,
                               group |-> a.new + IF input = << >> THEN 0 ELSE Last(input).group])

Known == [k \in 1..2 |-> [stable |-> << << 400, 0 >>, << 0, 400 >> >>[k], recent |-> << >>, frozen |-> FALSE]]

\* Names that a network gives speakers in a window and what else is in a batch show in no
\* evidence; overlapping windows leave out no sample and put frames where they belong, to
\* half a step; as many voices as there are are counted.
EvidenceIsStable ==
    /\ algorithm = "segmentation" /\ input # << >> =>
         /\ ToSet(input) = {{}} => Network!FramesAreAccounted(Len(input), setting)
         /\ Network!NamesDoNotShow(input, setting)
    /\ algorithm = "embeddings" /\ input # << >> => Voices!EmbeddingsAreOwn(input, setting)
    /\ algorithm = "count" => Count!HypothesesHold(input, Known)

-----------------------------------------------------------------------------
(* Scores of turns *)

Turn(who, from, to) == [who |-> who, from |-> from, to |-> to]
Turns == [reference |-> {Turn(1, 0, 3), Turn(2, 2, 5), Turn(1, 4, 7), Turn(90, 2, 3)},
          hypothesis |-> {Turn(11, 0, 2), Turn(12, 2, 5), Turn(11, 3, 7), Turn(12, 6, 8), Turn(91, 5, 6)}]
ScoreSettings ==
    [uem : {{<< 0, 8 >>}, {<< 1, 4 >>, << 5, 8 >>}, {<< 0, 3 >>, << 3, 6 >>}}, derCollar : 0..1]

AddTurn(side, turn) ==
    /\ algorithm = "scores" /\ turn \notin input[side]
    /\ input' = [input EXCEPT ![side] = @ \cup {turn}]

Span(from, to, who, central) == [from |-> from, to |-> to, who |-> who, central |-> central]
ProxySettings ==
    {[canonical |-> {Span(0, 2, 1, TRUE), Span(2, 4, 2, FALSE), Span(5, 6, 1, TRUE)}, tolerance |-> 0],
     [canonical |-> {Span(0, 1, 1, FALSE), Span(1, 3, 0, TRUE), Span(3, 6, 2, TRUE)}, tolerance |-> 1],
     [canonical |-> {Span(0, 3, 1, TRUE), Span(3, 6, 9, TRUE)}, tolerance |-> 1],
     [canonical |-> {Span(1, 3, 1, TRUE), Span(3, 5, 2, FALSE)}, tolerance |-> 1]}
Spans == {Span(from, from + length, who, FALSE) : from \in {0, 2, 4}, length \in {1, 3}, who \in 0..3}
           \cup {Span(3, 4, 9, FALSE)}

AddSpan(span) ==
    /\ algorithm = "proxy" /\ Cardinality(input) < 3 /\ span \notin input
    /\ input' = input \cup {span}


-----------------------------------------------------------------------------
(* Scores of texts *)

SayUnit(side, who, unit) ==
    /\ algorithm = "texts"
    /\ Len(input.reference[1]) + Len(input.reference[2])
         + Len(input.hypothesis[1]) + Len(input.hypothesis[2]) < 6
    /\ input' = [input EXCEPT ![side][who] = Append(@, unit)]

\* A score says what the ticks of time say, under the best relabelling there is; distances
\* of texts are the smallest over alignments and over mappings of speakers.
ScoresAreTrue ==
    /\ algorithm = "scores" =>
         Scores!ScoreIsTrue([reference |-> input.reference, hypothesis |-> input.hypothesis,
                             uem |-> setting.uem, words |-> {}, complete |-> TRUE, status |-> "PASS_HIGH"],
                            [derCollar |-> setting.derCollar, scdCollar |-> 1, refFloor |-> 3, hypFloor |-> 3])
    /\ algorithm = "proxy" => Proxy!AuditIsTrue(setting.canonical, input, setting.tolerance)
    /\ algorithm = "texts" =>
         /\ Texts!EditsAreFewest(input.reference[1], input.hypothesis[1])
         /\ Texts!MappingIsBest(input.reference, input.hypothesis)

-----------------------------------------------------------------------------
(* Who may authorise a PASS *)

Draft ==
    [id |-> "p", hashes |-> [m |-> "a", n |-> "b"], rates |-> {8, 16}, thresholds |-> {"t"},
     dataset |-> "A", scorer |-> "a", config |-> "b", approver |-> "x", version |-> "1", schema |-> "1",
     provenance |-> "complete", key |-> "k", signature |-> [is |-> "none"]]
Runtime == [id |-> "p", hashes |-> [m |-> "A", n |-> "b"], rate |-> 16, config |-> "B"]
Verifiers == [trust : {"RELEASE", "DEVELOPMENT", "NONE"}, keys : {{"k"}}]

Documents(d) ==
    {Binding!Signed(d, "k"), Binding!Signed(d, "j")}
      \cup {[d EXCEPT !.signature = [is |-> kind]] : kind \in {"none", "garbage"}}
      \cup {[d EXCEPT !.hashes = h] : h \in {[m |-> "b", n |-> "b"], [m |-> "A", n |-> "B"], [m |-> "a"], << >>}}
      \cup {[d EXCEPT !.rates = r] : r \in {{16}, {}, {0, 16}}}
      \cup {[d EXCEPT !.thresholds = t] : t \in {{}, {"u"}}}
      \cup {[d EXCEPT !.provenance = p] : p \in {"short", "complete"}}
      \cup {[d EXCEPT !.id = i] : i \in {"", "q"}} \cup {[d EXCEPT !.key = k] : k \in {"", "j"}}
      \cup {[d EXCEPT !.dataset = "bad"], [d EXCEPT !.scorer = "b"], [d EXCEPT !.config = "a"],
            [d EXCEPT !.approver = ""], [d EXCEPT !.version = "2"], [d EXCEPT !.schema = "2"]}
Runtimes(r) ==
    {[r EXCEPT !.hashes = h] : h \in {<< >>, [m |-> "a"], [m |-> "a", n |-> "b", o |-> "a"],
                                      [m |-> "b", n |-> "b"], [m |-> "bad", n |-> "b"]}}
      \cup {[r EXCEPT !.rate = x] : x \in {0, 4, 8}} \cup {[r EXCEPT !.config = c] : c \in {"", "a"}}
      \cup {[r EXCEPT !.id = i] : i \in {"", "q"}}

Edit(part, value) ==
    /\ input.edits < IF algorithm = "calibration" THEN 3 ELSE 2
    /\ input' = [input EXCEPT ![part] = value, !.edits = @ + 1]

Timeline(names) ==
    {[from |-> 2 * k, to |-> 2 * k + 2, who |-> names[k], status |-> "MACHINE", evidence |-> {k}] :
       k \in {x \in DOMAIN names : names[x] # "GAP"}}
Timelines == {Timeline(<< "UNKNOWN", "SPEAKER_01", "UNKNOWN" >>), Timeline(<< "UNKNOWN", "UNKNOWN", "OVERLAP" >>),
              Timeline(<< "UNKNOWN", "GAP", "UNKNOWN" >>)}

Name(from, length, who) ==
    /\ algorithm = "correction" /\ Cardinality(input) < 3
    /\ input' = input \cup {[from |-> from, to |-> from + length, who |-> who, id |-> Cardinality(input),
                             reviewer |-> 10 + Cardinality(input)]}

\* No PASS without a document that a release key signed as it is, for the models, rate and
\* configuration that are bound and that the run had; nor is such a document refused.  No
\* pack is trusted and no release accepted but for what is there, and no name is changed but
\* where a reviewer said so.
AuthorityIsEarned ==
    /\ algorithm = "calibration" =>
         Binding!AuthorityIsVouchedFor(input.doc, setting, input.now, input.seen)
    /\ algorithm = "pack" =>
         Cases!Pack!TrustIsVouchedFor(input.doc, setting, setting.host, input.now, input.seen)
    /\ algorithm = "release" =>
         Cases!Release!AcceptedIsWhole(input.doc, input.now, setting, Cases!Places)
    /\ algorithm = "second" => Cases!Second!PackIsComplete(input.doc, input.now, input.later)
    /\ algorithm = "correction" => Review!OnlyReviewed(setting, input, 0..9)

-----------------------------------------------------------------------------
(* Rescue of UNKNOWN speech *)

Conform(epsilon) ==
    [enabled |-> TRUE, epsilon |-> epsilon, minBlocks |-> 0, minQuality |-> 1, minDuration |-> 1,
     cap |-> 3, maxBlocks |-> 9, maxDimension |-> 2]
Vectors == {<< 1, 0 >>, << 0, 1 >>, << -1, 1 >>}

Fragment(id, who, vector, quality) ==
    [id |-> id, who |-> who, vector |-> vector, quality |-> quality, duration |-> 1 + quality,
     clean |-> TRUE]
AnchorBlock(vector, quality) ==
    /\ algorithm = "conformal" /\ Len(input) < 3
    /\ input' = Append(input, Fragment(1 + (2 * Len(input)) \div 3, 1, vector, quality))

\* Fragments of the first speaker before one of the second, and a candidate; blocks that
\* cancel out make no centroid, and the code fails closed on them.
Conformable ==
    LET rival == Fragment(9, 2, << 0, 1 >>, 2)
        blocks == Rescue!BlocksOf(input, 1, setting)
        Sums == {Rescue!SumOfBlocks(blocks)} \cup
                {Rescue!SumOfBlocks(SelectSeq(blocks, LAMBDA b : b.id # blocks[k].id)) : k \in DOMAIN blocks}
    IN  /\ Len(blocks) > 1 /\ (\A s \in Sums : ~Rescue!Zero(s)) =>
             Rescue!CoverageHolds(blocks, << Rescue!Block(<< rival >>, setting) >>, setting.epsilon)
        /\ input # << >> =>
             \A v \in Vectors :
               Rescue!DecisionIsOfBlocks(Append(input, rival), Fragment(10, 1, v, 2), setting)

Track(label, group, from, vector, fine) ==
    [label |-> label, valid |-> TRUE, fine |-> fine, clean |-> 1, from |-> from, to |-> from + 1,
     group |-> group, quality |-> 2, vector |-> vector, anchor |-> label]
Anchors == << Track(1, 1, 0, << 1, 0 >>, TRUE), Track(1, 2, 0, << 3, 1 >>, TRUE),
              Track(2, 3, 0, << 0, 1 >>, TRUE) >>
OfferTrack(gap, vector, fine) ==
    /\ algorithm = "batches" /\ Len(input) < 6
    /\ input' = Append(input, Track(0, 7 + gap, 2 * gap + Len(input), vector, fine))

\* A speaker's own blocks are turned away no more often than epsilon allows; decisions
\* depend on blocks and on nothing else about how fragments, runs and batches are cut.
ConformalIsFair ==
    /\ algorithm = "conformal" => Conformable
    /\ algorithm = "batches" =>
         \A decision \in {"H2_CONFIRMED", "H1_CONFIRMED"} :
           Rescue!BatchesAreInvisible(input, decision, setting)

GraphSettings ==
    [enabled : {TRUE}, k : {2, 4}, mutual : BOOLEAN, farthest : {3}, steps : {1, 2},
     minPosterior : {60}, minMargin : {20}, minLeave : {10}, minBlocks : {1},
     maxNodes : {9}, maxEdges : {90}, maxDistances : {90}]
Node(label, block, at) == [label |-> label, at |-> at, kind |-> "ANCHOR", block |-> block]
MoreNodes == {Node(1, 1, 1), Node(1, 2, 0), Node(1, 2, 2), Node(2, 3, 3), Node(2, 4, 2),
              Node(0, 9, 1), Node(0, 9, 2)}
AddNode(node) ==
    /\ algorithm = "graph" /\ Len(input) < 5
    /\ input' = Append(input, node)

\* A rescued tracklet would be given the same name without any one block that supports it.
GraphRescueStands ==
    algorithm = "graph" => Graph!RescueStands(input, {}, "H2_CONFIRMED", setting)

-----------------------------------------------------------------------------
(* The cascade *)

Budgets == << 10, 34, 50, 80, 100 >>
AddSegment(length, gain) ==
    /\ algorithm = "cascade" /\ Len(input) < 4
    /\ input' = Append(input, [from |-> 4 * Len(input), to |-> 4 * Len(input) + length,
                               draft |-> 2 + Max({0, gain}), refiner |-> 2 + Max({0, -gain}),
                               hard |-> "unmarked", reference |-> 5, refined |-> 5 - gain])

\* Both solvers pick the one selection that saves most, and more budget never costs errors.
OracleIsOptimal ==
    algorithm = "cascade" => Oracle!CascadeIsOptimal(input, Budgets)

-----------------------------------------------------------------------------
(* Behaviours *)

Settings ==
    [regions |-> VadSettings, audio |-> AudioSettings, scores |-> ScoreSettings, texts |-> {0}, count |-> {0},
     conformal |-> {Conform(<< 1, 2 >>), Conform(<< 1, 3 >>), Conform(<< 2, 3 >>)},
     segmentation |-> NetworkSettings, embeddings |-> VoiceSettings, proxy |-> ProxySettings,
     calibration |-> Verifiers,
     correction |-> Timelines, pack |-> Cases!PackSettings, second |-> {0}, release |-> {"development", "production"},
     batches |-> {Conform(<< 1, 2 >>)}, graph |-> GraphSettings, cascade |-> {0}]

FirstInput ==
    [regions |-> << >>, audio |-> << >>, scores |-> [reference |-> {}, hypothesis |-> {}],
     texts |-> [reference |-> << << >>, << >> >>, hypothesis |-> << << >>, << >> >>],
     conformal |-> << >>, batches |-> Anchors, graph |-> << Node(1, 1, 0), Node(2, 3, 4) >>,
     correction |-> {}, cascade |-> << >>, count |-> << >>, segmentation |-> << >>, embeddings |-> << >>, proxy |-> {},
     calibration |-> [doc |-> Binding!Signed(Draft, "k"), now |-> Runtime, seen |-> Runtime, edits |-> 0],
     pack |-> [doc |-> Cases!Manifest, now |-> Cases!Disk, seen |-> Cases!Disk, edits |-> 0],
     second |-> [doc |-> Cases!OfTokens(Cases!SecondDisk), now |-> Cases!SecondDisk, later |-> Cases!SecondDisk,
                 edits |-> 0],
     release |-> [doc |-> Cases!Catalog(Cases!Shipped), now |-> Cases!Shipped, edits |-> 0]]

AlgorithmInit ==
    /\ algorithm \in DOMAIN Settings
    /\ setting \in Settings[algorithm]
    /\ input = FirstInput[algorithm]

AlgorithmNext ==
    /\ \/ \E p \in {10, 40, 60} : HearFrame(p)
       \/ \E a \in HeardAnchors : HearAnchor(a)
       \/ \E x \in {-3, 0, 1, 2} : HearSample(x)
       \/ \E class \in {{}, {1}, {2}, {1, 3}} : HearSpeakers(class)
       \/ \E samples \in {2, 4, 9}, says \in {<< 1 >>, << 0, 1 >>, << 1, -1 >>} : OfferRegion(samples, says)
       \/ \E side \in DOMAIN Turns : \E turn \in Turns[side] : AddTurn(side, turn)
       \/ \E span \in Spans : AddSpan(span)
       \/ algorithm = "calibration" /\ \/ \E d \in Documents(input.doc) : Edit("doc", d)
                                       \/ \E part \in {"now", "seen"} : \E r \in Runtimes(input[part]) : Edit(part, r)
       \/ algorithm = "pack" /\ \/ \E d \in Cases!Manifests(input.doc) : Edit("doc", d)
                                \/ \E part \in {"now", "seen"} : \E d \in Cases!Disks(input[part]) : Edit(part, d)
       \/ algorithm = "second" /\ \/ \E p \in Cases!SecondPacks(input.doc, input.now) : Edit("doc", p)
                                  \/ \E part \in {"now", "later"} : \E d \in Cases!SecondDisks(input[part]) : Edit(part, d)
       \/ algorithm = "release" /\ \/ \E c \in Cases!Catalogs(input.doc, input.now) : Edit("doc", c)
                                   \/ \E f \in Cases!Deliveries(input.now) : Edit("now", f)
       \/ \E from \in {1, 2, 3, 5, 6}, length \in 1..3, who \in {"SPEAKER_00", "SPEAKER_01"} : Name(from, length, who)
       \/ \E side \in DOMAIN Turns, who \in 1..2, unit \in {"a", "b"} : SayUnit(side, who, unit)
       \/ \E vector \in Vectors, quality \in 1..2 : AnchorBlock(vector, quality)
       \/ \E gap \in 0..1, vector \in {<< 1, 0 >>, << -1, 1 >>}, fine \in BOOLEAN : OfferTrack(gap, vector, fine)
       \/ \E node \in MoreNodes : AddNode(node)
       \/ \E length \in {1, 3}, gain \in {-1, 1, 2} : AddSegment(length, gain)
    /\ UNCHANGED << algorithm, setting >>

AlgorithmSpec == AlgorithmInit /\ [][AlgorithmNext]_algorithmVars
=============================================================================
