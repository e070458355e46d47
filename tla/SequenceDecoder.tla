--------------------------- MODULE SequenceDecoder ---------------------------
(***************************************************************************)
(* The sequence decoder of src/sddiar/diarization.py: speech regions are   *)
(* cut into tracklets, every tracklet is compared with the confirmed       *)
(* speakers on its own, a Viterbi pass chooses the labels of the whole     *)
(* file, isolated short runs are withheld, and the labels become a         *)
(* timeline.  Times and costs are integers, see MCSequenceDecoder.         *)
(*                                                                         *)
(* build_tracklets refuses speaker-change and overlap events, so no        *)
(* tracklet is protected and no boundary carries evidence.  How far a      *)
(* tracklet is from the fitted speakers is an input; of the H1/H2 decision *)
(* the conditions on who is heard when are kept, those on costs and        *)
(* stability are left open: Hypotheses has them, and the recent centroid.  *)
(***************************************************************************)
EXTENDS Integers, FiniteSets, SequencesExt

CONSTANTS Recordings, \* what voice activity detection found, see Recording
          Evidence,   \* distances of a tracklet from the two speakers
          Invalid,    \* a tracklet without a usable embedding
          Cfg,        \* DiarizationConfig
          Infinity    \* the cost INF, which is above every number

SpeakerIds == {"SPEAKER_00", "SPEAKER_01"}
Kinds == {"ANCHOR", "SUPPORT", "MICRO"}
Decisions == {"H1_CONFIRMED", "H2_CONFIRMED", "UNCERTAIN_1_OR_2"}
Withheld == {"UNKNOWN", "OVERLAP", "OTHER"}

Recording == [regions : SUBSET [start : Nat, end : Nat], duration : Nat]

ASSUME ConfigAssumption ==
    /\ Cfg \in [max_tracklet : Nat \ {0}, anchor_min_clean : Nat,
                support_min_clean : Nat, anchor_outlier_distance_max : Nat,
                h2_min_independent_anchor_count : Nat, isolated_run_max : Nat,
                long_gap_reset : Nat \ {0}, switch_base : Nat, gap_relief : Nat,
                uncertainty_transition : Nat, unknown_cost : Nat,
                unknown_micro_cost : Nat, stable_distance_ceiling : [Kinds -> Nat],
                absolute_distance_max : [Kinds -> Nat], margin_min : [Kinds -> Nat],
                include_non_speech : BOOLEAN]
    /\ Infinity \notin Nat

\* Regions lie apart, in the recording.
ASSUME InputAssumption ==
    /\ Recordings \subseteq Recording
    /\ \A r \in Recordings :
         /\ \A a \in r.regions : 0 <= a.start /\ a.start < a.end /\ a.end <= r.duration
         /\ \A a, b \in r.regions : a # b => a.end < b.start \/ b.end < a.start
    /\ Evidence \subseteq [SpeakerIds -> Nat]
    /\ Invalid \notin Evidence

VARIABLES
    recording, \* the input
    decision,  \* state of the HypothesisDecision
    soft,      \* whether the opt-in soft emissions are used
    stage,     \* "building", "embedding", "scoring", "tracing", "repairing", "done"
    tracklets, \* sequence of [start, end, kind, group], group: the region's start
    distance,  \* distance[i]: evidence of tracklet i
    cost,      \* cost[i][q]: of the best labelling of 1..i that ends in q
    back,      \* back[i][q]: the label of i-1 in it
    labels,    \* while tracing, those of the last tracklets
    cursor,    \* the tracklet the repair looks at next
    spans      \* the timeline

input == << recording, decision, soft >>
dp == << cost, back >>
vars == << recording, decision, soft, stage, tracklets, distance, cost, back,
           labels, cursor, spans >>

N == Len(tracklets)

-----------------------------------------------------------------------------
(* build_tracklets *)

Kind(clean) == IF clean >= Cfg.anchor_min_clean THEN "ANCHOR"
               ELSE IF clean >= Cfg.support_min_clean THEN "SUPPORT"
               ELSE "MICRO"

\* Mutant: the last cut is forgotten, unless the rest is as long as the others.
Cuts_LastForgotten(r) ==
    {r.start, r.end} \cup
    {r.start + k * Cfg.max_tracklet :
        k \in 1..((r.end - r.start) \div Cfg.max_tracklet - 1)}

\* A region is cut every max_tracklet.
Cuts(r) ==
    {r.start, r.end} \cup
    {r.start + k * Cfg.max_tracklet :
        k \in 1..((r.end - r.start - 1) \div Cfg.max_tracklet)}

Pieces(r) ==
    {LET to == CHOOSE c \in Cuts(r) : /\ c > from
                                      /\ \A d \in Cuts(r) : d > from => c <= d
     IN  [start |-> from, end |-> to, kind |-> Kind(to - from), group |-> r.start] :
        from \in Cuts(r) \ {r.end}}

\* By the time they start, no two at once.
InOrder(set) ==
    [i \in 1..Cardinality(set) |->
        CHOOSE x \in set : Cardinality({y \in set : y.start < x.start}) = i - 1]

BuildTracklets(regions) == InOrder(UNION {Pieces(r) : r \in regions})

-----------------------------------------------------------------------------
(* select_anchor_evidence and evaluate_hypotheses *)

Anchors == {i \in 1..N : tracklets[i].kind = "ANCHOR" /\ distance[i] # Invalid}

Nearest(d, speakers) ==
    CHOOSE s \in speakers :
        \A t \in speakers : d[s] < d[t] \/ (d[s] = d[t] /\ (s = t \/ s = "SPEAKER_00"))

\* The anchors that belong to a cluster, in the order of time.
Inliers ==
    SelectSeq([i \in 1..N |-> i],
        LAMBDA i : i \in Anchors
                     /\ \E s \in SpeakerIds :
                            distance[i][s] <= Cfg.anchor_outlier_distance_max)
Cluster(i) == Nearest(distance[i], SpeakerIds)

\* Two speakers: each is heard in several regions, they alternate both ways, no
\* region passes from one to the other, and the first one heard is SPEAKER_00.
MayConfirmTwo ==
    LET who == [k \in DOMAIN Inliers |-> Cluster(Inliers[k])]
        Follows(s, t) == \E k \in 2..Len(who) : who[k-1] = s /\ who[k] = t
    IN  /\ \A s \in SpeakerIds :
             Cardinality({tracklets[i].group : i \in {i \in ToSet(Inliers) : Cluster(i) = s}})
               >= Cfg.h2_min_independent_anchor_count
        /\ Follows("SPEAKER_00", "SPEAKER_01") /\ Follows("SPEAKER_01", "SPEAKER_00")
        /\ \A k \in 2..Len(who) :
             tracklets[Inliers[k-1]].group = tracklets[Inliers[k]].group
               => who[k-1] = who[k]
        /\ who[1] = "SPEAKER_00"

\* One speaker, whose distances are those of SPEAKER_00.
MayConfirmOne ==
    \E i \in Anchors :
        distance[i]["SPEAKER_00"] <= Cfg.anchor_outlier_distance_max

-----------------------------------------------------------------------------
(* local_assignment *)

\* speaker_states_from_decision
States == CASE decision = "H1_CONFIRMED" -> {"SPEAKER_00"}
            [] decision = "H2_CONFIRMED" -> SpeakerIds
            [] OTHER -> {}

\* Mutant: the margin to the other speaker is not asked for.
LocalAssignment_NoMargin(kind, d) ==
    IF States = {} \/ d = Invalid THEN "UNKNOWN"
    ELSE LET best == Nearest(d, States)
         IN  IF d[best] <= Cfg.stable_distance_ceiling[kind] THEN best ELSE "UNKNOWN"

\* The nearest speaker, if it is near enough and clearly nearer than the other.
LocalAssignment(kind, d) ==
    IF States = {} \/ d = Invalid THEN "UNKNOWN"
    ELSE LET best == Nearest(d, States)
             passes ==
                 /\ d[best] <= Cfg.stable_distance_ceiling[kind]
                 /\ d[best] <= Cfg.absolute_distance_max[kind]
                 /\ \A other \in States \ {best} :
                        d[other] - d[best] >= Cfg.margin_min[kind]
         IN  IF passes THEN best ELSE "UNKNOWN"

Local(i) == LocalAssignment(tracklets[i].kind, distance[i])

-----------------------------------------------------------------------------
(* Costs *)

Plus(a, b) == IF Infinity \in {a, b} THEN Infinity ELSE a + b
Less(a, b) == a # Infinity /\ (b = Infinity \/ a < b)

Candidates == States \cup Withheld

WithinCeilings(i, speaker) ==
    /\ States # {} /\ distance[i] # Invalid
    /\ distance[i][speaker] <= Cfg.stable_distance_ceiling[tracklets[i].kind]
    /\ distance[i][speaker] <= Cfg.absolute_distance_max[tracklets[i].kind]

\* _emission and _soft_speaker_emissions.  No tracklet is protected and a
\* confirmed hypothesis bears no third-speaker risk: OVERLAP and OTHER are out.
Emission(i, q) ==
    CASE q = "UNKNOWN" -> IF tracklets[i].kind = "MICRO" THEN Cfg.unknown_micro_cost
                                                         ELSE Cfg.unknown_cost
      [] q \in SpeakerIds -> IF \/ soft /\ WithinCeilings(i, q)
                                \/ ~soft /\ Local(i) = q
                               THEN distance[i][q] ELSE Infinity
      [] OTHER -> Infinity

\* From label p of tracklet i-1 to label q of tracklet i.
Transition(i, p, q) ==
    LET gap == tracklets[i].start - tracklets[i-1].end
        relief == (Cfg.gap_relief * gap) \div Cfg.long_gap_reset
    IN  IF gap >= Cfg.long_gap_reset \/ p = q THEN 0
        ELSE IF p \notin SpeakerIds \/ q \notin SpeakerIds
          THEN Cfg.uncertainty_transition
        ELSE IF relief < Cfg.switch_base THEN Cfg.switch_base - relief ELSE 0

\* Ties go to UNKNOWN, then by name.
Order == << "UNKNOWN", "OTHER", "OVERLAP", "SPEAKER_00", "SPEAKER_01" >>
Rank == [q \in ToSet(Order) |-> CHOOSE i \in DOMAIN Order : Order[i] = q]

Cheapest(price) ==
    CHOOSE q \in Candidates :
        \A p \in Candidates :
            Less(price[q], price[p]) \/ (price[q] = price[p] /\ Rank[q] <= Rank[p])

-----------------------------------------------------------------------------
Init ==
    /\ recording \in Recordings
    /\ decision = "UNCERTAIN_1_OR_2"
    /\ soft = FALSE
    /\ stage = "building"
    /\ tracklets = << >>
    /\ distance = << >>
    /\ cost = << >>
    /\ back = << >>
    /\ labels = << >>
    /\ cursor = 2
    /\ spans = << >>

Build ==
    /\ stage = "building"
    /\ tracklets' = BuildTracklets(recording.regions)
    /\ stage' = "embedding"
    /\ UNCHANGED << input, distance, dp, labels, cursor, spans >>

\* One embedding per tracklet, in their order.
Embed ==
    /\ stage = "embedding"
    /\ Len(distance) < N
    /\ \E d \in Evidence \cup {Invalid} : distance' = Append(distance, d)
    /\ UNCHANGED << input, stage, tracklets, dp, labels, cursor, spans >>

\* The decision, and how the caller wants the decoder to be used.  Without
\* tracklets there is nothing to decode.
Decide ==
    /\ stage = "embedding"
    /\ Len(distance) = N
    /\ decision' \in {"UNCERTAIN_1_OR_2"}
                      \cup (IF MayConfirmTwo THEN {"H2_CONFIRMED"} ELSE {})
                      \cup (IF MayConfirmOne THEN {"H1_CONFIRMED"} ELSE {})
    /\ soft' \in BOOLEAN
    /\ stage' = IF N = 0 THEN "repairing" ELSE "scoring"
    /\ UNCHANGED << recording, tracklets, distance, dp, labels, cursor, spans >>

\* One step of the forward pass.
Score ==
    /\ stage = "scoring"
    /\ LET i == Len(cost) + 1
           emission == [q \in Candidates |-> Emission(i, q)]
           price == [q \in Candidates |-> [p \in Candidates |->
                       Plus(Plus(cost[i-1][p], Transition(i, p, q)), emission[q])]]
           best == [q \in Candidates |-> Cheapest(price[q])]
       IN  IF i = 1
             THEN /\ cost' = << emission >>
                  /\ back' = << [q \in Candidates |-> "UNKNOWN"] >>
             ELSE /\ cost' = Append(cost, [q \in Candidates |-> price[q][best[q]]])
                  /\ back' = Append(back, best)
    /\ stage' = IF Len(cost) + 1 = N THEN "tracing" ELSE "scoring"
    /\ UNCHANGED << input, tracklets, distance, labels, cursor, spans >>

\* Mutant: every label is the cheapest of its own column.
Trace_NoBackPointers ==
    /\ stage = "tracing"
    /\ labels' = << Cheapest(cost[N - Len(labels)]) >> \o labels
    /\ stage' = IF Len(labels) + 1 = N THEN "repairing" ELSE "tracing"
    /\ UNCHANGED << input, tracklets, distance, dp, cursor, spans >>

\* One step back; the first one chooses the last label.
Trace ==
    /\ stage = "tracing"
    /\ LET label == IF labels = << >> THEN Cheapest(cost[N])
                    ELSE back[N - Len(labels) + 1][Head(labels)]
       IN  labels' = << label >> \o labels
    /\ stage' = IF Len(labels) + 1 = N THEN "repairing" ELSE "tracing"
    /\ UNCHANGED << input, tracklets, distance, dp, cursor, spans >>

Short(i) == tracklets[i].end - tracklets[i].start <= Cfg.isolated_run_max

\* Mutant: the repair is left out.
Isolated_Never(i) == FALSE

\* A short speaker run between two equal labels, by what the labels are now.
Isolated(i) ==
    /\ labels[i] \in SpeakerIds
    /\ labels[i-1] = labels[i+1]
    /\ labels[i] # labels[i-1]
    /\ Short(i)

Repair ==
    /\ stage = "repairing"
    /\ cursor < N
    /\ labels' = IF Isolated(cursor) THEN [labels EXCEPT ![cursor] = "UNKNOWN"]
                                     ELSE labels
    /\ cursor' = cursor + 1
    /\ UNCHANGED << input, stage, tracklets, distance, dp, spans >>

-----------------------------------------------------------------------------
(* _materialize *)

Status(i) ==
    CASE labels[i] \in SpeakerIds -> "ASSIGNED"
      [] labels[i] = "OVERLAP" -> "OVERLAP"
      [] labels[i] = "UNKNOWN" /\ tracklets[i].kind = "MICRO" -> "UNKNOWN_SHORT"
      [] OTHER -> "UNKNOWN_INSUFFICIENT_EVIDENCE"

Span(start, end, label, status) ==
    [start |-> start, end |-> end, label |-> label, status |-> status]

\* Mutant: neighbours are merged across a pause.
Joins_AcrossPauses(i) ==
    /\ i > 1
    /\ labels[i-1] = labels[i]
    /\ Status(i-1) = Status(i)

\* Tracklet i continues the span of the one before.
Joins(i) ==
    /\ i > 1
    /\ tracklets[i-1].end = tracklets[i].start
    /\ labels[i-1] = labels[i]
    /\ Status(i-1) = Status(i)

\* The span of tracklet i and of all that continue it.
LastJoined(i) ==
    CHOOSE j \in i..N : (\A k \in (i + 1)..j : Joins(k)) /\ (j = N \/ ~Joins(j + 1))
Runs ==
    {Span(tracklets[i].start, tracklets[LastJoined(i)].end, labels[i], Status(i)) :
        i \in {i \in 1..N : ~Joins(i)}}

\* The pauses, where pauses are wanted: after tracklet i, and before the first one.
Since(i) == IF i = 0 THEN 0 ELSE tracklets[i].end
Until(i) == IF i = N THEN recording.duration ELSE tracklets[i + 1].start
Pauses ==
    {Span(Since(i), Until(i), "NON_SPEECH", "NON_SPEECH") :
        i \in {i \in 0..N : Cfg.include_non_speech /\ Since(i) < Until(i)}}

Materialized == InOrder(Runs \cup Pauses)

Materialize ==
    /\ stage = "repairing"
    /\ cursor >= N
    /\ spans' = Materialized
    /\ stage' = "done"
    /\ UNCHANGED << input, tracklets, distance, dp, labels, cursor >>

Next == Build \/ Embed \/ Decide \/ Score \/ Trace \/ Repair \/ Materialize

Spec == Init /\ [][Next]_vars

-----------------------------------------------------------------------------
(* Properties *)

Covers(x, t) == x.start <= t /\ t < x.end

\* build_tracklets loses no speech and invents none: every instant of speech lies
\* in exactly one tracklet, no tracklet is longer than allowed, and they are in
\* the order of time.  (Nothing changes the tracklets later.)
TrackletsTileSpeech ==
    stage = "embedding" /\ distance = << >> =>
        /\ \A t \in 0..(recording.duration - 1) :
             Cardinality({i \in 1..N : Covers(tracklets[i], t)})
               = IF \E r \in recording.regions : Covers(r, t) THEN 1 ELSE 0
        /\ \A i \in 1..N : tracklets[i].end - tracklets[i].start <= Cfg.max_tracklet
        /\ \A i \in 2..N : tracklets[i-1].end <= tracklets[i].start

\* What the labels of tracklets 1 to i cost, and a whole labelling.
CostUpTo(path) ==
    LET sum[i \in 1..N] ==
          IF i = 1 THEN Emission(1, path[1])
          ELSE Plus(Plus(sum[i-1], Transition(i, path[i-1], path[i])),
                    Emission(i, path[i]))
    IN  sum
PathCost(path) == CostUpTo(path)[N]

Traced == stage = "repairing" /\ cursor = 2 /\ N > 0

\* Of all labellings of the file the decoder finds a cheapest one, and if one as
\* cheap leaves the last tracklet UNKNOWN, so does the decoder.
LabelsAreCheapest ==
    Traced =>
        LET found == PathCost(labels)
        IN  /\ found # Infinity
            /\ \A path \in [1..N -> States \cup {"UNKNOWN"}] :
                 LET other == PathCost(path)
                 IN  \/ Less(found, other)
                     \/ /\ found = other
                        /\ path[N] = "UNKNOWN" => labels[N] = "UNKNOWN"

\* SDD 8: a speaker whose hard gate a tracklet does not pass is not its label,
\* whatever its neighbours are: the tracklet is near enough to that speaker and,
\* in the historical mode, clearly nearer to it than to the other one.
NobodyForced ==
    stage = "done" =>
        \A i \in 1..N : labels[i] \in SpeakerIds =>
            /\ labels[i] \in States
            /\ WithinCeilings(i, labels[i])
            /\ \A other \in States \ {labels[i]} :
                 soft \/ distance[i][other] - distance[i][labels[i]]
                           >= Cfg.margin_min[tracklets[i].kind]

\* The one pass of the repair leaves no short run of a speaker between two equal
\* labels, although each repair changes the neighbour of the next: a run is left
\* so only when the tracklet after it is short and was withheld itself.
IslandsWithheld ==
    stage = "done" =>
        \A i \in 2..(N - 1) :
            /\ labels[i] \in SpeakerIds
            /\ labels[i-1] = labels[i+1] /\ labels[i] # labels[i-1]
            /\ Short(i)
            => labels[i+1] = "UNKNOWN" /\ Short(i+1)

\* Between these instants neither the tracklets nor the spans change.
Instants ==
    LET marks == UNION {{x.start, x.end} : x \in ToSet(tracklets) \cup ToSet(spans)}
    IN  {t \in {0} \cup marks : t < recording.duration}

\* The timeline says of every instant what its tracklet's label says, in spans
\* that follow each other, never overlap, and are not split without a reason.
TimelineFaithful ==
    stage = "done" =>
        /\ \A t \in Instants :
             LET at == {i \in 1..N : Covers(tracklets[i], t)}
                 said == {<< spans[k].label, spans[k].status >> :
                            k \in {k \in DOMAIN spans : Covers(spans[k], t)}}
             IN  said = IF at # {} THEN {<< labels[i], Status(i) >> : i \in at}
                        ELSE IF Cfg.include_non_speech
                          THEN {<< "NON_SPEECH", "NON_SPEECH" >>}
                        ELSE {}
        /\ \A k \in 2..Len(spans) :
             /\ spans[k-1].end <= spans[k].start
             /\ \/ spans[k-1].end < spans[k].start
                \/ spans[k-1].label # spans[k].label
                \/ spans[k-1].status # spans[k].status

\* The comment on unknown_cost: it is above the distance ceilings so that Viterbi
\* does not undo a locally valid assignment of an ANCHOR or SUPPORT tracklet.
LocalAssignmentsKept ==
    Traced /\ ~soft =>
        \A i \in 1..N :
            tracklets[i].kind # "MICRO" /\ Local(i) \in SpeakerIds
              => labels[i] = Local(i)
=============================================================================
