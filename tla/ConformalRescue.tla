--------------------------- MODULE ConformalRescue ---------------------------
(***************************************************************************)
(* The adapter that offers runs of UNKNOWN tracklets to BM-RCM and applies *)
(* what it decides (bm_rcm_integration.py).                                *)
(*                                                                         *)
(* A tracklet is [label, valid, fine, clean, from, to, group, quality,     *)
(* vector, anchor]: valid says that it has an embedding, fine that it is   *)
(* neither overlap nor suspected to be mixed, and anchor is the speaker    *)
(* whose stable anchor it is, or 0; an anchor's block is its group.        *)
(* Groups are numbered from 1 and candidates below 0.                      *)
(***************************************************************************)
EXTENDS Conformal

CONSTANTS MaxCandidates,    \* MAX_INTEGRATION_CANDIDATES
          MaxIntegration    \* MAX_INTEGRATION_COORDINATE_WORK

UnknownLabel == 0

\* What may be in a run, and what a run goes on with.
Offered(t) == t.label = UnknownLabel /\ t.valid /\ t.fine /\ t.clean > 0
GoesOn(t, u) == t.group = u.group /\ t.to = u.from

\* Runs as << first, last >> before they are judged.
Stretches(tracks) ==
    {<< a, b >> \in (DOMAIN tracks) \X (DOMAIN tracks) :
       /\ a <= b
       /\ \A i \in a..b : Offered(tracks[i])
       /\ \A i \in a..(b - 1) : GoesOn(tracks[i], tracks[i + 1])
       /\ a > 1 => ~(Offered(tracks[a - 1]) /\ GoesOn(tracks[a - 1], tracks[a]))
       /\ b < Len(tracks) => ~(Offered(tracks[b + 1]) /\ GoesOn(tracks[b], tracks[b + 1]))}

\* A run as a candidate: time added up, worst quality, direction weighted by time.
AsCandidate(tracks, run, number) ==
    LET part == SubSeq(tracks, run[1], run[2])
    IN  [id |-> -number, clean |-> TRUE,
         duration |-> TotalOf([k \in DOMAIN part |-> part[k].clean]),
         quality |-> Min({part[k].quality : k \in DOMAIN part}),
         vector |-> [i \in DOMAIN part[1].vector |->
                       TotalOf([k \in DOMAIN part |-> part[k].vector[i] * part[k].clean])]]

\* _candidate_runs: long enough, and with a direction.
Runs(tracks, policy) ==
    LET long == SelectSeq(SetToSortSeq(Stretches(tracks), LAMBDA x, y : x[1] < y[1]),
                          LAMBDA run : LET c == AsCandidate(tracks, run, 0)
                                       IN  c.duration >= policy.minDuration /\ ~Zero(c.vector))
    IN  long

\* _anchor_blocks, speaker by speaker
AnchorsOf(tracks) ==
    LET Of(who) == SelectSeq(tracks, LAMBDA t : t.anchor = who /\ t.valid /\ t.fine)
        all == Of(1) \o Of(2)
    IN  [k \in DOMAIN all |-> [id |-> all[k].group, who |-> all[k].anchor,
                               vector |-> all[k].vector, quality |-> all[k].quality,
                               duration |-> all[k].clean, clean |-> TRUE]]

\* Mutant: a batch is one candidate larger than what its work allows.
BatchSize_Rounded(anchors, blocks) ==
    LET each == blocks * Len(anchors[1].vector)
    IN  Max({1, (MaxWork - WorkOf(anchors)) \div each + 1})

BatchSize(anchors, blocks) ==
    LET each == blocks * Len(anchors[1].vector)
    IN  Max({1, (MaxWork - WorkOf(anchors)) \div each})

\* The decisions of all runs, batch by batch.
Decisions(anchors, candidates, policy) ==
    LET blocks == Cardinality({f.id : f \in ToSet(anchors)})
        size == BatchSize(anchors, blocks)
        batches == (Len(candidates) + size - 1) \div size
    IN  IF \/ Len(candidates) > MaxCandidates
           \/ WorkOf(anchors) + Len(candidates) * blocks * Len(anchors[1].vector) > MaxIntegration
        THEN [k \in DOMAIN candidates |-> Failed("integration_candidate_bound")]
        ELSE FlattenSeq([b \in 1..batches |->
               AssignBatch(anchors,
                           SubSeq(candidates, (b - 1) * size + 1, Min({b * size, Len(candidates)})),
                           policy)])

\* Labels after what was decided of each run.
Labelled(tracks, runs, decisions) ==
    LET Given(i) == {k \in DOMAIN decisions : /\ runs[k][1] <= i /\ i <= runs[k][2]
                                              /\ decisions[k].decision = "SHADOW_SINGLETON"}
    IN  [i \in DOMAIN tracks |->
           IF tracks[i].label = UnknownLabel /\ Given(i) # {}
           THEN CHOOSE who \in decisions[CHOOSE k \in Given(i) : TRUE].gamma : TRUE
           ELSE tracks[i].label]

\* integrate_bm_rcm: what is decided of each run, << >> when nothing is prepared.
Prepared(anchors, decision, policy) ==
    decision = "H2_CONFIRMED" /\ anchors # << >> /\ Prepares(anchors, policy)

CandidatesOf(tracks, runs) == [k \in DOMAIN runs |-> AsCandidate(tracks, runs[k], k)]

Decided(tracks, anchors, runs, decision, policy) ==
    IF Prepared(anchors, decision, policy) THEN Decisions(anchors, CandidatesOf(tracks, runs), policy)
    ELSE << >>

-----------------------------------------------------------------------------
(* What the adapter promises *)

\* However many runs share a batch, each is decided as if it were alone; a tracklet gets a
\* name only if it was UNKNOWN, was offered, and its run's decision is for that one speaker.
BatchesAreInvisible(tracks, decision, policy) ==
    \A runs \in {Runs(tracks, policy)}, anchors \in {AnchorsOf(tracks)} :
    \A decisions \in {Decided(tracks, anchors, runs, decision, policy)},
       alone \in {[k \in DOMAIN runs |-> Assign(anchors, AsCandidate(tracks, runs[k], k), policy)]} :
    \A labels \in {Labelled(tracks, runs, decisions)} :
        /\ Prepared(anchors, decision, policy)
             /\ (\A d \in ToSet(decisions) : d.reason # "integration_candidate_bound") =>
               decisions = alone
        /\ \A i \in DOMAIN tracks :
             labels[i] # tracks[i].label =>
               /\ tracks[i].label = UnknownLabel /\ Offered(tracks[i]) /\ decision = "H2_CONFIRMED"
               /\ \E k \in DOMAIN runs : /\ runs[k][1] <= i /\ i <= runs[k][2]
                                         /\ alone[k].gamma = {labels[i]}
=============================================================================
