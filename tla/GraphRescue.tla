----------------------------- MODULE GraphRescue -----------------------------
(***************************************************************************)
(* Labels for tracklets that the diarizer left UNKNOWN, from their nearest *)
(* neighbours among the ones it did not (graph_rescue_experimental.py).    *)
(*                                                                         *)
(* A tracklet is [label, kind, block, at]: at is its embedding, a place on *)
(* a line (None when it has none that is valid), and a pair of them is as  *)
(* far apart as their places; a weight halves with each step of distance,  *)
(* as exp(-distance / temperature) does.  Probabilities are pairs, one     *)
(* share for each speaker, over their sum.                                 *)
(***************************************************************************)
EXTENDS Integers, SequencesExt

None == -1
Speakers == {1, 2}
Unknown == 0
Overlap == 3

\* The function itself; TLC computes a table of it once.
Table(f) == f @@ << >>

Apart(a, b) == IF a.at < b.at THEN b.at - a.at ELSE a.at - b.at

\* A policy is [k, mutual, farthest, steps, minPosterior, minMargin, minLeave, minBlocks,
\* maxNodes, maxEdges, maxDistances]; thresholds are in hundredths.
Weight(distance, policy) == 2 ^ (policy.farthest - distance)

-----------------------------------------------------------------------------
(* The graph *)

\* The first k of the others within reach, by distance and then by number.
Nearest(tracks, nodes, i, policy) ==
    LET near == {j \in nodes \ {i} : Apart(tracks[i], tracks[j]) <= policy.farthest}
        ordered == SetToSortSeq(near, LAMBDA x, y :
                     \/ Apart(tracks[i], tracks[x]) < Apart(tracks[i], tracks[y])
                     \/ Apart(tracks[i], tracks[x]) = Apart(tracks[i], tracks[y]) /\ x < y)
    IN  {ordered[k] : k \in 1..Min({policy.k, Len(ordered)})}

\* _build_adjacency: neighbours of each node.
Adjacency(tracks, nodes, policy) ==
    LET directed == Table([i \in nodes |-> Nearest(tracks, nodes, i, policy)])
    IN  Table([i \in nodes |-> {j \in directed[i] : policy.mutual => i \in directed[j]}])

Edges(adjacency) == MapThenSumSet(LAMBDA i : Cardinality(adjacency[i]), DOMAIN adjacency)

\* Tracklets whose labels stand: anchors with an embedding, and the supports a caller names.
Seeds(tracks, requested) ==
    {i \in DOMAIN tracks : /\ tracks[i].label \in Speakers /\ tracks[i].at # None
                           /\ tracks[i].kind = "ANCHOR" \/ (i \in requested /\ tracks[i].kind = "SUPPORT")}
Nodes(tracks, requested) ==
    {i \in DOMAIN tracks : tracks[i].at # None /\ (tracks[i].label = Unknown \/ i \in Seeds(tracks, requested))}

-----------------------------------------------------------------------------
(* Scores *)

\* _anchor_scores: what the seeds next to a node weigh, for each speaker.
AnchorScores(tracks, adjacency, i, policy) ==
    Table([s \in Speakers |->
             MapThenSumSet(LAMBDA j : Weight(Apart(tracks[i], tracks[j]), policy),
                           {j \in adjacency[i] : tracks[j].label = s})])

AllOf(scores) == scores[1] + scores[2]
NoScores == [s \in Speakers |-> 0]

\* One round of _run_propagation; shares of all nodes have the common denominator.
Round(tracks, adjacency, shares, policy) ==
    Table([i \in DOMAIN adjacency |->
       IF tracks[i].label # Unknown THEN shares[i]
       ELSE LET told == {j \in adjacency[i] : AllOf(shares[j]) > 0}
                Others(j) == FoldSet(LAMBDA m, product : product * AllOf(shares[m]), 1, told \ {j})
            IN  Table([s \in Speakers |->
                         MapThenSumSet(LAMBDA j : Weight(Apart(tracks[i], tracks[j]), policy)
                                                    * shares[j][s] * Others(j), told)])])

\* _run_propagation, with the seeds of a block taken out.
Propagated(tracks, adjacency, removed, policy) ==
    LET start == [i \in DOMAIN adjacency |->
                    IF tracks[i].label = Unknown \/ tracks[i].block = removed THEN NoScores
                    ELSE [s \in Speakers |-> IF s = tracks[i].label THEN 1 ELSE 0]]
    IN  FoldLeft(LAMBDA shares, step : Round(tracks, adjacency, shares, policy),
                 start, [k \in 1..policy.steps |-> k])

\* _posterior of shares: who leads (the first on a tie), and the shares it compares.
Leader(scores) == IF scores[2] > scores[1] THEN 2 ELSE 1
MarginOf(scores) == scores[Leader(scores)] - scores[3 - Leader(scores)]
Reaches(part, scores, hundredths) == part * 100 >= hundredths * AllOf(scores)

\* Mutant: a block is taken out of the score of both speakers.
Left_Twice(tracks, adjacency, i, scores, block, policy) ==
    LET lost == MapThenSumSet(LAMBDA j : Weight(Apart(tracks[i], tracks[j]), policy),
                              {j \in adjacency[i] : tracks[j].label \in Speakers /\ tracks[j].block = block})
    IN  [s \in Speakers |-> Max({0, scores[s] - lost})]

\* The shortcut for one round: the block's weights are subtracted from the leader's score.
Left(tracks, adjacency, i, scores, block, policy) ==
    LET lost == MapThenSumSet(LAMBDA j : Weight(Apart(tracks[i], tracks[j]), policy),
                              {j \in adjacency[i] : /\ tracks[j].label = Leader(scores)
                                                    /\ tracks[j].block = block})
    IN  [scores EXCEPT ![Leader(scores)] = @ - lost]

-----------------------------------------------------------------------------
(* Rescue *)

\* What the full propagation, and the one without a block, say about a node.
FullScores(tracks, adjacency, i, policy) ==
    IF policy.steps = 1 THEN AnchorScores(tracks, adjacency, i, policy)
    ELSE Propagated(tracks, adjacency, None, policy)[i]
WithoutBlock(tracks, adjacency, i, block, policy) ==
    IF policy.steps = 1
    THEN Left(tracks, adjacency, i, AnchorScores(tracks, adjacency, i, policy), block, policy)
    ELSE Propagated(tracks, adjacency, block, policy)[i]

Support(tracks, adjacency, i, speaker) ==
    {tracks[j].block : j \in {n \in adjacency[i] : tracks[n].label = speaker}}

\* The leader holds on without any one of the blocks that support it.
Stable(tracks, adjacency, i, leader, policy) ==
    LET support == Support(tracks, adjacency, i, leader)
    IN  \A block \in support :
          LET left == WithoutBlock(tracks, adjacency, i, block, policy)
          IN  /\ Cardinality(support) - 1 >= policy.minBlocks
              /\ AllOf(left) > 0 /\ Leader(left) = leader
              /\ Reaches(MarginOf(left), left, policy.minLeave)

\* The speaker a node is given, or Unknown.
Candidate(tracks, adjacency, i, policy) ==
    LET scores == FullScores(tracks, adjacency, i, policy)
        leader == Leader(scores)
    IN  IF /\ AllOf(scores) > 0
           /\ Cardinality(Support(tracks, adjacency, i, leader)) >= policy.minBlocks
           /\ Stable(tracks, adjacency, i, leader, policy)
           /\ Reaches(scores[leader], scores, policy.minPosterior)
           /\ Reaches(MarginOf(scores), scores, policy.minMargin)
        THEN leader ELSE Unknown

Labels(tracks) == [i \in DOMAIN tracks |-> tracks[i].label]

\* rescue_unknowns: [outcome, labels]
Rescued(tracks, requested, decision, policy) ==
    LET seeds == Seeds(tracks, requested)
        nodes == Nodes(tracks, requested)
        adjacency == Adjacency(tracks, nodes, policy)
        Answer(outcome) == [outcome |-> outcome, labels |-> Labels(tracks)]
    IN  IF Len(tracks) > policy.maxNodes \/ ~(requested \subseteq DOMAIN tracks) THEN Answer("ERROR")
        ELSE IF ~policy.enabled THEN Answer("DISABLED")
        ELSE IF decision # "H2_CONFIRMED" THEN Answer("H2_REQUIRED")
        ELSE IF {tracks[i].label : i \in seeds} # Speakers THEN Answer("TWO_SEED_CLASSES_REQUIRED")
        ELSE IF ~\E i \in DOMAIN tracks : tracks[i].label = Unknown THEN Answer("NO_VALID_UNKNOWN_OR_ANCHOR")
        ELSE IF \/ \E i, j \in seeds : tracks[i].block = tracks[j].block /\ tracks[i].label # tracks[j].label
                \/ Cardinality(nodes) * (Cardinality(nodes) - 1) > policy.maxDistances
                \/ Edges(adjacency) > policy.maxEdges
        THEN Answer("ERROR")
        ELSE [outcome |-> "COMPUTED",
              labels |-> [i \in DOMAIN tracks |->
                            IF i \in nodes /\ tracks[i].label = Unknown
                            THEN Candidate(tracks, adjacency, i, policy) ELSE tracks[i].label]]

-----------------------------------------------------------------------------
(* What a rescue promises *)

\* One round of propagation is the sum of the seeds next to a node, with or without a block;
\* nothing but UNKNOWN is relabelled, only after H2_CONFIRMED, and whoever is rescued would
\* lead by the required margin after any supporting block is taken out of the audio.
RescueStands(tracks, requested, decision, policy) ==
    \A nodes \in {Nodes(tracks, requested)}, once \in {[policy EXCEPT !.steps = 1]} :
    \A adjacency \in {Adjacency(tracks, nodes, policy)},
       labels \in {Rescued(tracks, requested, decision, policy).labels} :
      LET Rerun(block, limit) == Propagated(tracks, adjacency, block, limit)
          unknown == {i \in nodes : tracks[i].label = Unknown}
          Consistent == \A i, j \in Seeds(tracks, requested) :
                          tracks[i].block = tracks[j].block => tracks[i].label = tracks[j].label
      IN  /\ Consistent =>
               \A i \in unknown : \A scores \in {AnchorScores(tracks, adjacency, i, once)} :
                 /\ scores = Rerun(None, once)[i]
                 /\ \A block \in Support(tracks, adjacency, i, Leader(scores)) :
                      Left(tracks, adjacency, i, scores, block, once) = Rerun(block, once)[i]
          /\ \A i \in DOMAIN tracks :
               labels[i] # tracks[i].label =>
                 /\ tracks[i].label = Unknown /\ tracks[i].at # None /\ decision = "H2_CONFIRMED"
                 /\ \A block \in Support(tracks, adjacency, i, labels[i]) :
                    \A left \in {Rerun(block, policy)[i]} :
                      Leader(left) = labels[i] /\ Reaches(MarginOf(left), left, policy.minLeave)

=============================================================================
