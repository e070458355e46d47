---------------------------- MODULE SttEvaluation ----------------------------
(***************************************************************************)
(* Scoring of transcripts (stt_evaluation.py): edit distances of texts,    *)
(* errors of speakers under the best one-to-one mapping, and the words     *)
(* that are compared for timing.  A text is the sequence of its units,     *)
(* words or characters, after normalisation; a unit is any value.          *)
(***************************************************************************)
EXTENDS Integers, SequencesExt

-----------------------------------------------------------------------------
(* Edit distance *)

\* Mutant: deletions and insertions are taken for each other.
EditStep_Swapped(same, diagonal, up, left) ==
    LET cost == IF same THEN 0 ELSE 1
        s == [diagonal EXCEPT !.cost = @ + cost, !.sub = @ + cost]
        d == [up EXCEPT !.cost = @ + 1, !.ins = @ + 1]
        i == [left EXCEPT !.cost = @ + 1, !.del = @ + 1]
    IN  IF s.cost <= d.cost /\ s.cost <= i.cost THEN s ELSE IF d.cost <= i.cost THEN d ELSE i

\* One cell: match or substitution, then deletion, then insertion.
EditStep(same, diagonal, up, left) ==
    LET cost == IF same THEN 0 ELSE 1
        s == [diagonal EXCEPT !.cost = @ + cost, !.sub = @ + cost]
        d == [up EXCEPT !.cost = @ + 1, !.del = @ + 1]
        i == [left EXCEPT !.cost = @ + 1, !.ins = @ + 1]
    IN  IF s.cost <= d.cost /\ s.cost <= i.cost THEN s ELSE IF d.cost <= i.cost THEN d ELSE i

\* _levenshtein
Edits(reference, hypothesis) ==
    LET cell[i \in 0..Len(reference), j \in 0..Len(hypothesis)] ==
          IF i = 0 THEN [cost |-> j, sub |-> 0, del |-> 0, ins |-> j]
          ELSE IF j = 0 THEN [cost |-> i, sub |-> 0, del |-> i, ins |-> 0]
          ELSE EditStep(reference[i] = hypothesis[j], cell[i - 1, j - 1], cell[i - 1, j], cell[i, j - 1])
    IN  cell[Len(reference), Len(hypothesis)]

-----------------------------------------------------------------------------
(* Speakers *)

\* _mapping_candidates: as many pairs as there can be; the others go unmatched.
PairingsOfSpeakers(refs, hyps) ==
    {pairs \in SUBSET (hyps \X refs) :
        /\ Cardinality(pairs) = Min({Cardinality(hyps), Cardinality(refs)})
        /\ \A p, q \in pairs : p # q => p[1] # q[1] /\ p[2] # q[2]}

\* Distance of what each reference speaker said to what was mapped to it, and of
\* unmatched hypothesis speakers to nothing.
MappedDistance(reference, hypothesis, pairs) ==
    LET Said(r) == IF \E p \in pairs : p[2] = r
                     THEN hypothesis[(CHOOSE p \in pairs : p[2] = r)[1]] ELSE << >>
        unmatched == {h \in DOMAIN hypothesis : ~\E p \in pairs : p[1] = h}
    IN  MapThenSumSet(LAMBDA r : Edits(reference[r], Said(r)).cost, DOMAIN reference)
        + MapThenSumSet(LAMBDA h : Edits(<< >>, hypothesis[h]).cost, unmatched)

\* _speaker_attributed: distance, and how many units it is a rate of.
SpeakerAttributed(reference, hypothesis) ==
    [distance |-> Min({MappedDistance(reference, hypothesis, pairs) :
                         pairs \in PairingsOfSpeakers(DOMAIN reference, DOMAIN hypothesis)}),
     units |-> MapThenSumSet(LAMBDA r : Len(reference[r]), DOMAIN reference)]

-----------------------------------------------------------------------------
(* Words that are compared *)

\* timestamp_word_metrics: pairs of equal words on the path that is traced back from
\* the end, for words [text, from, to].
AlignedWords(reference, hypothesis) ==
    LET cost == [i \in 0..Len(reference), j \in 0..Len(hypothesis) |->
                   Edits([k \in 1..i |-> reference[k].text], [k \in 1..j |-> hypothesis[k].text]).cost]
        trace[i \in 0..Len(reference), j \in 0..Len(hypothesis)] ==
          IF i = 0 /\ j = 0 THEN << >>
          ELSE IF i > 0 /\ j > 0 /\ reference[i].text = hypothesis[j].text /\ cost[i, j] = cost[i - 1, j - 1]
            THEN Append(trace[i - 1, j - 1], << i, j >>)
          ELSE IF i > 0 /\ j > 0 /\ cost[i, j] = cost[i - 1, j - 1] + 1 THEN trace[i - 1, j - 1]
          ELSE IF i > 0 /\ cost[i, j] = cost[i - 1, j] + 1 THEN trace[i - 1, j]
          ELSE trace[i, j - 1]
    IN  trace[Len(reference), Len(hypothesis)]

-----------------------------------------------------------------------------
(* What scores stand for *)

\* Ways to put some units of two texts side by side in order.
Alignments(n, m) ==
    {pairs \in SUBSET ((1..n) \X (1..m)) :
       \A p, q \in pairs : p # q => (p[1] < q[1] /\ p[2] < q[2]) \/ (q[1] < p[1] /\ q[2] < p[2])}

\* Edits of an alignment: side by side but different, only left, only right.
EditsOf(reference, hypothesis, pairs) ==
    LET sub == Cardinality({p \in pairs : reference[p[1]] # hypothesis[p[2]]})
        del == Len(reference) - Cardinality(pairs)
        ins == Len(hypothesis) - Cardinality(pairs)
    IN  [cost |-> sub + del + ins, sub |-> sub, del |-> del, ins |-> ins]

\* Edits are those of an alignment with the fewest; the words compared for timing are equal
\* and in order, and some alignment with the fewest edits puts them side by side.
EditsAreFewest(reference, hypothesis) ==
    LET all == Alignments(Len(reference), Len(hypothesis))
        fewest == Edits(reference, hypothesis)
        AsWords(s) == [i \in DOMAIN s |-> [text |-> s[i], from |-> 0, to |-> 1]]
        timed == ToSet(AlignedWords(AsWords(reference), AsWords(hypothesis)))
    IN  /\ fewest \in {EditsOf(reference, hypothesis, a) : a \in all}
        /\ \A a \in all : fewest.cost <= EditsOf(reference, hypothesis, a).cost
        /\ \A p \in timed : reference[p[1]] = hypothesis[p[2]]
        /\ \E a \in all : timed \subseteq a /\ EditsOf(reference, hypothesis, a).cost = fewest.cost

\* No one-to-one mapping of speakers, total or not, has a smaller distance.
MappingIsBest(reference, hypothesis) ==
    \A pairs \in {m \in SUBSET ((DOMAIN hypothesis) \X (DOMAIN reference)) :
                   \A p, q \in m : p # q => p[1] # q[1] /\ p[2] # q[2]} :
      SpeakerAttributed(reference, hypothesis).distance <= MappedDistance(reference, hypothesis, pairs)

=============================================================================
