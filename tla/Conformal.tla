------------------------------ MODULE Conformal ------------------------------
(***************************************************************************)
(* BM-RCM (conformal_assignment_experimental.py): which of two speakers a  *)
(* candidate block of speech may belong to, ranked against the blocks that *)
(* are known to be theirs.  Vectors are fixed-point numbers on the unit    *)
(* circle and all rounding is the code's.                                  *)
(*                                                                         *)
(* A fragment is [id, who, vector, quality, duration, clean]: a block id,  *)
(* a speaker, an unscaled vector, a quality in 1 / QualityUnits, and       *)
(* whether it is marked valid and without overlap, mixing or a raised flag.*)
(* A policy is [enabled, epsilon (a pair), minBlocks (0 for none given),   *)
(* minQuality, minDuration, cap, maxBlocks, maxDimension].                 *)
(***************************************************************************)
EXTENDS Integers, SequencesExt

CONSTANTS VectorScale,      \* 1 000 000
          QualityUnits,     \* a quality of one
          MaxDuration,      \* of a block, and of a speaker
          MaxWork,          \* coordinates looked at in a batch
          MaxBatch          \* candidates in a batch

\* A vector by its coordinates; as a concatenation it is computed once.
Vector(at) == at \o << >>

Magnitude(x) == IF x < 0 THEN -x ELSE x
TotalOf(s) ==
    LET total[n \in 0..Len(s)] == IF n = 0 THEN 0 ELSE total[n - 1] + s[n]
    IN  total[Len(s)]
Largest(vector) == Max({Magnitude(vector[i]) : i \in DOMAIN vector})
Zero(vector) == \A i \in DOMAIN vector : vector[i] = 0

\* _round_fraction: halves go away from zero.
RoundRatio(n, d) == IF n >= 0 THEN (n + d \div 2) \div d ELSE -((d \div 2 - n) \div d)

\* math.isqrt
Root(n) == CHOOSE r \in 0..n : r * r <= n /\ n < (r + 1) * (r + 1)

Dot(x, y) == TotalOf([i \in DOMAIN x |-> x[i] * y[i]])

\* _normalize_integer_vector of a vector that is not zero
Unit(vector) ==
    LET top == Largest(vector)
        reduced == Vector([i \in DOMAIN vector |-> RoundRatio(vector[i] * VectorScale, top)])
        norm == Root(Dot(reduced, reduced))
    IN  Vector([i \in DOMAIN vector |-> RoundRatio(reduced[i] * VectorScale, norm)])

\* _quantize_unit_vector: multiples of a vector have one quantization.
Quantized(vector) ==
    LET top == Largest(vector)
    IN  Unit(Vector([i \in DOMAIN vector |-> RoundRatio(vector[i] * VectorScale, top)]))

\* ConformalAssignmentConfig.__post_init__
RequiredBlocks(epsilon) == Max({1, (epsilon[2] + epsilon[1] - 1) \div epsilon[1] - 1})
MinBlocks(policy) == IF policy.minBlocks = 0 THEN RequiredBlocks(policy.epsilon) ELSE policy.minBlocks

LegalPolicy(policy) ==
    /\ 0 < policy.epsilon[1] /\ policy.epsilon[1] < policy.epsilon[2]
    /\ policy.minBlocks # 0 => policy.minBlocks >= RequiredBlocks(policy.epsilon)
    /\ 0 < policy.minQuality /\ policy.minQuality <= QualityUnits
    /\ policy.minDuration > 0 /\ policy.cap \in 1..MaxDuration

\* _validate_safety
Safe(fragment, policy) ==
    /\ fragment.clean
    /\ policy.minQuality <= fragment.quality /\ fragment.quality <= QualityUnits
    /\ policy.minDuration <= fragment.duration /\ fragment.duration <= MaxDuration

\* What _quantize_unit_vector takes.
Usable(vector, policy) == Len(vector) \in 1..policy.maxDimension /\ ~Zero(vector)

-----------------------------------------------------------------------------
(* Calibration *)

\* _effective_weight, of fragments: mean quality by capped duration.
Weight(fragments, cap) ==
    LET time == TotalOf([k \in DOMAIN fragments |-> fragments[k].duration])
        good == TotalOf([k \in DOMAIN fragments |-> fragments[k].quality * fragments[k].duration])
    IN  RoundRatio(good * Min({time, cap}), QualityUnits * time)

\* Sum of vectors by quality and time, before it is put on the circle.
Direction(fragments) ==
    LET units == Vector([k \in DOMAIN fragments |-> Quantized(fragments[k].vector)])
    IN  Vector([i \in DOMAIN fragments[1].vector |->
          TotalOf([k \in DOMAIN fragments |-> units[k][i] * fragments[k].quality * fragments[k].duration])])

\* Mutant: a block has the direction of its first fragment.
Block_First(fragments, policy) ==
    [id |-> fragments[1].id, vector |-> Unit(Quantized(fragments[1].vector)),
     weight |-> Weight(fragments, policy.cap)]

\* _aggregate_fragments
Block(fragments, policy) ==
    [id |-> fragments[1].id, vector |-> Unit(Direction(fragments)),
     weight |-> Weight(fragments, policy.cap)]

FragmentsOf(anchors, who, id) == SelectSeq(anchors, LAMBDA f : f.who = who /\ f.id = id)
IdsOf(anchors, who) == {f.id : f \in {g \in ToSet(anchors) : g.who = who}}

\* Blocks of a speaker in the order of their ids, and their weighted sum.
BlocksOf(anchors, who, policy) ==
    LET ids == SetToSortSeq(IdsOf(anchors, who), <)
    IN  Vector([k \in DOMAIN ids |-> Block(FragmentsOf(anchors, who, ids[k]), policy)])

SumOfBlocks(blocks) ==
    Vector([i \in DOMAIN blocks[1].vector |->
              TotalOf([k \in DOMAIN blocks |-> blocks[k].vector[i] * blocks[k].weight])])

SpeakersOf(anchors) == {f.who : f \in ToSet(anchors)}
TimeOfSpeaker(anchors, who) ==
    TotalOf([k \in DOMAIN anchors |-> IF anchors[k].who = who THEN anchors[k].duration ELSE 0])
WorkOf(anchors) == TotalOf([k \in DOMAIN anchors |-> Len(anchors[k].vector)])

\* _prepare succeeds on these anchors.
Prepares(anchors, policy) ==
    /\ Len(anchors) <= policy.maxBlocks /\ WorkOf(anchors) <= MaxWork
    /\ \A f \in ToSet(anchors) : Safe(f, policy) /\ Usable(f.vector, policy)
    /\ \A f, g \in ToSet(anchors) : Len(f.vector) = Len(g.vector)
    /\ Cardinality(SpeakersOf(anchors)) = 2
    /\ \A f, g \in ToSet(anchors) : f.id = g.id => f.who = g.who
    /\ \A who \in SpeakersOf(anchors) :
         /\ \A id \in IdsOf(anchors, who) :
              LET fragments == FragmentsOf(anchors, who, id)
              IN  ~Zero(Direction(fragments)) /\ Weight(fragments, policy.cap) > 0
         /\ Cardinality(IdsOf(anchors, who)) >= MinBlocks(policy)
         /\ TimeOfSpeaker(anchors, who) <= MaxDuration
         /\ ~Zero(SumOfBlocks(BlocksOf(anchors, who, policy)))

-----------------------------------------------------------------------------
(* Scores *)

\* _cosine_distance_ratio and _relative_margin_ratio
Distance(x, y) ==
    LET bottom == Root(Dot(x, x) * Dot(y, y)) dot == Dot(x, y)
    IN  << Max({0, bottom - dot}), bottom >>
Difference(a, b) == << a[1] * b[2] - b[1] * a[2], a[2] * b[2] >>
Margin(vector, own, rival) == Difference(Distance(vector, own), Distance(vector, rival))
AtLeast(x, y) == x[1] * y[2] >= y[1] * x[2]

Leaving(total, block) == Vector([i \in DOMAIN total |-> total[i] - block.vector[i] * block.weight])
Joining(total, block) == Vector([i \in DOMAIN total |-> total[i] + block.vector[i] * block.weight])

\* Mutant: anchors are ranked among themselves and not with the candidate in.
Calibration_Without(own, rival, candidate) ==
    LET total == SumOfBlocks(own) other == Unit(SumOfBlocks(rival))
    IN  Vector([k \in DOMAIN own |-> Margin(own[k].vector, Unit(Leaving(total, own[k])), other)])

\* _score_class: margins of a speaker's blocks, each against the others and the candidate.
Calibration(own, rival, candidate) ==
    LET total == Joining(SumOfBlocks(own), candidate) other == Unit(SumOfBlocks(rival))
    IN  Vector([k \in DOMAIN own |-> Margin(own[k].vector, Unit(Leaving(total, own[k])), other)])

\* Every leave-one-out centroid exists.
Scorable(own, candidate) ==
    \A k \in DOMAIN own : ~Zero(Leaving(Joining(SumOfBlocks(own), candidate), own[k]))

\* The candidate's rank among the blocks of a speaker, over one more than their number.
PValue(own, rival, candidate) ==
    LET score == Margin(candidate.vector, Unit(SumOfBlocks(own)), Unit(SumOfBlocks(rival)))
        others == Calibration(own, rival, candidate)
    IN  << 1 + Cardinality({k \in DOMAIN others : AtLeast(others[k], score)}), Len(own) + 1 >>

Eligible(p, epsilon) == p[1] * epsilon[2] > epsilon[1] * p[2]

Failed(reason) == [decision |-> "FAIL_CLOSED", gamma |-> {}, reason |-> reason]
Disabled == [decision |-> "DISABLED", gamma |-> {}, reason |-> "disabled"]

\* Gamma: the speakers whose blocks the candidate does not stand out from.
Gamma(blocks, candidate, epsilon) ==
    {who \in DOMAIN blocks :
       LET rival == blocks[CHOOSE other \in DOMAIN blocks : other # who]
       IN  Eligible(PValue(blocks[who], rival, candidate), epsilon)}

Decision(gamma) ==
    [decision |-> CASE Cardinality(gamma) = 0 -> "OOD"
                    [] Cardinality(gamma) = 1 -> "SHADOW_SINGLETON"
                    [] OTHER -> "AMBIGUOUS",
     gamma |-> gamma, reason |-> "epsilon_gamma"]

\* _evaluate_prepared_candidate; a candidate's vector is not aggregated.
Evaluated(anchors, candidate, policy) ==
    LET blocks == [who \in SpeakersOf(anchors) |-> BlocksOf(anchors, who, policy)]
        block == [id |-> candidate.id, vector |-> Quantized(candidate.vector),
                  weight |-> Weight(<< candidate >>, policy.cap)]
    IN  IF \/ candidate.id \in {f.id : f \in ToSet(anchors)}
           \/ ~Safe(candidate, policy) \/ ~Usable(candidate.vector, policy)
           \/ Len(candidate.vector) # Len(anchors[1].vector)
           \/ block.weight <= 0
           \/ \E who \in SpeakersOf(anchors) : ~Scorable(blocks[who], block)
        THEN Failed("invalid_input")
        ELSE Decision(Gamma(blocks, block, policy.epsilon))

\* evaluate_bm_rcm
Assign(anchors, candidate, policy) ==
    IF ~policy.enabled THEN Disabled
    ELSE IF ~Prepares(anchors, policy) THEN Failed("invalid_input")
    ELSE Evaluated(anchors, candidate, policy)

\* evaluate_bm_rcm_batch: too many candidates fail, all but the last that was looked at;
\* anchors that fail are one result however many candidates there are.
AssignBatch(anchors, candidates, policy) ==
    LET blocks == Cardinality({f.id : f \in ToSet(anchors)})
        refused == [k \in 1..Min({Len(candidates), MaxBatch + 1}) |-> Failed("resource_bound")]
    IN  IF ~policy.enabled
        THEN IF Len(candidates) > MaxBatch THEN Front(refused)
             ELSE [k \in DOMAIN candidates |-> Disabled]
        ELSE IF ~Prepares(anchors, policy) THEN << Failed("invalid_input") >>
        ELSE IF \/ Len(candidates) > MaxBatch
                \/ WorkOf(anchors) + Len(candidates) * blocks * Len(anchors[1].vector) > MaxWork
        THEN refused
        ELSE [k \in DOMAIN candidates |-> Evaluated(anchors, candidates[k], policy)]

-----------------------------------------------------------------------------
(* What a p-value promises *)

\* Take the blocks of one speaker in turn for the candidate and the rest for the anchors:
\* no more than the share epsilon of them is turned away.
CoverageHolds(blocks, rival, epsilon) ==
    LET away == {k \in DOMAIN blocks : ~Eligible(PValue(RemoveAt(blocks, k), rival, blocks[k]), epsilon)}
    IN  Cardinality(away) * epsilon[2] <= epsilon[1] * Len(blocks)

\* What is decided depends neither on the order of the anchors nor on how the time of one
\* fragment is cut up; a decision names one speaker exactly when one speaker is eligible,
\* and there are enough anchors for everybody to be turned away.
DecisionIsOfBlocks(anchors, candidate, policy) ==
    LET f == anchors[1]
        half == f.duration \div 2
        cut == << [f EXCEPT !.duration = half], [f EXCEPT !.duration = @ - half] >> \o Tail(anchors)
        same == {anchors, Reverse(anchors), IF half >= policy.minDuration THEN cut ELSE anchors}
    IN  /\ Cardinality({Assign(as, candidate, policy) : as \in same}) = 1
        /\ \A result \in {Assign(anchors, candidate, policy)},
             batch \in {AssignBatch(anchors, << candidate, candidate >>, policy)} :
          /\ Cardinality(result.gamma) = 1 <=> result.decision = "SHADOW_SINGLETON"
          /\ result.decision = "OOD" =>
               \A who \in SpeakersOf(anchors) :
                 Cardinality(IdsOf(anchors, who)) + 1 >= policy.epsilon[2] \div policy.epsilon[1]
          /\ batch = << result, result >> \/ \A each \in ToSet(batch) : each.decision = "FAIL_CLOSED"

=============================================================================
