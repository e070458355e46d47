------------------------- MODULE AnnotationPackProofs -------------------------
(***************************************************************************)
(* Packs of clips for any number of builders and clips, any recording and  *)
(* any choice of the seed: a pack is published once, one that verify_pack  *)
(* accepts is sound, whatever else was written meanwhile, and a builder    *)
(* refuses what it made itself for one reason only.                        *)
(***************************************************************************)
EXTENDS AnnotationPack, FiniteSetTheorems, WellFoundedInduction, TLAPS

-----------------------------------------------------------------------------
(* The inductive invariant *)

Writing == {"annotator", "template", "manifest"}
Sealing == {"sidecar", "seal", "publish"}
Copied == {"clips"} \cup Writing

\* What _select_specs promises of a choice.
Picked(chosen, n) ==
    /\ DOMAIN chosen = 1..ClipCount
    /\ \A i \in 1..ClipCount : chosen[i].start \in Grid(n, 0, SourceFrames - n)

\* The first k clips, cut from one recording.
CutsOf(chosen, source, n, k) == [i \in 1..k |-> Cut(source, chosen[i].start, n)]

\* A manifest tells of clips that were picked for what it names as their timing, and
\* cut from what it names as their source.
GoodManifest(chosen, n, m) ==
    /\ Picked(chosen, n) /\ Checked(chosen, m, n)
    /\ LET cuts == CutsOf(chosen, m.source, n, ClipCount)
       IN  /\ m.clips = EvaluatorRows(chosen, cuts)
           /\ \E order \in Shuffles : m.annotator = AnnotatorRows(cuts, order)

CopiesOK(b) ==
    /\ building[b] \in {"reference", "system", "select"} \cup Copied => "audio" \in DOMAIN copies[b]
    /\ building[b] \in {"system", "select"} \cup Copied =>
         "reference" \in DOMAIN copies[b] /\ copies[b]["reference"] \in SUBSET Nat
    /\ building[b] \in {"select"} \cup Copied =>
         "system" \in DOMAIN copies[b] /\ copies[b]["system"] \in SUBSET (Nat \X Nat)

CutsHeld(b, k) == CutsOf(specs[b], copies[b]["audio"], clip[b], k)

ClipsOK(b) ==
    LET files == staging[b].files
    IN  /\ building[b] \in Copied => /\ Picked(specs[b], clip[b])
                                     /\ Checked(specs[b], copies[b], clip[b])
                                     /\ "clips" \in DOMAIN files
        /\ building[b] = "clips" => \E k \in 0..(ClipCount - 1) : files["clips"] = CutsHeld(b, k)
        /\ building[b] \in Writing => files["clips"] = CutsHeld(b, ClipCount)

DocumentsOK(b) ==
    LET files == staging[b].files
    IN  /\ building[b] \in {"template", "manifest"} =>
             /\ "annotator" \in DOMAIN files
             /\ \E order \in Shuffles : files["annotator"] = AnnotatorRows(files["clips"], order)
        /\ building[b] \in Sealing =>
             "manifest" \in DOMAIN files /\ GoodManifest(specs[b], clip[b], files["manifest"])
        /\ building[b] = "publish" => Verified(files, files["manifest"])

EndOK(b) ==
    /\ building[b] \in {"target", "published", "failed"} => copies[b] = NoFile /\ ~staging[b].is
    /\ results[b] # << >> => building[b] = "published" /\ GoodManifest(specs[b], clip[b], results[b][1])

BuilderOK(b) == CopiesOK(b) /\ ClipsOK(b) /\ DocumentsOK(b) /\ EndOK(b)

\* What is at the output path came there by one builder, or by none.
TargetOK ==
    /\ target.is = "pack" =>
         /\ target.over \in {"absent", "empty"}
         /\ \E b \in Builders : /\ results[b] # << >>
                                /\ disturbances = 0 => Verified(target.files, results[b][1])
    /\ \A b \in Builders : results[b] # << >> => target.is = "pack"
    /\ \A b, c \in Builders : results[b] # << >> /\ results[c] # << >> => b = c

PackTypes ==
    /\ DOMAIN building = Builders /\ DOMAIN copies = Builders /\ DOMAIN specs = Builders
    /\ DOMAIN staging = Builders /\ DOMAIN results = Builders
    /\ clip \in [Builders -> ClipLengths]
    /\ \A b \in Builders : {"is", "files"} \subseteq DOMAIN staging[b]
    /\ DOMAIN inputs = Inputs
    /\ inputs["reference"] \in SUBSET Nat /\ inputs["system"] \in SUBSET (Nat \X Nat)
    /\ {"is", "over", "files"} \subseteq DOMAIN target
    /\ disturbances \in Nat

PackInv == PackTypes /\ TargetOK /\ \A b \in Builders : BuilderOK(b)

-----------------------------------------------------------------------------
(* Numbers *)

LEMMA Division ==
    ASSUME NEW a \in Int, NEW m \in Nat \ {0}
    PROVE  a \div m \in Int /\ (a >= 0 => a \div m \in Nat)
  OBVIOUS

LEMMA NotNegative ==
    ASSUME NEW a \in Int
    PROVE  Max({0, a}) \in Int /\ Max({0, a}) >= 0
  <1>1. \E x \in {0, a} : \A y \in {0, a} : x >= y
    <2>1. CASE a >= 0
      BY <2>1
    <2>2. CASE ~(a >= 0)
      BY <2>2
    <2> QED
      BY <2>1, <2>2
  <1>2. Max({0, a}) \in {0, a} /\ \A y \in {0, a} : Max({0, a}) >= y
    BY <1>1 DEF Max
  <1> QED
    BY <1>2

LEMMA Capped ==
    ASSUME NEW a \in Int, NEW b \in Int
    PROVE  Min({a, b}) \in Int /\ Min({a, b}) <= a
  <1>1. \E x \in {a, b} : \A y \in {a, b} : x <= y
    OBVIOUS
  <1>2. Min({a, b}) \in {a, b} /\ \A y \in {a, b} : Min({a, b}) <= y
    BY <1>1 DEF Min
  <1> QED
    BY <1>2

\* Different windows of one grid are apart.
LEMMA GridApart ==
    ASSUME NEW n \in Nat \ {0}, NEW a \in Nat, NEW b \in Nat, a % n = 0, b % n = 0, a # b
    PROVE  Apart(a, b, n)
  <1> DEFINE k == a \div n
             l == b \div n
  <1>1. a = k * n /\ b = l * n /\ k \in Nat /\ l \in Nat
    OBVIOUS
  <1> HIDE DEF k, l
  <1>2. CASE k < l
    <2>1. PICK d \in Nat : l = k + 1 + d
      <3>1. l - k - 1 \in Nat /\ l = k + 1 + (l - k - 1)
        BY <1>1, <1>2
      <3> QED
        BY <3>1
    <2>2. l * n = k * n + n + d * n /\ d * n \in Nat /\ k * n \in Nat
      BY <1>1, <2>1
    <2> QED
      BY <1>1, <2>2 DEF Apart
  <1>3. CASE l < k
    <2>1. PICK d \in Nat : k = l + 1 + d
      <3>1. k - l - 1 \in Nat /\ k = l + 1 + (k - l - 1)
        BY <1>1, <1>3
      <3> QED
        BY <3>1
    <2>2. k * n = l * n + n + d * n /\ d * n \in Nat /\ l * n \in Nat
      BY <1>1, <2>1
    <2> QED
      BY <1>1, <2>2 DEF Apart
  <1> QED
    BY <1>1, <1>2, <1>3

LEMMA Parameters ==
    /\ SourceFrames \in Nat \ {0} /\ Rate \in Nat \ {0} /\ Micro \in Nat \ {0}
    /\ UniformCount \in Nat \ {0} /\ BoundaryCount \in Nat \ {0} /\ StressCount \in Nat \ {0}
    /\ ClipCount \in Nat \ {0}
    /\ ClipLengths \subseteq Nat \ {0}
  BY PackAssumption DEF ClipCount

-----------------------------------------------------------------------------
(* What is picked *)

LEMMA FrameFacts ==
    ASSUME NEW time \in Nat
    PROVE  FrameOf(time) \in Nat /\ FrameAfter(time) \in Int
  <1>1. time * Rate \in Nat /\ time * Rate + Micro - 1 \in Int
    BY Parameters
  <1> QED
    BY <1>1, Parameters, Division DEF FrameOf, FrameAfter

\* Every window lies in the recording, on the grid.
LEMMA GridIn ==
    ASSUME NEW n \in Nat \ {0}, NEW low \in Int, NEW high \in Int, NEW cap \in Int,
           low >= 0, high <= cap
    PROVE  Grid(n, low, high) \subseteq Grid(n, 0, cap)
  BY DEF Grid

LEMMA BoundaryOnGrid ==
    ASSUME NEW n \in Nat \ {0}, NEW points \in SUBSET Nat
    PROVE  BoundaryStarts(points, n) \subseteq Grid(n, 0, SourceFrames - n)
  <1> SUFFICES ASSUME NEW p \in points
               PROVE  Grid(n, Max({0, FrameOf(p) - n + 1}), Min({SourceFrames - n, FrameOf(p)}))
                        \subseteq Grid(n, 0, SourceFrames - n)
    BY DEF BoundaryStarts
  <1> DEFINE low == FrameOf(p) - n + 1
             high == FrameOf(p)
             cap == SourceFrames - n
  <1>1. low \in Int /\ high \in Int /\ cap \in Int
    BY FrameFacts, Parameters
  <1> HIDE DEF low, high, cap
  <1>2. Max({0, low}) \in Int /\ Max({0, low}) >= 0
    BY <1>1, NotNegative
  <1>3. Min({cap, high}) \in Int /\ Min({cap, high}) <= cap
    BY <1>1, Capped
  <1>4. Grid(n, Max({0, low}), Min({cap, high})) \subseteq Grid(n, 0, cap)
    BY <1>1, <1>2, <1>3, GridIn
  <1> QED
    BY <1>4 DEF low, high, cap

LEMMA StressOnGrid ==
    ASSUME NEW n \in Nat \ {0}, NEW marked \in SUBSET (Nat \X Nat)
    PROVE  StressStarts(marked, n) \subseteq Grid(n, 0, SourceFrames - n)
  <1> SUFFICES ASSUME NEW m \in marked
               PROVE  Grid(n, Max({0, FrameOf(m[1]) - n + 1}),
                           Min({SourceFrames - n, Min({SourceFrames, FrameAfter(m[2])}) - 1}))
                        \subseteq Grid(n, 0, SourceFrames - n)
    BY DEF StressStarts
  <1>1. m[1] \in Nat /\ m[2] \in Nat
    OBVIOUS
  <1>2. /\ FrameOf(m[1]) - n + 1 \in Int /\ SourceFrames - n \in Int
        /\ Min({SourceFrames, FrameAfter(m[2])}) - 1 \in Int
    <2>1. FrameOf(m[1]) \in Nat /\ FrameAfter(m[2]) \in Int /\ SourceFrames \in Int
      BY <1>1, FrameFacts, Parameters
    <2>2. Min({SourceFrames, FrameAfter(m[2])}) \in Int
      BY <2>1, Capped
    <2> QED
      BY <2>1, <2>2
  <1> DEFINE low == FrameOf(m[1]) - n + 1
             high == Min({SourceFrames, FrameAfter(m[2])}) - 1
             cap == SourceFrames - n
  <1> HIDE DEF low, high, cap
  <1>3. low \in Int /\ high \in Int /\ cap \in Int
    BY <1>2 DEF low, high, cap
  <1>4. Max({0, low}) \in Int /\ Max({0, low}) >= 0
    BY <1>3, NotNegative
  <1>5. Min({cap, high}) \in Int /\ Min({cap, high}) <= cap
    BY <1>3, Capped
  <1>6. Grid(n, Max({0, low}), Min({cap, high})) \subseteq Grid(n, 0, cap)
    BY <1>3, <1>4, <1>5, GridIn
  <1> QED
    BY <1>6 DEF low, high, cap

LEMMA OrderIn ==
    ASSUME NEW set, NEW k \in Nat, NEW s \in Orders(set, k)
    PROVE  s \in [1..k -> set]
  BY DEF Orders

\* The pair of the two kinds is taken from their starts.
LEMMA PairsIn ==
    ASSUME NEW boundary, NEW stress, NEW pair \in Pairs(boundary, stress)
    PROVE  pair[1] \in [1..BoundaryCount -> boundary] /\ pair[2] \in [1..StressCount -> stress]
  <1>1. BoundaryCount \in Nat /\ StressCount \in Nat
    BY Parameters
  <1>2. PICK taken \in Orders(boundary, BoundaryCount) :
          \E s \in Orders(stress \ Range(taken), StressCount) : pair = << taken, s >>
    <2>1. pair \in Drawn(boundary, stress) \cup Spared(boundary, stress)
      BY DEF Pairs
    <2>2. \A set, n, order : FirstOf(set, n, order) \subseteq Orders(set, n)
      BY DEF FirstOf
    <2>3. CASE pair \in Drawn(boundary, stress)
      BY <2>3 DEF Drawn, Leaving, Left
    <2>4. CASE pair \in Spared(boundary, stress)
      BY <2>2, <2>4 DEF Spared, Leaving, Left
    <2> QED
      BY <2>1, <2>3, <2>4
  <1>3. taken \in [1..BoundaryCount -> boundary]
    BY <1>1, OrderIn
  <1>4. PICK s \in Orders(stress \ Range(taken), StressCount) : pair = << taken, s >>
    BY <1>2
  <1>5. s \in [1..StressCount -> stress \ Range(taken)]
    BY <1>1, OrderIn
  <1> QED
    BY <1>3, <1>4, <1>5

LEMMA SelectionsPicked ==
    ASSUME NEW held, NEW n \in Nat \ {0}, NEW chosen \in Selections(held, n),
           held["reference"] \in SUBSET Nat, held["system"] \in SUBSET (Nat \X Nat)
    PROVE  Picked(chosen, n)
  <1> DEFINE grid == Grid(n, 0, SourceFrames - n)
             boundary == BoundaryStarts(held["reference"], n)
             stress == StressStarts(held["system"], n)
             Taken(pair) == Range(pair[1]) \cup Range(pair[2])
             Free(pair) == Compatible(grid \ Taken(pair), Taken(pair), n)
             Spec(pair, u, i) ==
               IF i <= UniformCount THEN ClipSpec("uniform", u[i])
               ELSE IF i <= UniformCount + BoundaryCount
                 THEN ClipSpec("boundary", pair[1][i - UniformCount])
               ELSE ClipSpec("stress", pair[2][i - UniformCount - BoundaryCount])
  <1>1. PICK pair \in Pairs(boundary, stress) :
          \E u \in Orders(Free(pair), UniformCount) :
            chosen = [i \in 1..ClipCount |-> Spec(pair, u, i)]
    <2>1. Selections(held, n) =
            UNION {{[i \in 1..ClipCount |-> Spec(pair, u, i)] : u \in Orders(Free(pair), UniformCount)} :
                     pair \in Pairs(boundary, stress)}
      BY DEF Selections
    <2> HIDE DEF Spec, Free, boundary, stress
    <2> QED
      BY <2>1
  <1>7. PICK u \in Orders(Free(pair), UniformCount) :
          chosen = [i \in 1..ClipCount |-> Spec(pair, u, i)]
    BY <1>1
  <1>2. boundary \subseteq grid /\ stress \subseteq grid
    BY BoundaryOnGrid, StressOnGrid
  <1>3. pair[1] \in [1..BoundaryCount -> boundary] /\ pair[2] \in [1..StressCount -> stress]
    <2> HIDE DEF boundary, stress
    <2> QED
      BY PairsIn
  <1>4. Free(pair) \subseteq grid
    BY DEF Compatible
  <1> HIDE DEF Free, grid, boundary, stress
  <1>5. u \in [1..UniformCount -> grid]
    <2>1. u \in [1..UniformCount -> Free(pair)]
      BY Parameters, OrderIn
    <2> QED
      BY <1>4, <2>1
  <1>6. ASSUME NEW i \in 1..ClipCount
        PROVE  Spec(pair, u, i).start \in grid
    <2>1. i \in Nat /\ i >= 1 /\ i <= UniformCount + BoundaryCount + StressCount
          /\ UniformCount \in Nat /\ BoundaryCount \in Nat /\ StressCount \in Nat
      BY Parameters DEF ClipCount
    <2>2. CASE i <= UniformCount
      <3>1. i \in 1..UniformCount
        BY <2>1, <2>2
      <3> QED
        BY <1>5, <2>2, <3>1 DEF ClipSpec
    <2>3. CASE ~(i <= UniformCount) /\ i <= UniformCount + BoundaryCount
      <3>1. i - UniformCount \in 1..BoundaryCount
        BY <2>1, <2>3
      <3>2. pair[1][i - UniformCount] \in grid
        BY <1>2, <1>3, <3>1
      <3> QED
        BY <2>3, <3>2 DEF ClipSpec
    <2>4. CASE ~(i <= UniformCount) /\ ~(i <= UniformCount + BoundaryCount)
      <3>1. i - UniformCount - BoundaryCount \in 1..StressCount
        BY <2>1, <2>4
      <3>2. pair[2][i - UniformCount - BoundaryCount] \in grid
        BY <1>2, <1>3, <3>1
      <3> QED
        BY <2>4, <3>2 DEF ClipSpec
    <2> QED
      BY <2>2, <2>3, <2>4
  <1> QED
    BY <1>6, <1>7 DEF Picked, grid

-----------------------------------------------------------------------------
(* A pack that verify_pack accepts *)

\* As many different starts as clips: no two clips start together.
LEMMA StartsDiffer ==
    ASSUME NEW chosen, DOMAIN chosen = 1..ClipCount,
           Cardinality({chosen[i].start : i \in DOMAIN chosen}) = ClipCount,
           NEW i \in 1..ClipCount, NEW j \in 1..ClipCount, i # j
    PROVE  chosen[i].start # chosen[j].start
  <1> DEFINE starts == {chosen[k].start : k \in DOMAIN chosen}
             f == [k \in 1..ClipCount |-> chosen[k].start]
  <1>1. f \in Surjection(1..ClipCount, starts)
    BY DEF Surjection
  <1>2. IsFiniteSet(1..ClipCount) /\ Cardinality(1..ClipCount) = ClipCount
    BY Parameters, FS_Interval
  <1>3. f \in Injection(1..ClipCount, starts)
    <2> HIDE DEF f
    <2>1. Cardinality(starts) = Cardinality(1..ClipCount)
      BY <1>2
    <2> HIDE DEF starts
    <2> QED
      BY <1>1, <1>2, <2>1, FS_Surjection
  <1>4. f[i] = f[j] => i = j
    BY <1>3 DEF Injection, IsInjective
  <1> QED
    BY <1>4

LEMMA AcceptedSound ==
    ASSUME NEW chosen, NEW n \in Nat \ {0}, NEW m, GoodManifest(chosen, n, m),
           NEW dir, Verified(dir, m)
    PROVE  Sound(dir)
  <1> DEFINE cuts == CutsOf(chosen, m.source, n, ClipCount)
             S(i) == chosen[i].start
  <1>1. /\ DOMAIN chosen = 1..ClipCount /\ Checked(chosen, m, n)
        /\ \A i \in 1..ClipCount : S(i) \in Grid(n, 0, SourceFrames - n)
        /\ m.clips = EvaluatorRows(chosen, cuts)
    BY DEF GoodManifest, Picked
  <1>2. PICK order \in Shuffles : m.annotator = AnnotatorRows(cuts, order)
    BY DEF GoodManifest
  <1>3. ClipCount \in Nat \ {0} /\ 1 \in 1..ClipCount /\ SourceFrames \in Nat /\ n \in Nat \ {0}
    BY Parameters
  <1>4. \A i \in 1..ClipCount : cuts[i] = Cut(m.source, S(i), n)
    BY DEF CutsOf
  <1> HIDE DEF cuts
  <1> DEFINE rows == m.clips
  <1>5. /\ DOMAIN rows = 1..ClipCount
        /\ \A i \in 1..ClipCount : /\ rows[i].id = i /\ rows[i].category = chosen[i].category
                                   /\ rows[i].audio = cuts[i]
    BY <1>1 DEF EvaluatorRows
  <1> HIDE DEF rows
  <1>6. ASSUME NEW i \in 1..ClipCount
        PROVE  rows[i].audio.start = S(i) /\ rows[i].audio.frames = n
    <2>1. rows[i].audio = Cut(m.source, S(i), n)
      BY <1>4, <1>5
    <2>2. Cut(m.source, S(i), n).start = S(i) /\ Cut(m.source, S(i), n).frames = n
      BY DEF Cut
    <2> HIDE DEF S
    <2> QED
      BY <2>1, <2>2
  <1>7. /\ dir["manifest"] = m /\ dir["annotator"] = m.annotator
        /\ dir["template"] = TemplateRows(m.annotator) /\ RowsAgree(dir)
    BY DEF Verified
  <1>8. \A i \in 1..ClipCount : S(i) \in Nat /\ S(i) % n = 0 /\ S(i) >= 0 /\ S(i) + n <= SourceFrames
    BY <1>1, <1>3 DEF Grid
  <1>9. ASSUME NEW i \in 1..ClipCount
        PROVE  /\ dir["clips"][rows[i].id] = Cut(m.source, S(i), n)
               /\ rows[i].category = "boundary" => HasPoint(S(i), n, m.reference)
               /\ rows[i].category = "stress" => Overlaps(S(i), n, m.system)
               /\ \A j \in 1..ClipCount : i # j => Apart(S(i), S(j), n)
    <2>1. dir["clips"][rows[i].id] = rows[i].audio
      BY <1>5, <1>7 DEF RowsAgree, rows
    <2>2. /\ chosen[i].category = "boundary" => HasPoint(S(i), n, m["reference"])
          /\ chosen[i].category = "stress" => Overlaps(S(i), n, m["system"])
      BY <1>1 DEF Checked
    <2>3. ASSUME NEW j \in 1..ClipCount, i # j
          PROVE  Apart(S(i), S(j), n)
      <3>1. S(i) # S(j)
        BY <1>1, <2>3, StartsDiffer DEF Checked
      <3>2. S(i) \in Nat /\ S(j) \in Nat /\ S(i) % n = 0 /\ S(j) % n = 0
        BY <1>8
      <3> HIDE DEF S
      <3> QED
        BY <1>3, <3>1, <3>2, GridApart
    <2> QED
      BY <1>4, <1>5, <2>1, <2>2, <2>3
  <1>10. [i \in DOMAIN m.annotator |-> m.annotator[i].id]
           = [i \in DOMAIN dir["template"] |-> dir["template"][i].id]
    BY <1>7 DEF TemplateRows
  <1>11. {m.annotator[i].id : i \in DOMAIN m.annotator} = DOMAIN dir["clips"]
    <2>1. DOMAIN dir["clips"] = 1..ClipCount
      <3>1. {rows[i].id : i \in DOMAIN rows} = DOMAIN dir["clips"]
        BY <1>7 DEF RowsAgree, rows
      <3>2. {rows[i].id : i \in DOMAIN rows} = 1..ClipCount
        BY <1>5
      <3> QED
        BY <3>1, <3>2
    <2>2. DOMAIN m.annotator = 1..ClipCount /\ \A i \in 1..ClipCount : m.annotator[i].id = order[i]
      BY <1>2 DEF AnnotatorRows
    <2>3. \A i \in 1..ClipCount : order[i] \in 1..ClipCount
      <3>1. order \in Orders(1..ClipCount, ClipCount)
        BY PackAssumption
      <3>2. order \in [1..ClipCount -> 1..ClipCount]
        BY <1>3, <3>1, OrderIn
      <3> QED
        BY <3>2
    <2>4. ASSUME NEW i \in 1..ClipCount
          PROVE  \E j \in DOMAIN m.annotator : m.annotator[j].id = i
      <3>1. \A k \in DOMAIN rows : \E j \in DOMAIN dir["annotator"] : dir["annotator"][j].id = rows[k].id
        BY <1>7 DEF RowsAgree, rows
      <3>2. i \in DOMAIN rows /\ rows[i].id = i
        BY <1>5
      <3> QED
        BY <1>7, <3>1, <3>2
    <2> QED
      BY <2>1, <2>2, <2>3, <2>4
  <1> HIDE DEF S
  <1>12. rows[1].audio.frames = n
    BY <1>3, <1>6
  <1>13. ASSUME NEW i \in DOMAIN rows
         PROVE  /\ dir["clips"][rows[i].id] = Cut(m.source, rows[i].audio.start, n)
                /\ rows[i].category = "boundary" => HasPoint(rows[i].audio.start, n, m.reference)
                /\ rows[i].category = "stress" => Overlaps(rows[i].audio.start, n, m.system)
                /\ rows[i].audio.start >= 0 /\ rows[i].audio.start + n <= SourceFrames
                /\ \A j \in DOMAIN rows :
                     i # j => Apart(rows[i].audio.start, rows[j].audio.start, n)
    BY <1>5, <1>6, <1>8, <1>9
  <1>14. dir["manifest"].clips = rows
    BY <1>7 DEF rows
  <1>15. \A i \in DOMAIN rows :
           /\ dir["clips"][rows[i].id] = Cut(dir["manifest"].source, rows[i].audio.start, n)
           /\ rows[i].category = "boundary"
                => HasPoint(rows[i].audio.start, n, dir["manifest"].reference)
           /\ rows[i].category = "stress"
                => Overlaps(rows[i].audio.start, n, dir["manifest"].system)
           /\ rows[i].audio.start >= 0 /\ rows[i].audio.start + n <= SourceFrames
           /\ \A j \in DOMAIN rows :
                i # j => Apart(rows[i].audio.start, rows[j].audio.start, n)
    BY <1>7, <1>13
  <1>16. /\ [i \in DOMAIN dir["annotator"] |-> dir["annotator"][i].id]
              = [i \in DOMAIN dir["template"] |-> dir["template"][i].id]
         /\ {dir["annotator"][i].id : i \in DOMAIN dir["annotator"]} = DOMAIN dir["clips"]
    BY <1>7, <1>10, <1>11
  <1> HIDE DEF rows
  <1> QED
    BY <1>12, <1>14, <1>15, <1>16 DEF Sound

-----------------------------------------------------------------------------
(* Builders that do not move, and builders that give up *)

Same(b) ==
    /\ building'[b] = building[b] /\ clip'[b] = clip[b] /\ copies'[b] = copies[b]
    /\ specs'[b] = specs[b] /\ staging'[b] = staging[b] /\ results'[b] = results[b]

LEMMA BuilderStays ==
    ASSUME NEW b \in Builders, BuilderOK(b), Same(b)
    PROVE  BuilderOK(b)'
  <1>1. CopiesOK(b)'
    BY DEF BuilderOK, CopiesOK, Same
  <1>2. ClipsOK(b)'
    BY DEF BuilderOK, ClipsOK, CutsHeld, Same
  <1>3. DocumentsOK(b)'
    BY DEF BuilderOK, DocumentsOK, Same
  <1>4. EndOK(b)'
    BY DEF BuilderOK, EndOK, Same
  <1> QED
    BY <1>1, <1>2, <1>3, <1>4 DEF BuilderOK

LEMMA BuilderGivesUp ==
    ASSUME NEW b \in Builders, building'[b] \in {"refused", "stopped"}, results'[b] = << >>
    PROVE  BuilderOK(b)'
  <1>1. CopiesOK(b)' /\ ClipsOK(b)'
    BY DEF CopiesOK, ClipsOK, Copied, Writing
  <1>2. DocumentsOK(b)' /\ EndOK(b)'
    BY DEF DocumentsOK, EndOK, Sealing
  <1> QED
    BY <1>1, <1>2 DEF BuilderOK

LEMMA BuilderEnds ==
    ASSUME NEW b \in Builders, building'[b] = "failed", results'[b] = << >>,
           copies'[b] = NoFile, ~staging'[b].is
    PROVE  BuilderOK(b)'
  <1>1. CopiesOK(b)' /\ ClipsOK(b)'
    BY DEF CopiesOK, ClipsOK, Copied, Writing
  <1>2. DocumentsOK(b)' /\ EndOK(b)'
    BY DEF DocumentsOK, EndOK, Sealing
  <1> QED
    BY <1>1, <1>2 DEF BuilderOK

\* What is at the output path stays what it is when nobody touches it.
LEMMA TargetStays ==
    ASSUME TargetOK, target' = target, results' = results, disturbances \in Nat,
           disturbances' \in {disturbances, disturbances + 1}
    PROVE  TargetOK'
  <1>1. disturbances' = 0 => disturbances = 0
    OBVIOUS
  <1>2. target.is = "pack" =>
          \E b \in Builders : /\ results[b] # << >>
                              /\ disturbances' = 0 => Verified(target.files, results[b][1])
    BY <1>1 DEF TargetOK
  <1>3. target'.is = "pack" =>
          \E b \in Builders : /\ results'[b] # << >>
                              /\ disturbances' = 0 => Verified(target'.files, results'[b][1])
    BY <1>2
  <1> QED
    BY <1>3 DEF TargetOK

LEMMA RefuseOK ==
    ASSUME PackInv, NEW b \in Builders, NEW reason, building[b] # "published", Refuse(b, reason)
    PROVE  PackInv'
  <1>1. /\ building' = [building EXCEPT ![b] = "refused"] /\ DOMAIN building = Builders
        /\ clip' = clip /\ inputs' = inputs /\ copies' = copies /\ specs' = specs
        /\ staging' = staging /\ target' = target /\ results' = results
        /\ disturbances' = disturbances
    BY DEF Refuse, Proceed, PackInv, PackTypes
  <1>2. PackTypes'
    BY <1>1 DEF PackInv, PackTypes
  <1>3. TargetOK'
    BY <1>1, TargetStays DEF PackInv, PackTypes
  <1>4. BuilderOK(b)'
    BY <1>1, BuilderGivesUp DEF PackInv, BuilderOK, EndOK
  <1>5. ASSUME NEW c \in Builders, c # b
        PROVE  BuilderOK(c)'
    BY <1>1, <1>5, BuilderStays DEF PackInv, Same
  <1> QED
    BY <1>2, <1>3, <1>4, <1>5 DEF PackInv

\* What one builder does leaves the others as they are.
LEMMA OneMoves ==
    ASSUME PackInv, NEW b \in Builders, PackTypes', TargetOK', BuilderOK(b)',
           \A c \in Builders \ {b} : Same(c)
    PROVE  PackInv'
  <1>1. ASSUME NEW c \in Builders, c # b
        PROVE  BuilderOK(c)'
    BY <1>1, BuilderStays DEF PackInv
  <1> QED
    BY <1>1 DEF PackInv

-----------------------------------------------------------------------------
(* Steps of a builder *)

LEMMA CheckTargetOK ==
    ASSUME PackInv, NEW b \in Builders, CheckTarget(b)
    PROVE  PackInv'
  <1>1. /\ clip' = clip /\ inputs' = inputs /\ copies' = copies /\ specs' = specs
        /\ target' = target /\ results' = results /\ disturbances' = disturbances
        /\ DOMAIN building = Builders /\ DOMAIN staging = Builders
        /\ building[b] = "target" /\ BuilderOK(b)
    BY DEF CheckTarget, PackInv, PackTypes
  <1>2. results[b] = << >> /\ copies[b] = NoFile /\ ~staging[b].is
    BY <1>1 DEF BuilderOK, EndOK
  <1>3. CASE Proceed(b, "failed") /\ staging' = staging
    <2>1. PackTypes' /\ \A c \in Builders \ {b} : Same(c)
      BY <1>1, <1>3 DEF PackInv, PackTypes, Proceed, Same
    <2>2. BuilderOK(b)'
      BY <1>1, <1>2, <1>3, BuilderEnds DEF Proceed
    <2> QED
      BY <1>1, <2>1, <2>2, OneMoves, TargetStays DEF PackInv, PackTypes
  <1>4. CASE Proceed(b, "audio") /\ staging' = [staging EXCEPT ![b] = [is |-> TRUE, files |-> NoFile]]
    <2>1. PackTypes' /\ \A c \in Builders \ {b} : Same(c)
      BY <1>1, <1>4 DEF PackInv, PackTypes, Proceed, Same
    <2>2. building'[b] = "audio" /\ results'[b] = << >>
      BY <1>1, <1>2, <1>4 DEF Proceed
    <2>3. BuilderOK(b)'
      <3>1. CopiesOK(b)' /\ ClipsOK(b)'
        BY <2>2 DEF CopiesOK, ClipsOK, Copied, Writing
      <3>2. DocumentsOK(b)' /\ EndOK(b)'
        BY <2>2 DEF DocumentsOK, EndOK, Sealing
      <3> QED
        BY <3>1, <3>2 DEF BuilderOK
    <2> QED
      BY <1>1, <2>1, <2>3, OneMoves, TargetStays DEF PackInv, PackTypes
  <1> QED
    BY <1>3, <1>4 DEF CheckTarget

LEMMA TakeCopyOK ==
    ASSUME PackInv, NEW b \in Builders, TakeCopy(b)
    PROVE  PackInv'
  <1>1. PICK input \in Inputs :
          /\ building[b] = input
          /\ \/ /\ copies' = [copies EXCEPT ![b] = Holds(@, input, inputs[input])]
                /\ Proceed(b, CASE input = "audio" -> "reference" [] input = "reference" -> "system"
                                [] input = "system" -> "select")
                /\ UNCHANGED << clip, inputs, specs, staging, target, results, why, disturbances >>
             \/ Refuse(b, "input")
    BY DEF TakeCopy
  <1>2. CASE Refuse(b, "input")
    BY <1>1, <1>2, RefuseOK DEF Inputs
  <1>3. CASE ~Refuse(b, "input")
    <2> DEFINE next == CASE input = "audio" -> "reference" [] input = "reference" -> "system"
                         [] input = "system" -> "select"
    <2>1. /\ clip' = clip /\ inputs' = inputs /\ specs' = specs /\ staging' = staging
          /\ target' = target /\ results' = results /\ disturbances' = disturbances
          /\ copies' = [copies EXCEPT ![b] = Holds(@, input, inputs[input])]
          /\ building' = [building EXCEPT ![b] = next]
          /\ BuilderOK(b) /\ PackTypes
      BY <1>1, <1>3 DEF Proceed, PackInv
    <2>2. PackTypes' /\ \A c \in Builders \ {b} : Same(c)
      BY <2>1 DEF PackTypes, Same
    <2>3. /\ building'[b] = next /\ building[b] = input /\ input \in {"audio", "reference", "system"}
          /\ DOMAIN copies'[b] = DOMAIN copies[b] \cup {input}
          /\ copies'[b][input] = inputs[input]
          /\ \A x \in DOMAIN copies[b] \ {input} : copies'[b][x] = copies[b][x]
      <3>1. copies'[b] = Holds(copies[b], input, inputs[input])
        BY <2>1 DEF PackTypes
      <3>2. building'[b] = next
        BY <2>1 DEF PackTypes
      <3>3. input \in {"audio", "reference", "system"}
        BY DEF Inputs
      <3> HIDE DEF next
      <3> QED
        BY <1>1, <3>1, <3>2, <3>3 DEF Holds
    <2>4. /\ input = "audio" => next = "reference"
          /\ input = "reference" => next = "system"
          /\ input = "system" => next = "select"
      OBVIOUS
    <2> HIDE DEF next
    <2>5. CopiesOK(b)'
      <3>1. inputs["reference"] \in SUBSET Nat /\ inputs["system"] \in SUBSET (Nat \X Nat)
        BY <2>1 DEF PackTypes
      <3>2. CopiesOK(b)
        BY <2>1 DEF BuilderOK
      <3>3. CASE input = "audio"
        BY <2>3, <2>4, <3>3 DEF CopiesOK, Copied, Writing
      <3>4. CASE input = "reference"
        BY <2>3, <2>4, <3>1, <3>2, <3>4 DEF CopiesOK, Copied, Writing
      <3>5. CASE input = "system"
        BY <2>3, <2>4, <3>1, <3>2, <3>5 DEF CopiesOK, Copied, Writing
      <3> QED
        BY <2>3, <3>3, <3>4, <3>5
    <2>6. building'[b] \in {"reference", "system", "select"}
      BY <2>3, <2>4
    <2>7. results'[b] = << >>
      BY <2>1, <2>3 DEF BuilderOK, EndOK
    <2>8. ClipsOK(b)'
      BY <2>6 DEF ClipsOK, Copied, Writing
    <2>9. DocumentsOK(b)' /\ EndOK(b)'
      BY <2>6, <2>7 DEF DocumentsOK, EndOK, Sealing
    <2>10. BuilderOK(b)'
      BY <2>5, <2>8, <2>9 DEF BuilderOK
    <2> QED
      BY <2>1, <2>2, <2>10, OneMoves, TargetStays DEF PackInv, PackTypes
  <1> QED
    BY <1>2, <1>3

LEMMA SelectOK ==
    ASSUME PackInv, NEW b \in Builders, Select(b)
    PROVE  PackInv'
  <1>1. building[b] = "select" /\ BuilderOK(b) /\ PackTypes /\ clip[b] \in Nat \ {0}
    BY PackAssumption DEF Select, PackInv, PackTypes
  <1>2. CASE \E reason : Refuse(b, reason)
    BY <1>1, <1>2, RefuseOK
  <1>3. CASE ~\E reason : Refuse(b, reason)
    <2>1. PICK chosen \in Selections(copies[b], clip[b]) :
            /\ Checked(chosen, copies[b], clip[b])
            /\ specs' = [specs EXCEPT ![b] = chosen]
            /\ staging' = [staging EXCEPT ![b].files = Holds(@, "clips", NoFile)]
            /\ Proceed(b, "clips")
            /\ UNCHANGED << clip, inputs, copies, target, results, why, disturbances >>
      BY <1>3, Zenon DEF Select
    <2>2. /\ clip' = clip /\ inputs' = inputs /\ copies' = copies
          /\ target' = target /\ results' = results /\ disturbances' = disturbances
          /\ building' = [building EXCEPT ![b] = "clips"]
      BY <2>1 DEF Proceed
    <2>3. PackTypes' /\ \A c \in Builders \ {b} : Same(c)
      <3>1. staging'[b] = [staging[b] EXCEPT !.files = Holds(@, "clips", NoFile)]
        BY <1>1, <2>1 DEF PackTypes
      <3>2. DOMAIN staging'[b] = DOMAIN staging[b]
        BY <3>1
      <3>3. DOMAIN staging' = Builders /\ \A c \in Builders \ {b} : staging'[c] = staging[c]
        BY <1>1, <2>1 DEF PackTypes
      <3>4. \A c \in Builders : {"is", "files"} \subseteq DOMAIN staging'[c]
        BY <1>1, <3>2, <3>3 DEF PackTypes
      <3> QED
        BY <1>1, <2>1, <2>2, <3>3, <3>4 DEF PackTypes, Same
    <2>4. /\ building'[b] = "clips" /\ specs'[b] = chosen
          /\ "clips" \in DOMAIN staging'[b].files /\ staging'[b].files["clips"] = NoFile
      <3>1. staging'[b].files = Holds(staging[b].files, "clips", NoFile)
        BY <1>1, <2>1 DEF PackTypes
      <3>2. building'[b] = "clips" /\ specs'[b] = chosen
        BY <1>1, <2>1, <2>2 DEF PackTypes
      <3> QED
        BY <3>1, <3>2 DEF Holds
    <2>5. /\ "audio" \in DOMAIN copies[b] /\ "reference" \in DOMAIN copies[b]
          /\ "system" \in DOMAIN copies[b] /\ copies[b]["reference"] \in SUBSET Nat
          /\ copies[b]["system"] \in SUBSET (Nat \X Nat)
      BY <1>1 DEF BuilderOK, CopiesOK
    <2>6. Picked(chosen, clip[b])
      BY <1>1, <2>5, SelectionsPicked
    <2>7. CutsOf(chosen, copies[b]["audio"], clip[b], 0) = NoFile
      BY DEF CutsOf, NoFile
    <2>8. ClipsOK(b)'
      <3>1. 0 \in 0..(ClipCount - 1)
        BY Parameters
      <3>2. \E k \in 0..(ClipCount - 1) :
              staging'[b].files["clips"] = CutsOf(specs'[b], copies'[b]["audio"], clip'[b], k)
        BY <2>2, <2>4, <2>7, <3>1
      <3>3. Picked(specs'[b], clip'[b]) /\ Checked(specs'[b], copies'[b], clip'[b])
        BY <2>1, <2>2, <2>4, <2>6
      <3> QED
        BY <2>4, <3>2, <3>3 DEF ClipsOK, CutsHeld, Copied, Writing
    <2>9. CopiesOK(b)'
      BY <2>2, <2>4, <2>5 DEF CopiesOK, Copied, Writing
    <2>10. results'[b] = << >>
      BY <1>1, <2>2 DEF BuilderOK, EndOK
    <2>11. DocumentsOK(b)' /\ EndOK(b)'
      BY <2>4, <2>10 DEF DocumentsOK, EndOK, Sealing
    <2> QED
      BY <1>1, <2>2, <2>3, <2>8, <2>9, <2>11, OneMoves, TargetStays DEF PackInv, PackTypes, BuilderOK
  <1> QED
    BY <1>2, <1>3

\* One more clip after the first k.
LEMMA OneMore ==
    ASSUME NEW chosen, NEW source, NEW n, NEW k \in Nat
    PROVE  /\ Cardinality(DOMAIN CutsOf(chosen, source, n, k)) = k
           /\ Holds(CutsOf(chosen, source, n, k), k + 1, Cut(source, chosen[k + 1].start, n))
                = CutsOf(chosen, source, n, k + 1)
  <1>1. Cardinality(1..k) = k
    BY FS_Interval
  <1>2. 1..(k + 1) = 1..k \cup {k + 1} /\ k + 1 \notin 1..k
    OBVIOUS
  <1>3. DOMAIN CutsOf(chosen, source, n, k) = 1..k
    BY DEF CutsOf
  <1>4. Holds(CutsOf(chosen, source, n, k), k + 1, Cut(source, chosen[k + 1].start, n))
          = CutsOf(chosen, source, n, k + 1)
    BY <1>2 DEF CutsOf, Holds
  <1> QED
    BY <1>1, <1>3, <1>4

LEMMA CutClipOK ==
    ASSUME PackInv, NEW b \in Builders, CutClip(b)
    PROVE  PackInv'
  <1>1. building[b] = "clips" /\ BuilderOK(b) /\ PackTypes
    BY DEF CutClip, PackInv
  <1>2. CASE Refuse(b, "write")
    BY <1>1, <1>2, RefuseOK
  <1>3. CASE ~Refuse(b, "write")
    <2> DEFINE i == Cardinality(DOMAIN staging[b].files["clips"]) + 1
               next == IF i = ClipCount THEN "annotator" ELSE "clips"
    <2>1. /\ staging' = [staging EXCEPT ![b].files["clips"] = Holds(@, i, Cutting(b, i))]
          /\ building' = [building EXCEPT ![b] = next]
          /\ clip' = clip /\ inputs' = inputs /\ copies' = copies /\ specs' = specs
          /\ target' = target /\ results' = results /\ disturbances' = disturbances
      BY <1>3 DEF CutClip, Proceed
    <2>2. PICK k \in 0..(ClipCount - 1) : staging[b].files["clips"] = CutsHeld(b, k)
      BY <1>1 DEF BuilderOK, ClipsOK
    <2>3. k \in Nat /\ ClipCount \in Nat \ {0}
      BY Parameters
    <2>4. i = k + 1
      BY <2>2, <2>3, OneMore DEF CutsHeld
    <2>5. /\ Picked(specs[b], clip[b]) /\ Checked(specs[b], copies[b], clip[b])
          /\ "clips" \in DOMAIN staging[b].files
      BY <1>1 DEF BuilderOK, ClipsOK, Copied
    <2> HIDE DEF i, next
    <2>6. Holds(staging[b].files["clips"], i, Cutting(b, i)) = CutsHeld(b, k + 1)
      BY <2>2, <2>3, <2>4, OneMore DEF CutsHeld, Cutting
    <2>7. /\ staging'[b].files["clips"] = CutsHeld(b, k + 1)
          /\ DOMAIN staging'[b].files = DOMAIN staging[b].files
          /\ DOMAIN staging'[b] = DOMAIN staging[b]
          /\ DOMAIN staging' = Builders /\ \A c \in Builders \ {b} : staging'[c] = staging[c]
      <3>1. "files" \in DOMAIN staging[b]
        BY <1>1 DEF PackTypes
      <3>2. staging'[b] = [staging[b] EXCEPT !.files["clips"] = CutsHeld(b, k + 1)]
        BY <1>1, <2>1, <2>6 DEF PackTypes
      <3>3. staging'[b].files = [staging[b].files EXCEPT !["clips"] = CutsHeld(b, k + 1)]
        BY <3>1, <3>2
      <3>4. DOMAIN staging'[b] = DOMAIN staging[b]
        BY <3>2
      <3> QED
        BY <1>1, <2>1, <2>5, <3>3, <3>4 DEF PackTypes
    <2>8. PackTypes' /\ \A c \in Builders \ {b} : Same(c)
      <3>1. \A c \in Builders : {"is", "files"} \subseteq DOMAIN staging'[c]
        BY <1>1, <2>7 DEF PackTypes
      <3> QED
        BY <1>1, <2>1, <2>7, <3>1 DEF PackTypes, Same
    <2>9. building'[b] = next /\ next \in {"clips", "annotator"}
          /\ (next = "annotator" => k + 1 = ClipCount)
          /\ (next = "clips" => k + 1 \in 0..(ClipCount - 1))
      <3>1. building'[b] = next
        BY <1>1, <2>1 DEF PackTypes
      <3> QED
        BY <2>3, <2>4, <3>1 DEF next
    <2>10. CopiesOK(b)'
      BY <1>1, <2>1, <2>9 DEF BuilderOK, CopiesOK, Copied, Writing
    <2>11. ClipsOK(b)'
      <3>1. Picked(specs'[b], clip'[b]) /\ Checked(specs'[b], copies'[b], clip'[b])
        BY <2>1, <2>5
      <3>2. staging'[b].files["clips"] = CutsOf(specs'[b], copies'[b]["audio"], clip'[b], k + 1)
        BY <2>1, <2>7 DEF CutsHeld
      <3>3. "clips" \in DOMAIN staging'[b].files
        BY <2>5, <2>7
      <3>4. building'[b] = "clips" => \E l \in 0..(ClipCount - 1) :
              staging'[b].files["clips"] = CutsOf(specs'[b], copies'[b]["audio"], clip'[b], l)
        BY <2>9, <3>2
      <3>5. building'[b] \in Writing =>
              staging'[b].files["clips"] = CutsOf(specs'[b], copies'[b]["audio"], clip'[b], ClipCount)
        BY <2>9, <3>2 DEF Writing
      <3> QED
        BY <3>1, <3>3, <3>4, <3>5 DEF ClipsOK, CutsHeld
    <2>12. results'[b] = << >>
      BY <1>1, <2>1 DEF BuilderOK, EndOK
    <2>13. DocumentsOK(b)' /\ EndOK(b)'
      BY <2>9, <2>12 DEF DocumentsOK, EndOK, Sealing
    <2> QED
      BY <1>1, <2>1, <2>8, <2>10, <2>11, <2>13, OneMoves, TargetStays DEF PackInv, PackTypes, BuilderOK
  <1> QED
    BY <1>2, <1>3

\* The manifest that a builder writes tells what it picked and cut.
LEMMA ManifestGood ==
    ASSUME NEW b \in Builders, NEW dir, NEW order \in Shuffles,
           Picked(specs[b], clip[b]), Checked(specs[b], copies[b], clip[b]),
           dir["clips"] = CutsHeld(b, ClipCount),
           dir["annotator"] = AnnotatorRows(dir["clips"], order)
    PROVE  GoodManifest(specs[b], clip[b], Manifest(b, dir))
  <1> DEFINE m == Manifest(b, dir)
  <1>1. /\ m["reference"] = copies[b]["reference"] /\ m["system"] = copies[b]["system"]
        /\ m.source = copies[b]["audio"] /\ m.annotator = dir["annotator"]
        /\ m.clips = EvaluatorRows(specs[b], dir["clips"])
    BY DEF Manifest
  <1> HIDE DEF m
  <1>2. Checked(specs[b], m, clip[b])
    BY <1>1 DEF Checked
  <1>3. CutsOf(specs[b], m.source, clip[b], ClipCount) = dir["clips"]
    BY <1>1 DEF CutsHeld
  <1>4. /\ m.clips = EvaluatorRows(specs[b], CutsOf(specs[b], m.source, clip[b], ClipCount))
        /\ m.annotator = AnnotatorRows(CutsOf(specs[b], m.source, clip[b], ClipCount), order)
    BY <1>1, <1>3
  <1>5. GoodManifest(specs[b], clip[b], m)
    BY <1>2, <1>4 DEF GoodManifest
  <1> QED
    BY <1>5 DEF m

LEMMA WriteDocumentOK ==
    ASSUME PackInv, NEW b \in Builders, WriteDocument(b)
    PROVE  PackInv'
  <1> DEFINE dir == staging[b].files
             Content(name) ==
               CASE name = "annotator" -> {AnnotatorRows(dir["clips"], o) : o \in Shuffles}
                 [] name = "template" -> {TemplateRows(dir["annotator"])}
                 [] name = "manifest" -> {Manifest(b, dir)}
                 [] name = "sidecar" -> {dir["manifest"]}
             Next(name) ==
               CASE name = "annotator" -> "template" [] name = "template" -> "manifest"
                 [] name = "manifest" -> "sidecar" [] name = "sidecar" -> "seal"
  <1>1. BuilderOK(b) /\ PackTypes
    BY DEF PackInv
  <1>2. CASE building[b] # "published" /\ Refuse(b, "write")
    BY <1>2, RefuseOK
  <1>3. CASE \E name \in Names \ {"clips"} :
               /\ building[b] = name
               /\ \E content \in Content(name) :
                    staging' = [staging EXCEPT ![b].files = Holds(@, name, content)]
               /\ Proceed(b, Next(name))
               /\ UNCHANGED << clip, inputs, copies, specs, target, results, why, disturbances >>
    <2>1. PICK name \in Names \ {"clips"} :
               /\ building[b] = name
               /\ \E content \in Content(name) :
                    staging' = [staging EXCEPT ![b].files = Holds(@, name, content)]
               /\ Proceed(b, Next(name))
               /\ UNCHANGED << clip, inputs, copies, specs, target, results, why, disturbances >>
      BY <1>3
    <2>2. PICK content \in Content(name) :
            staging' = [staging EXCEPT ![b].files = Holds(@, name, content)]
      BY <2>1
    <2>3. /\ building' = [building EXCEPT ![b] = Next(name)]
          /\ clip' = clip /\ inputs' = inputs /\ copies' = copies /\ specs' = specs
          /\ target' = target /\ results' = results /\ disturbances' = disturbances
      BY <2>1 DEF Proceed
    <2>4. name \in {"annotator", "template", "manifest", "sidecar"}
      BY DEF Names
    <2>5. /\ name = "annotator" => Next(name) = "template"
          /\ name = "template" => Next(name) = "manifest"
          /\ name = "manifest" => Next(name) = "sidecar"
          /\ name = "sidecar" => Next(name) = "seal"
      OBVIOUS
    <2>6. /\ name = "annotator" => \E o \in Shuffles : content = AnnotatorRows(dir["clips"], o)
          /\ name = "manifest" => content = Manifest(b, dir)
      BY <2>2
    <2> HIDE DEF Content, Next
    <2>7. /\ staging'[b].files = Holds(dir, name, content)
          /\ DOMAIN staging'[b] = DOMAIN staging[b]
          /\ DOMAIN staging' = Builders /\ \A c \in Builders \ {b} : staging'[c] = staging[c]
          /\ building'[b] = Next(name)
      <3>1. staging'[b] = [staging[b] EXCEPT !.files = Holds(@, name, content)]
        BY <1>1, <2>2 DEF PackTypes
      <3>2. DOMAIN staging'[b] = DOMAIN staging[b]
        BY <3>1
      <3>3. staging'[b].files = Holds(dir, name, content)
        BY <1>1, <3>1 DEF PackTypes
      <3>4. building'[b] = Next(name)
        BY <1>1, <2>3 DEF PackTypes
      <3> QED
        BY <1>1, <2>2, <3>2, <3>3, <3>4 DEF PackTypes
    <2>8. PackTypes' /\ \A c \in Builders \ {b} : Same(c)
      <3>1. \A c \in Builders : {"is", "files"} \subseteq DOMAIN staging'[c]
        BY <1>1, <2>7 DEF PackTypes
      <3> QED
        BY <1>1, <2>3, <2>7, <3>1 DEF PackTypes, Same
    <2>9. /\ name \in DOMAIN staging'[b].files /\ staging'[b].files[name] = content
          /\ \A x \in DOMAIN dir \ {name} : x \in DOMAIN staging'[b].files /\ staging'[b].files[x] = dir[x]
      BY <2>7 DEF Holds
    <2>10. results'[b] = << >>
      BY <1>1, <2>1, <2>3, <2>4 DEF BuilderOK, EndOK
    <2>11. EndOK(b)'
      BY <2>4, <2>5, <2>7, <2>10 DEF EndOK
    <2>12. CopiesOK(b) /\ ClipsOK(b) /\ DocumentsOK(b)
      BY <1>1 DEF BuilderOK
    <2> HIDE DEF dir
    <2>13. ASSUME name = "annotator"
           PROVE  BuilderOK(b)'
      <3>1. building'[b] = "template" /\ building[b] = "annotator"
        BY <2>1, <2>5, <2>7, <2>13
      <3>2. CopiesOK(b)'
        BY <2>3, <2>12, <3>1 DEF CopiesOK, Copied, Writing
      <3>3. /\ "clips" \in DOMAIN dir /\ dir["clips"] = CutsHeld(b, ClipCount)
            /\ Picked(specs[b], clip[b]) /\ Checked(specs[b], copies[b], clip[b])
        BY <2>12, <3>1 DEF ClipsOK, Copied, Writing, dir
      <3>4. staging'[b].files["clips"] = dir["clips"] /\ "clips" \in DOMAIN staging'[b].files
        BY <2>9, <2>13, <3>3
      <3>5. ClipsOK(b)'
        <4>1. Picked(specs'[b], clip'[b]) /\ Checked(specs'[b], copies'[b], clip'[b])
          BY <2>3, <3>3
        <4>2. staging'[b].files["clips"] = CutsOf(specs'[b], copies'[b]["audio"], clip'[b], ClipCount)
          BY <2>3, <3>3, <3>4 DEF CutsHeld
        <4> QED
          BY <3>1, <3>4, <4>1, <4>2 DEF ClipsOK, CutsHeld
      <3>6. DocumentsOK(b)'
        BY <2>6, <2>9, <2>13, <3>1, <3>4 DEF DocumentsOK, Sealing
      <3> QED
        BY <2>11, <3>2, <3>5, <3>6 DEF BuilderOK
    <2>14. ASSUME name = "template"
           PROVE  BuilderOK(b)'
      <3>1. building'[b] = "manifest" /\ building[b] = "template"
        BY <2>1, <2>5, <2>7, <2>14
      <3>2. CopiesOK(b)'
        BY <2>3, <2>12, <3>1 DEF CopiesOK, Copied, Writing
      <3>3. /\ "clips" \in DOMAIN dir /\ dir["clips"] = CutsHeld(b, ClipCount)
            /\ Picked(specs[b], clip[b]) /\ Checked(specs[b], copies[b], clip[b])
        BY <2>12, <3>1 DEF ClipsOK, Copied, Writing, dir
      <3>4. /\ "annotator" \in DOMAIN dir
            /\ \E order \in Shuffles : dir["annotator"] = AnnotatorRows(dir["clips"], order)
        BY <2>12, <3>1 DEF DocumentsOK, dir
      <3>5. /\ staging'[b].files["clips"] = dir["clips"] /\ "clips" \in DOMAIN staging'[b].files
            /\ staging'[b].files["annotator"] = dir["annotator"]
            /\ "annotator" \in DOMAIN staging'[b].files
        BY <2>9, <2>14, <3>3, <3>4
      <3>6. ClipsOK(b)'
        <4>1. Picked(specs'[b], clip'[b]) /\ Checked(specs'[b], copies'[b], clip'[b])
          BY <2>3, <3>3
        <4>2. staging'[b].files["clips"] = CutsOf(specs'[b], copies'[b]["audio"], clip'[b], ClipCount)
          BY <2>3, <3>3, <3>5 DEF CutsHeld
        <4> QED
          BY <3>1, <3>5, <4>1, <4>2 DEF ClipsOK, CutsHeld
      <3>7. DocumentsOK(b)'
        BY <3>1, <3>4, <3>5 DEF DocumentsOK, Sealing
      <3> QED
        BY <2>11, <3>2, <3>6, <3>7 DEF BuilderOK
    <2>15. ASSUME name = "manifest"
           PROVE  BuilderOK(b)'
      <3>1. building'[b] = "sidecar" /\ building[b] = "manifest"
        BY <2>1, <2>5, <2>7, <2>15
      <3>2. /\ dir["clips"] = CutsHeld(b, ClipCount)
            /\ Picked(specs[b], clip[b]) /\ Checked(specs[b], copies[b], clip[b])
        BY <2>12, <3>1 DEF ClipsOK, Copied, Writing, dir
      <3>3. PICK order \in Shuffles : dir["annotator"] = AnnotatorRows(dir["clips"], order)
        BY <2>12, <3>1 DEF DocumentsOK, dir
      <3>4. GoodManifest(specs[b], clip[b], content)
        BY <2>6, <2>15, <3>2, <3>3, ManifestGood
      <3>5. GoodManifest(specs'[b], clip'[b], staging'[b].files["manifest"])
        BY <2>3, <2>9, <2>15, <3>4
      <3>6. CopiesOK(b)' /\ ClipsOK(b)'
        BY <3>1 DEF CopiesOK, ClipsOK, Copied, Writing
      <3>7. DocumentsOK(b)'
        BY <2>9, <2>15, <3>1, <3>5 DEF DocumentsOK
      <3> QED
        BY <2>11, <3>6, <3>7 DEF BuilderOK
    <2>16. ASSUME name = "sidecar"
           PROVE  BuilderOK(b)'
      <3>1. building'[b] = "seal" /\ building[b] = "sidecar"
        BY <2>1, <2>5, <2>7, <2>16
      <3>2. "manifest" \in DOMAIN dir /\ GoodManifest(specs[b], clip[b], dir["manifest"])
        BY <2>12, <3>1 DEF DocumentsOK, Sealing, dir
      <3>3. /\ "manifest" \in DOMAIN staging'[b].files
            /\ staging'[b].files["manifest"] = dir["manifest"]
        BY <2>9, <2>16, <3>2
      <3>4. GoodManifest(specs'[b], clip'[b], staging'[b].files["manifest"])
        BY <2>3, <3>2, <3>3
      <3>5. CopiesOK(b)' /\ ClipsOK(b)'
        BY <3>1 DEF CopiesOK, ClipsOK, Copied, Writing
      <3>6. DocumentsOK(b)'
        BY <3>1, <3>3, <3>4 DEF DocumentsOK
      <3> QED
        BY <2>11, <3>5, <3>6 DEF BuilderOK
    <2>17. BuilderOK(b)'
      BY <2>4, <2>13, <2>14, <2>15, <2>16
    <2> QED
      BY <1>1, <2>3, <2>8, <2>17, OneMoves, TargetStays DEF PackInv, PackTypes
  <1>4. \E name \in Names \ {"clips"} :
          /\ building[b] = name
          /\ \/ /\ \E content \in Content(name) :
                     staging' = [staging EXCEPT ![b].files = Holds(@, name, content)]
                /\ Proceed(b, Next(name))
                /\ UNCHANGED << clip, inputs, copies, specs, target, results, why, disturbances >>
             \/ Refuse(b, "write")
    BY Zenon DEF WriteDocument
  <1> HIDE DEF Content, Next
  <1>5. "published" \notin Names
    BY DEF Names
  <1> QED
    BY <1>2, <1>3, <1>4, <1>5

LEMMA SealOK ==
    ASSUME PackInv, NEW b \in Builders, Seal(b)
    PROVE  PackInv'
  <1>1. building[b] = "seal" /\ BuilderOK(b) /\ PackTypes
    BY DEF Seal, PackInv
  <1>2. CASE Refuse(b, "seal") \/ Refuse(b, "target")
    BY <1>1, <1>2, RefuseOK
  <1>3. CASE ~(Refuse(b, "seal") \/ Refuse(b, "target"))
    <2>1. /\ Verified(staging[b].files, staging[b].files["manifest"])
          /\ building' = [building EXCEPT ![b] = "publish"]
          /\ clip' = clip /\ inputs' = inputs /\ copies' = copies /\ specs' = specs
          /\ staging' = staging /\ target' = target /\ results' = results
          /\ disturbances' = disturbances
      BY <1>3 DEF Seal, Proceed
    <2>2. PackTypes' /\ (\A c \in Builders \ {b} : Same(c)) /\ building'[b] = "publish"
      BY <1>1, <2>1 DEF PackTypes, Same
    <2>3. CopiesOK(b)' /\ ClipsOK(b)'
      BY <2>2 DEF CopiesOK, ClipsOK, Copied, Writing
    <2>4. DocumentsOK(b)'
      <3>1. "manifest" \in DOMAIN staging[b].files
            /\ GoodManifest(specs[b], clip[b], staging[b].files["manifest"])
        BY <1>1 DEF BuilderOK, DocumentsOK, Sealing
      <3> QED
        BY <2>1, <2>2, <3>1 DEF DocumentsOK
    <2>5. results'[b] = << >>
      BY <1>1, <2>1 DEF BuilderOK, EndOK
    <2>6. EndOK(b)'
      BY <2>2, <2>5 DEF EndOK
    <2> QED
      BY <1>1, <2>1, <2>2, <2>3, <2>4, <2>6, OneMoves, TargetStays DEF PackInv, PackTypes, BuilderOK
  <1> QED
    BY <1>2, <1>3

LEMMA PublishOK ==
    ASSUME PackInv, NEW b \in Builders, Publish(b)
    PROVE  PackInv'
  <1>1. building[b] = "publish" /\ BuilderOK(b) /\ PackTypes /\ TargetOK
    BY DEF Publish, PackInv
  <1>2. CASE Refuse(b, "target")
    BY <1>1, <1>2, RefuseOK
  <1>3. CASE ~Refuse(b, "target")
    <2> DEFINE m == staging[b].files["manifest"]
    <2>1. /\ Replaceable(target)
          /\ target' = [is |-> "pack", over |-> target.is, files |-> staging[b].files]
          /\ results' = [results EXCEPT ![b] = << m >>]
          /\ staging' = [staging EXCEPT ![b] = Gone]
          /\ copies' = [copies EXCEPT ![b] = NoFile]
          /\ building' = [building EXCEPT ![b] = "published"]
          /\ clip' = clip /\ inputs' = inputs /\ specs' = specs /\ disturbances' = disturbances
      BY <1>3 DEF Publish, Proceed
    <2>2. GoodManifest(specs[b], clip[b], m) /\ Verified(staging[b].files, m)
      BY <1>1 DEF BuilderOK, DocumentsOK, Sealing
    <2> HIDE DEF m
    <2>3. target.is \in {"absent", "empty"} /\ \A c \in Builders : results[c] = << >>
      BY <1>1, <2>1 DEF Replaceable, TargetOK
    <2>4. /\ building'[b] = "published" /\ copies'[b] = NoFile /\ staging'[b] = Gone
          /\ results'[b] = << m >> /\ results'[b] # << >> /\ results'[b][1] = m
          /\ \A c \in Builders : c # b => results'[c] = << >>
      BY <1>1, <2>1, <2>3 DEF PackTypes
    <2>5. PackTypes' /\ \A c \in Builders \ {b} : Same(c)
      <3>1. {"is", "files"} \subseteq DOMAIN Gone
        BY DEF Gone
      <3>2. \A c \in Builders : {"is", "files"} \subseteq DOMAIN staging'[c]
        BY <1>1, <2>1, <3>1 DEF PackTypes
      <3>3. {"is", "over", "files"} \subseteq DOMAIN target'
        BY <2>1
      <3> QED
        BY <1>1, <2>1, <3>2, <3>3 DEF PackTypes, Same
    <2>6. TargetOK'
      <3>1. /\ target'.is = "pack" /\ target'.over = target.is /\ target'.files = staging[b].files
        BY <2>1
      <3>2. Verified(target'.files, results'[b][1])
        BY <2>2, <2>4, <3>1
      <3> QED
        BY <2>3, <2>4, <3>1, <3>2 DEF TargetOK
    <2>7. CopiesOK(b)' /\ ClipsOK(b)' /\ DocumentsOK(b)'
      BY <2>4 DEF CopiesOK, ClipsOK, DocumentsOK, Copied, Writing, Sealing
    <2>8. EndOK(b)'
      <3>1. GoodManifest(specs'[b], clip'[b], results'[b][1])
        BY <2>1, <2>2, <2>4
      <3>2. ~Gone.is
        BY DEF Gone
      <3> QED
        BY <2>4, <3>1, <3>2 DEF EndOK
    <2> QED
      BY <2>5, <2>6, <2>7, <2>8, OneMoves DEF BuilderOK
  <1> QED
    BY <1>2, <1>3

LEMMA CleanupOK ==
    ASSUME PackInv, NEW b \in Builders, Cleanup(b)
    PROVE  PackInv'
  <1>1. /\ building[b] = "refused" /\ BuilderOK(b) /\ PackTypes
        /\ building' = [building EXCEPT ![b] = "failed"]
        /\ staging' = [staging EXCEPT ![b] = Gone] /\ copies' = [copies EXCEPT ![b] = NoFile]
        /\ clip' = clip /\ inputs' = inputs /\ specs' = specs /\ target' = target
        /\ results' = results /\ disturbances' = disturbances
    BY DEF Cleanup, Proceed, PackInv
  <1>2. /\ building'[b] = "failed" /\ copies'[b] = NoFile /\ staging'[b] = Gone
        /\ results'[b] = << >>
    BY <1>1 DEF PackTypes, BuilderOK, EndOK
  <1>3. {"is", "files"} \subseteq DOMAIN Gone /\ ~Gone.is
    BY DEF Gone
  <1>4. \A c \in Builders : {"is", "files"} \subseteq DOMAIN staging'[c]
    BY <1>1, <1>3 DEF PackTypes
  <1>5. PackTypes' /\ \A c \in Builders \ {b} : Same(c)
    BY <1>1, <1>4 DEF PackTypes, Same
  <1>6. BuilderOK(b)'
    BY <1>2, <1>3, BuilderEnds
  <1> QED
    BY <1>1, <1>5, <1>6, OneMoves, TargetStays DEF PackInv, PackTypes

LEMMA StopOK ==
    ASSUME PackInv, NEW b \in Builders, Stop(b)
    PROVE  PackInv'
  <1>1. /\ building[b] # "published" /\ BuilderOK(b) /\ PackTypes
        /\ building' = [building EXCEPT ![b] = "stopped"]
        /\ copies' \in {copies, [copies EXCEPT ![b] = NoFile]}
        /\ clip' = clip /\ inputs' = inputs /\ specs' = specs /\ staging' = staging
        /\ target' = target /\ results' = results /\ disturbances' = disturbances + 1
    BY DEF Stop, Proceed, PackInv
  <1>2. building'[b] = "stopped" /\ results'[b] = << >>
    BY <1>1 DEF PackTypes, BuilderOK, EndOK
  <1>3. DOMAIN copies' = Builders /\ \A c \in Builders \ {b} : copies'[c] = copies[c]
    BY <1>1 DEF PackTypes
  <1>4. PackTypes' /\ \A c \in Builders \ {b} : Same(c)
    BY <1>1, <1>3 DEF PackTypes, Same
  <1>5. BuilderOK(b)'
    BY <1>2, BuilderGivesUp
  <1> QED
    BY <1>1, <1>4, <1>5, OneMoves, TargetStays DEF PackInv, PackTypes

-----------------------------------------------------------------------------
(* Steps of others *)

LEMMA BuildersStay ==
    ASSUME PackInv, PackTypes', TargetOK', building' = building, clip' = clip,
           copies' = copies, specs' = specs, staging' = staging, results' = results
    PROVE  PackInv'
  <1>1. ASSUME NEW b \in Builders
        PROVE  BuilderOK(b)'
    BY BuilderStays DEF PackInv, Same
  <1> QED
    BY <1>1 DEF PackInv

LEMMA RewriteInputOK ==
    ASSUME PackInv, NEW input \in Inputs, RewriteInput(input)
    PROVE  PackInv'
  <1>1. /\ inputs' = [inputs EXCEPT ![input] = IF input = "audio" THEN @ + 1 ELSE {}]
        /\ building' = building /\ clip' = clip /\ copies' = copies /\ specs' = specs
        /\ staging' = staging /\ target' = target /\ results' = results
        /\ disturbances' = disturbances + 1 /\ PackTypes /\ TargetOK
    BY DEF RewriteInput, PackInv
  <1>2. /\ DOMAIN inputs' = Inputs /\ inputs'["reference"] \in SUBSET Nat
        /\ inputs'["system"] \in SUBSET (Nat \X Nat)
    BY <1>1 DEF PackTypes, Inputs
  <1>3. PackTypes'
    BY <1>1, <1>2 DEF PackTypes
  <1> QED
    BY <1>1, <1>3, BuildersStay, TargetStays DEF PackTypes

LEMMA OccupyOK ==
    ASSUME PackInv, Occupy
    PROVE  PackInv'
  <1>1. PICK is \in {"empty", "other"} : target' = [target EXCEPT !.is = is]
    BY DEF Occupy
  <1>2. /\ target.is = "absent" /\ PackTypes /\ TargetOK
        /\ building' = building /\ clip' = clip /\ inputs' = inputs /\ copies' = copies
        /\ specs' = specs /\ staging' = staging /\ results' = results
        /\ disturbances' = disturbances + 1
    BY DEF Occupy, PackInv
  <1>3. target'.is = is /\ DOMAIN target' = DOMAIN target
    BY <1>1, <1>2 DEF PackTypes
  <1>4. PackTypes'
    BY <1>2, <1>3 DEF PackTypes
  <1>5. TargetOK'
    BY <1>2, <1>3 DEF TargetOK
  <1> QED
    BY <1>2, <1>4, <1>5, BuildersStay

LEMMA TamperOK ==
    ASSUME PackInv, NEW name \in Names \cup {"extra"}, Tamper(name)
    PROVE  PackInv'
  <1>1. /\ target.is = "pack" /\ PackTypes /\ TargetOK
        /\ building' = building /\ clip' = clip /\ inputs' = inputs /\ copies' = copies
        /\ specs' = specs /\ staging' = staging /\ results' = results
        /\ disturbances' = disturbances + 1
    BY DEF Tamper, PackInv
  <1>2. \E files : target' = [target EXCEPT !.files = files]
    BY DEF Tamper
  <1>3. target'.is = target.is /\ target'.over = target.over /\ DOMAIN target' = DOMAIN target
    BY <1>1, <1>2 DEF PackTypes
  <1>4. PackTypes'
    BY <1>1, <1>3 DEF PackTypes
  <1>5. TargetOK'
    <2>1. disturbances' # 0
      BY <1>1 DEF PackTypes
    <2> QED
      BY <1>1, <1>3, <2>1 DEF TargetOK
  <1> QED
    BY <1>1, <1>4, <1>5, BuildersStay

-----------------------------------------------------------------------------
(* Theorems *)

LEMMA InvInit == PackInit => PackInv
  <1> SUFFICES ASSUME PackInit
               PROVE  PackInv
    OBVIOUS
  <1>1. PackTypes
    <2>1. inputs["reference"] \in SUBSET Nat /\ inputs["system"] \in SUBSET (Nat \X Nat)
      BY PackAssumption DEF PackInit
    <2> QED
      BY <2>1 DEF PackInit, PackTypes, Gone, Inputs
  <1>2. TargetOK
    BY DEF PackInit, TargetOK
  <1>3. ASSUME NEW b \in Builders
        PROVE  BuilderOK(b)
    <2>1. building[b] = "target" /\ results[b] = << >> /\ copies[b] = NoFile /\ ~staging[b].is
      BY DEF PackInit, Gone
    <2>2. CopiesOK(b) /\ ClipsOK(b) /\ DocumentsOK(b) /\ EndOK(b)
      BY <2>1 DEF CopiesOK, ClipsOK, DocumentsOK, EndOK, Copied, Writing, Sealing
    <2> QED
      BY <2>2 DEF BuilderOK
  <1> QED
    BY <1>1, <1>2, <1>3 DEF PackInv

LEMMA InvStutters ==
    ASSUME PackInv, UNCHANGED packVars
    PROVE  PackInv'
  <1>1. /\ building' = building /\ clip' = clip /\ inputs' = inputs /\ copies' = copies
        /\ specs' = specs /\ staging' = staging /\ target' = target /\ results' = results
        /\ disturbances' = disturbances /\ PackTypes /\ TargetOK
    BY DEF packVars, PackInv
  <1>2. PackTypes'
    BY <1>1 DEF PackTypes
  <1> QED
    BY <1>1, <1>2, BuildersStay, TargetStays DEF PackTypes

LEMMA InvStep == PackInv /\ [PackNext]_packVars => PackInv'
  <1> SUFFICES ASSUME PackInv, [PackNext]_packVars
               PROVE  PackInv'
    OBVIOUS
  <1>1. ASSUME NEW b \in Builders, Build(b)
        PROVE  PackInv'
    BY <1>1, CheckTargetOK, TakeCopyOK, SelectOK, CutClipOK, WriteDocumentOK, SealOK,
       PublishOK, CleanupOK, StopOK DEF Build
  <1>2. ASSUME NEW input \in Inputs, RewriteInput(input)
        PROVE  PackInv'
    BY <1>2, RewriteInputOK
  <1>3. ASSUME NEW name \in Names \cup {"extra"}, Tamper(name)
        PROVE  PackInv'
    BY <1>3, TamperOK
  <1>4. CASE UNCHANGED packVars
    BY <1>4, InvStutters
  <1> QED
    BY <1>1, <1>2, <1>3, <1>4, OccupyOK DEF PackNext

\* However builders, inputs and the output path move, a copy that a builder reads is
\* there and what it claims to be, a manifest that was sealed tells what was picked and
\* cut (blind_annotation.py build), and one builder at most has a pack at the path.
THEOREM PackInvariant == PackSpec => []PackInv
  BY InvInit, InvStep, PTL DEF PackSpec

\* A pack is published once, over nothing that somebody else put there, and a builder
\* that ends leaves neither copies nor a staging directory (os.replace, except and
\* finally of the build).
THEOREM PackPublishedOnce == PackSpec => []PublishedOnce
  <1>1. PackInv => PublishedOnce
    <2> SUFFICES ASSUME PackInv
                 PROVE  PublishedOnce
      OBVIOUS
    <2>1. TargetOK /\ \A b \in Builders : EndOK(b)
      BY DEF PackInv, BuilderOK
    <2> DEFINE done == {b \in Builders : results[b] # << >>}
    <2>2. Cardinality(done) <= 1
      <3>1. CASE done = {}
        BY <3>1, FS_EmptySet
      <3>2. CASE done # {}
        <4>1. PICK b \in done : TRUE
          BY <3>2
        <4>2. done = {b}
          BY <2>1, <4>1 DEF TargetOK
        <4>3. Cardinality({b}) = 1
          BY FS_Singleton
        <4> QED
          BY <4>2, <4>3
      <3> QED
        BY <3>1, <3>2
    <2>3. /\ target.is = "pack" => target.over \in {"absent", "empty"}
          /\ (\E b \in Builders : results[b] # << >>) => target.is = "pack"
      BY <2>1 DEF TargetOK
    <2>4. \A b \in Builders : building[b] \in {"published", "failed"} =>
            copies[b] = NoFile /\ ~staging[b].is
      BY <2>1 DEF EndOK
    <2> QED
      BY <2>2, <2>3, <2>4 DEF PublishedOnce
  <1> QED
    BY <1>1, PackInvariant, PTL

\* verify_pack accepts what was published, as long as nobody touches it, and what it
\* accepts under the digest that the builder returned is cut from the one recording it
\* names, in disjoint clips of the kinds they are listed as, with annotator and template
\* rows about the same clips in the same order.
THEOREM PackAcceptedIsSound == PackSpec => []AcceptedIsSound
  <1>1. PackInv => AcceptedIsSound
    <2> SUFFICES ASSUME PackInv, target.is = "pack"
                 PROVE  \E b \in Builders :
                          /\ results[b] # << >>
                          /\ Verified(target.files, results[b][1]) => Sound(target.files)
                          /\ disturbances = 0 => Verified(target.files, results[b][1])
      BY DEF AcceptedIsSound
    <2>1. PICK b \in Builders : /\ results[b] # << >>
                                /\ disturbances = 0 => Verified(target.files, results[b][1])
      BY DEF PackInv, TargetOK
    <2>2. GoodManifest(specs[b], clip[b], results[b][1])
      BY <2>1 DEF PackInv, BuilderOK, EndOK
    <2>3. clip[b] \in Nat \ {0}
      BY Parameters DEF PackInv, PackTypes
    <2>4. Verified(target.files, results[b][1]) => Sound(target.files)
      BY <2>2, <2>3, AcceptedSound
    <2> QED
      BY <2>1, <2>4
  <1> QED
    BY <1>1, PackInvariant, PTL

-----------------------------------------------------------------------------
(* Numbers of things *)

LEMMA LeastNumber ==
    ASSUME NEW T, T \subseteq Nat, T # {}
    PROVE  Min(T) \in T /\ \A m \in T : Min(T) <= m
  <1> DEFINE R == {ss \in Nat \X Nat : ss[1] < ss[2]}
  <1>1. IsWellFoundedOn(R, Nat)
    BY NatLessThanWellFounded DEF OpToRel
  <1>2. PICK n \in T : \A m \in T : << m, n >> \notin R
    <2> HIDE DEF R
    <2> QED
      BY <1>1, WFMin
  <1>3. ASSUME NEW m \in T
        PROVE  n <= m
    <2>1. << m, n >> \in Nat \X Nat
      OBVIOUS
    <2>2. ~(m < n)
      BY <2>1, <1>2
    <2> QED
      BY <2>2
  <1> QED
    BY <1>3 DEF Min

\* Induction over the numbers up to a bound.
LEMMA Climb ==
    ASSUME NEW N \in Nat, NEW T, 0 \in T, \A m \in 1..N : m - 1 \in T => m \in T
    PROVE  0..N \subseteq T
  <1> DEFINE out == (0..N) \ T
             n == Min(out)
  <1>1. ASSUME out # {}
        PROVE  FALSE
    <2>1. n \in out /\ \A m \in out : n <= m
      BY <1>1, LeastNumber
    <2> HIDE DEF n
    <2>2. n \in 1..N /\ n - 1 \notin T
      BY <2>1
    <2> QED
      BY <2>1, <2>2
  <1> QED
    BY <1>1

\* A row without repetition holds as many things as it is long.
LEMMA RowHolds ==
    ASSUME NEW k \in Nat, NEW f, DOMAIN f = 1..k, IsInjective(f)
    PROVE  IsFiniteSet(Range(f)) /\ Cardinality(Range(f)) = k
  <1> DEFINE g == [i \in 1..k |-> f[i]]
  <1>1. g \in Surjection(1..k, Range(f))
    BY DEF Surjection, Range
  <1>2. g \in Injection(1..k, Range(f))
    BY <1>1 DEF Surjection, Injection, IsInjective
  <1>3. IsFiniteSet(1..k) /\ Cardinality(1..k) = k
    BY FS_Interval
  <1> HIDE DEF g
  <1> QED
    BY <1>1, <1>2, <1>3, FS_Surjection

LEMMA OrderHolds ==
    ASSUME NEW set, NEW k \in Nat, NEW s \in Orders(set, k)
    PROVE  /\ s \in [1..k -> set] /\ IsInjective(s) /\ Range(s) \subseteq set
           /\ IsFiniteSet(Range(s)) /\ Cardinality(Range(s)) = k
  <1>1. s \in [1..k -> set] /\ IsInjective(s)
    BY DEF Orders
  <1>2. Range(s) \subseteq set
    BY <1>1 DEF Range
  <1> QED
    BY <1>1, <1>2, RowHolds

\* Where every part of a set has a first, as many of it come first as there are.
LEMMA FirstExist ==
    ASSUME NEW set, IsFiniteSet(set), NEW order,
           \A T \in SUBSET set : T # {} => \E m \in T : \A x \in T \ {m} : << m, x >> \in order,
           NEW k \in Nat, k <= Cardinality(set)
    PROVE  FirstOf(set, k, order) # {}
  <1> DEFINE T == {j \in 0..k : FirstOf(set, j, order) # {}}
  <1>1. 0 \in T
    <2> DEFINE s == [i \in 1..0 |-> 0]
    <2>1. s \in [1..0 -> set] /\ IsInjective(s) /\ \A i \in 1..0 : FALSE
      BY DEF IsInjective
    <2>2. s \in FirstOf(set, 0, order)
      BY <2>1 DEF FirstOf, Orders
    <2> QED
      BY <2>2
  <1>2. ASSUME NEW j \in 1..k, j - 1 \in T
        PROVE  j \in T
    <2> DEFINE h == j - 1
    <2>1. h \in Nat /\ j = h + 1 /\ h < k
      OBVIOUS
    <2>2. PICK s : s \in FirstOf(set, h, order)
      BY <1>2
    <2> HIDE DEF h
    <2>3. s \in Orders(set, h) /\ \A i \in 1..h : \A x \in set \ {s[l] : l \in 1..i} : << s[i], x >> \in order
      BY <2>2 DEF FirstOf
    <2>4. /\ s \in [1..h -> set] /\ IsInjective(s) /\ Range(s) \subseteq set
          /\ IsFiniteSet(Range(s)) /\ Cardinality(Range(s)) = h
      BY <2>1, <2>3, OrderHolds
    <2> DEFINE rest == set \ Range(s)
    <2>5. rest # {}
      <3>1. ASSUME set \subseteq Range(s)
            PROVE  FALSE
        <4>1. Cardinality(set) <= h
          BY <2>4, <3>1, FS_Subset
        <4>2. Cardinality(set) \in Nat
          BY FS_CardinalityType
        <4> QED
          BY <2>1, <4>1, <4>2
      <3> QED
        BY <3>1
    <2>6. PICK m \in rest : \A x \in rest \ {m} : << m, x >> \in order
      <3>1. rest \in SUBSET set
        OBVIOUS
      <3> HIDE DEF rest
      <3> QED
        BY <2>5, <3>1
    <2> DEFINE t == [i \in 1..(h + 1) |-> IF i = h + 1 THEN m ELSE s[i]]
    <2>7. /\ \A i \in 1..h : i \in 1..(h + 1) /\ t[i] = s[i] /\ s[i] \in set /\ s[i] \in Range(s)
          /\ h + 1 \in 1..(h + 1) /\ t[h + 1] = m /\ m \in set /\ m \notin Range(s)
          /\ \A i \in 1..(h + 1) : i \in 1..h \/ i = h + 1
      BY <2>1, <2>4, <2>6 DEF Range
    <2>8. t \in [1..(h + 1) -> set]
      BY <2>1, <2>7
    <2>9. DOMAIN t = 1..(h + 1)
      OBVIOUS
    <2> HIDE DEF t, rest
    <2>10. IsInjective(t)
      <3> SUFFICES ASSUME NEW a \in 1..(h + 1), NEW b \in 1..(h + 1), t[a] = t[b]
                   PROVE  a = b
        BY <2>9 DEF IsInjective
      <3>1. CASE a \in 1..h /\ b \in 1..h
        BY <2>4, <2>7, <3>1 DEF IsInjective
      <3>2. CASE a = h + 1 \/ b = h + 1
        BY <2>7, <3>2
      <3> QED
        BY <2>7, <3>1, <3>2
    <2>11. ASSUME NEW i \in 1..(h + 1), NEW x \in set \ {t[l] : l \in 1..i}
           PROVE  << t[i], x >> \in order
      <3>1. CASE i \in 1..h
        <4>1. \A l \in 1..i : l \in 1..h
          BY <2>1, <3>1
        <4>2. x \in set \ {s[l] : l \in 1..i}
          BY <2>7, <4>1
        <4> QED
          BY <2>3, <2>7, <3>1, <4>2
      <3>2. CASE i = h + 1
        <4>1. x \notin Range(s)
          <5>1. ASSUME NEW l \in 1..h
                PROVE  x # s[l]
            <6>1. l \in 1..i /\ t[l] = s[l]
              BY <2>1, <2>7, <3>2
            <6> QED
              BY <6>1
          <5> QED
            BY <2>4, <5>1 DEF Range
        <4>2. x # m
          BY <2>7, <3>2
        <4> QED
          BY <2>6, <2>7, <3>2, <4>1, <4>2 DEF rest
      <3> QED
        BY <2>7, <3>1, <3>2
    <2>12. t \in FirstOf(set, h + 1, order)
      <3>1. t \in Orders(set, h + 1)
        BY <2>8, <2>10 DEF Orders
      <3> QED
        BY <2>11, <3>1 DEF FirstOf
    <2> QED
      BY <2>1, <2>12
  <1> HIDE DEF T
  <1>3. k \in T
    BY <1>1, <1>2, Climb
  <1> QED
    BY <1>3 DEF T

\* A finite set can be put in a row, as much of it as one likes.
LEMMA OrderExists ==
    ASSUME NEW set, IsFiniteSet(set), NEW k \in Nat, k <= Cardinality(set)
    PROVE  Orders(set, k) # {}
  <1> DEFINE order == set \X set
  <1>1. \A T \in SUBSET set : T # {} => \E m \in T : \A x \in T \ {m} : << m, x >> \in order
    OBVIOUS
  <1> HIDE DEF order
  <1>2. FirstOf(set, k, order) # {}
    BY <1>1, FirstExist
  <1> QED
    BY <1>2 DEF FirstOf

\* Numbers have a first among them.
LEMMA EarlierExists ==
    ASSUME NEW set \in SUBSET Nat, NEW T \in SUBSET set, T # {}
    PROVE  \E m \in T : \A x \in T \ {m} : << m, x >> \in Earlier(set)
  <1>1. PICK m \in T : \A x \in T : m <= x
    BY LeastNumber
  <1>2. ASSUME NEW x \in T \ {m}
        PROVE  << m, x >> \in Earlier(set)
    <2>1. m \in Nat /\ x \in Nat /\ m <= x /\ m # x
      BY <1>1
    <2>2. << m, x >> \in set \X set /\ m < x
      BY <2>1
    <2> QED
      BY <2>2 DEF Earlier
  <1> QED
    BY <1>2

\* So have they when what the other kind can use comes last.
LEMMA RarerExists ==
    ASSUME NEW boundary \in SUBSET Nat, NEW stress, NEW T \in SUBSET boundary, T # {}
    PROVE  \E m \in T : \A x \in T \ {m} : << m, x >> \in Rarer(boundary, stress)
  <1> DEFINE rare == T \ stress
             m == IF rare # {} THEN Min(rare) ELSE Min(T)
  <1>1. m \in T /\ \A x \in T \ {m} : IF (m \in stress) = (x \in stress) THEN m < x ELSE x \in stress
    <2>1. CASE rare # {}
      <3>1. Min(rare) \in rare /\ \A x \in rare : Min(rare) <= x
        BY <2>1, LeastNumber
      <3>2. m = Min(rare)
        BY <2>1
      <3> HIDE DEF m
      <3>3. m \in Nat /\ m \in T /\ m \notin stress
        BY <3>1, <3>2
      <3>4. ASSUME NEW x \in T \ {m}
            PROVE  IF (m \in stress) = (x \in stress) THEN m < x ELSE x \in stress
        <4>1. CASE x \in stress
          BY <3>3, <4>1
        <4>2. CASE x \notin stress
          <5>1. x \in rare /\ x \in Nat
            BY <4>2
          <5>2. m < x
            BY <3>1, <3>2, <3>3, <5>1
          <5> QED
            BY <3>3, <4>2, <5>2
        <4> QED
          BY <4>1, <4>2
      <3> QED
        BY <3>3, <3>4
    <2>2. CASE rare = {}
      <3>1. Min(T) \in T /\ \A x \in T : Min(T) <= x
        BY LeastNumber
      <3>2. m = Min(T)
        BY <2>2
      <3> HIDE DEF m
      <3>3. ASSUME NEW x \in T \ {m}
            PROVE  (m \in stress) = (x \in stress) /\ m < x
        <4>1. m \in stress /\ x \in stress
          BY <2>2, <3>1, <3>2
        <4>2. m \in Nat /\ x \in Nat /\ m <= x /\ m # x
          BY <3>1, <3>2
        <4> QED
          BY <4>1, <4>2
      <3> QED
        BY <3>1, <3>2, <3>3
    <2> QED
      BY <2>1, <2>2
  <1> HIDE DEF m
  <1> QED
    BY <1>1 DEF Rarer

-----------------------------------------------------------------------------
(* Where clips of a kind may begin *)

LEMMA Greater ==
    ASSUME NEW a \in Int, NEW s \in Int
    PROVE  Max({0, a}) \in Int /\ (s >= Max({0, a}) <=> s >= 0 /\ s >= a)
  <1>1. \E x \in {0, a} : \A y \in {0, a} : x >= y
    <2>1. CASE a >= 0
      BY <2>1
    <2>2. CASE ~(a >= 0)
      BY <2>2
    <2> QED
      BY <2>1, <2>2
  <1>2. Max({0, a}) \in {0, a} /\ \A y \in {0, a} : Max({0, a}) >= y
    BY <1>1 DEF Max
  <1>3. PICK x : x = Max({0, a})
    OBVIOUS
  <1>4. x \in {0, a} /\ x >= 0 /\ x >= a
    BY <1>2, <1>3
  <1>5. x \in Int /\ (s >= x <=> s >= 0 /\ s >= a)
    BY <1>4
  <1> QED
    BY <1>3, <1>5

LEMMA Lesser ==
    ASSUME NEW a \in Int, NEW b \in Int, NEW s \in Int
    PROVE  Min({a, b}) \in Int /\ (s <= Min({a, b}) <=> s <= a /\ s <= b)
  <1>1. \E x \in {a, b} : \A y \in {a, b} : x <= y
    OBVIOUS
  <1>2. Min({a, b}) \in {a, b} /\ \A y \in {a, b} : Min({a, b}) <= y
    BY <1>1 DEF Min
  <1>3. PICK x : x = Min({a, b})
    OBVIOUS
  <1>4. x \in {a, b} /\ x <= a /\ x <= b
    BY <1>2, <1>3
  <1>5. x \in Int /\ (s <= x <=> s <= a /\ s <= b)
    BY <1>4
  <1> QED
    BY <1>3, <1>5

LEMMA Times ==
    ASSUME NEW a \in Int, NEW b \in Int, NEW m \in Nat
    PROVE  a * m \in Int /\ b * m \in Int /\ (a <= b => a * m <= b * m)
           /\ (m > 0 /\ a < b => a * m + m <= b * m)
  <1>1. a * m \in Int /\ b * m \in Int
    OBVIOUS
  <1>2. ASSUME a <= b
        PROVE  a * m <= b * m
    <2>1. b - a \in Nat /\ (b - a) * m \in Nat
      BY <1>2
    <2>2. b * m = a * m + (b - a) * m
      OBVIOUS
    <2> QED
      BY <1>1, <2>1, <2>2
  <1>3. ASSUME a < b
        PROVE  a * m + m <= b * m
    <2>1. b - a - 1 \in Nat /\ (b - a - 1) * m \in Nat
      BY <1>3
    <2>2. b * m = (a * m + m) + (b - a - 1) * m
      OBVIOUS
    <2> QED
      BY <1>1, <2>1, <2>2
  <1> QED
    BY <1>1, <1>2, <1>3

LEMMA Quotient ==
    ASSUME NEW a \in Int, NEW m \in Nat \ {0}
    PROVE  a \div m \in Int /\ (a \div m) * m <= a /\ a < (a \div m) * m + m
  <1>1. a \div m \in Int /\ a % m \in 0..(m - 1) /\ a = m * (a \div m) + (a % m)
    OBVIOUS
  <1>2. m * (a \div m) = (a \div m) * m /\ (a \div m) * m \in Int
    BY <1>1
  <1> QED
    BY <1>1, <1>2

LEMMA QuotientIs ==
    ASSUME NEW a \in Int, NEW m \in Nat \ {0}, NEW q \in Int, q * m <= a, a < q * m + m
    PROVE  a \div m = q
  <1>1. PICK d \in Int : d = a \div m /\ d * m <= a /\ a < d * m + m
    BY Quotient
  <1>2. q * m \in Int /\ d * m \in Int
    OBVIOUS
  <1>3. ~(d < q)
    <2>1. d < q => d * m + m <= q * m
      BY Times
    <2> QED
      BY <1>1, <1>2, <2>1
  <1>4. ~(q < d)
    <2>1. q < d => q * m + m <= d * m
      BY Times
    <2> QED
      BY <1>1, <1>2, <2>1
  <1> QED
    BY <1>1, <1>3, <1>4

LEMMA QuotientGrows ==
    ASSUME NEW a \in Int, NEW b \in Int, NEW m \in Nat \ {0}, a <= b
    PROVE  a \div m <= b \div m
  <1>1. PICK d \in Int : d = a \div m /\ d * m <= a /\ a < d * m + m
    BY Quotient
  <1>2. PICK e \in Int : e = b \div m /\ e * m <= b /\ b < e * m + m
    BY Quotient
  <1>3. ~(e < d)
    <2>1. e < d => e * m + m <= d * m
      BY Times
    <2>2. e * m \in Int /\ d * m \in Int
      OBVIOUS
    <2> QED
      BY <1>1, <1>2, <2>1, <2>2
  <1> QED
    BY <1>1, <1>2, <1>3

\* An event takes time, and so a frame.
LEMMA EventLasts ==
    ASSUME NEW from \in Nat, NEW to \in Nat, from < to
    PROVE  FrameOf(from) < FrameAfter(to)
  <1> DEFINE a == from * Rate
             b == to * Rate
  <1>1. a \in Int /\ b \in Int /\ a + 1 <= b
    <2>1. from * Rate + Rate <= to * Rate
      BY Parameters, Times
    <2>2. Rate >= 1 /\ Rate \in Nat /\ from * Rate \in Int /\ to * Rate \in Int
      BY Parameters
    <2> QED
      BY <2>1, <2>2
  <1> HIDE DEF a, b
  <1>2. PICK q \in Int : q = a \div Micro /\ q * Micro <= a /\ a < q * Micro + Micro
    BY <1>1, Parameters, Quotient
  <1>3. (a + Micro) \div Micro = q + 1
    <2>1. (q + 1) * Micro = q * Micro + Micro /\ q * Micro \in Int /\ a + Micro \in Int /\ q + 1 \in Int
      BY <1>1, Parameters
    <2>2. (q + 1) * Micro <= a + Micro /\ a + Micro < (q + 1) * Micro + Micro
      BY <1>1, <1>2, <2>1, Parameters
    <2> QED
      BY <2>1, <2>2, Parameters, QuotientIs
  <1>4. (a + Micro) \div Micro <= (b + Micro - 1) \div Micro
    <2>1. a + Micro \in Int /\ b + Micro - 1 \in Int /\ a + Micro <= b + Micro - 1
      BY <1>1, Parameters
    <2> QED
      BY <2>1, Parameters, QuotientGrows
  <1>5. (b + Micro - 1) \div Micro \in Int
    BY <1>1, Parameters
  <1>6. a \div Micro < (b + Micro - 1) \div Micro
    BY <1>2, <1>3, <1>4, <1>5
  <1> QED
    BY <1>6 DEF FrameOf, FrameAfter, a, b

LEMMA OnGrid ==
    ASSUME NEW n \in Nat \ {0}, NEW s \in Grid(n, 0, SourceFrames - n)
    PROVE  s \in Nat /\ s % n = 0 /\ s + n <= SourceFrames /\ s <= SourceFrames - n
  BY Parameters DEF Grid

LEMMA BoundaryIs ==
    ASSUME NEW n \in Nat \ {0}, NEW points \in SUBSET Nat, NEW s \in Grid(n, 0, SourceFrames - n)
    PROVE  s \in BoundaryStarts(points, n) <=> HasPoint(s, n, points)
  <1>1. s \in Nat /\ s % n = 0 /\ s + n <= SourceFrames /\ s <= SourceFrames - n
    BY OnGrid
  <1>2. ASSUME NEW p \in points
        PROVE  /\ FrameOf(p) \in Nat
               /\ s \in Grid(n, Max({0, FrameOf(p) - n + 1}), Min({SourceFrames - n, FrameOf(p)}))
                    <=> s <= FrameOf(p) /\ FrameOf(p) < s + n
    <2>1. PICK f \in Nat : f = FrameOf(p)
      BY FrameFacts
    <2>2. /\ Max({0, f - n + 1}) \in Int /\ (s >= Max({0, f - n + 1}) <=> s >= 0 /\ s >= f - n + 1)
      <3>1. f - n + 1 \in Int /\ s \in Int
        BY <1>1
      <3> QED
        BY <3>1, Greater
    <2>3. Min({SourceFrames - n, f}) \in Int /\ (s <= Min({SourceFrames - n, f}) <=> s <= SourceFrames - n /\ s <= f)
      <3>1. SourceFrames - n \in Int /\ s \in Int /\ f \in Int
        BY <1>1, Parameters
      <3> QED
        BY <3>1, Lesser
    <2>4. s \in Grid(n, Max({0, f - n + 1}), Min({SourceFrames - n, f}))
            <=> s >= Max({0, f - n + 1}) /\ s <= Min({SourceFrames - n, f})
      BY <1>1, <2>2, <2>3 DEF Grid
    <2>5. s >= f - n + 1 <=> f < s + n
      BY <1>1
    <2> QED
      BY <1>1, <2>1, <2>2, <2>3, <2>4, <2>5
  <1>3. \A p \in points : s <= FrameOf(p) /\ FrameOf(p) < s + n => FrameOf(p) < SourceFrames
    <2> SUFFICES ASSUME NEW p \in points, FrameOf(p) < s + n
                 PROVE  FrameOf(p) < SourceFrames
      OBVIOUS
    <2>1. FrameOf(p) \in Nat
      BY <1>2
    <2> QED
      BY <1>1, <2>1, Parameters
  <1> QED
    BY <1>2, <1>3 DEF BoundaryStarts, HasPoint

\* Marked events begin before they end.
Marks == {m \in Nat \X Nat : m[1] < m[2]}

LEMMA StressIs ==
    ASSUME NEW n \in Nat \ {0}, NEW marked \in SUBSET Marks, NEW s \in Grid(n, 0, SourceFrames - n)
    PROVE  s \in StressStarts(marked, n) <=> Overlaps(s, n, marked)
  <1> DEFINE First(m) == FrameOf(m[1])
             Final(m) == Min({SourceFrames, FrameAfter(m[2])})
             Window(m) == Grid(n, Max({0, First(m) - n + 1}), Min({SourceFrames - n, Final(m) - 1}))
  <1>1. s \in Nat /\ s % n = 0 /\ s + n <= SourceFrames /\ s <= SourceFrames - n
    BY OnGrid
  <1>2. ASSUME NEW m \in marked
        PROVE  ~(Final(m) <= First(m)) /\ s \in Window(m) <=> s < Final(m) /\ s + n > First(m)
    <2>1. m[1] \in Nat /\ m[2] \in Nat /\ m[1] < m[2]
      BY DEF Marks
    <2>2. PICK f \in Nat : f = FrameOf(m[1])
      BY <2>1, FrameFacts
    <2>3. PICK a \in Int : a = FrameAfter(m[2])
      BY <2>1, FrameFacts
    <2>4. f < a
      BY <2>1, <2>2, <2>3, EventLasts
    <2>5. Min({SourceFrames, a}) \in Int /\ (f + 1 <= Min({SourceFrames, a}) <=> f + 1 <= SourceFrames /\ f + 1 <= a)
      <3>1. f + 1 \in Int /\ SourceFrames \in Int
        BY Parameters
      <3> QED
        BY <3>1, Lesser
    <2>6. PICK l \in Int : l = Min({SourceFrames, a})
      BY <2>5
    <2>7. Max({0, f - n + 1}) \in Int /\ (s >= Max({0, f - n + 1}) <=> s >= 0 /\ s >= f - n + 1)
      <3>1. f - n + 1 \in Int /\ s \in Int
        BY <1>1
      <3> QED
        BY <3>1, Greater
    <2>8. Min({SourceFrames - n, l - 1}) \in Int
          /\ (s <= Min({SourceFrames - n, l - 1}) <=> s <= SourceFrames - n /\ s <= l - 1)
      <3>1. SourceFrames - n \in Int /\ s \in Int /\ l - 1 \in Int
        BY <1>1, Parameters
      <3> QED
        BY <3>1, Lesser
    <2>9. s \in Grid(n, Max({0, f - n + 1}), Min({SourceFrames - n, l - 1}))
            <=> s >= Max({0, f - n + 1}) /\ s <= Min({SourceFrames - n, l - 1})
      BY <1>1, <2>7, <2>8 DEF Grid
    <2>10. s + n > f => f + 1 <= SourceFrames
      BY <1>1, Parameters
    <2>11. ~(l <= f) /\ s >= f - n + 1 /\ s <= l - 1 <=> s < l /\ s + n > f
      BY <1>1, <2>4, <2>5, <2>6, <2>10
    <2> QED
      BY <1>1, <2>2, <2>3, <2>6, <2>7, <2>8, <2>9, <2>11
  <1>3. StressStarts(marked, n) = UNION {IF Final(m) <= First(m) THEN {} ELSE Window(m) : m \in marked}
    BY DEF StressStarts
  <1>4. Overlaps(s, n, marked) <=> \E m \in marked : s < Final(m) /\ s + n > First(m)
    BY DEF Overlaps
  <1> HIDE DEF First, Final, Window
  <1> QED
    BY <1>2, <1>3, <1>4

-----------------------------------------------------------------------------
(* Choices that exist *)

\* Clips of one grid are compatible, so that only what is taken is not free.
LEMMA FreeIs ==
    ASSUME NEW n \in Nat \ {0}, NEW taken \in SUBSET Grid(n, 0, SourceFrames - n)
    PROVE  Compatible(Grid(n, 0, SourceFrames - n) \ taken, taken, n) = Grid(n, 0, SourceFrames - n) \ taken
  <1> DEFINE grid == Grid(n, 0, SourceFrames - n)
             rest == grid \ taken
             Fix(f) == f = [s \in rest |-> \A t \in taken \cup {k \in rest : k < s /\ f[k]} : Apart(s, t, n)]
             kept == CHOOSE f : Fix(f)
  <1>1. Compatible(rest, taken, n) = {s \in rest : kept[s]}
    BY Zenon DEF Compatible
  <1>2. ASSUME NEW s \in rest, NEW t \in grid, s # t
        PROVE  Apart(s, t, n)
    <2>1. s \in grid
      OBVIOUS
    <2>2. s \in Nat /\ s % n = 0 /\ t \in Nat /\ t % n = 0
      BY <2>1, OnGrid
    <2> QED
      BY <1>2, <2>2, GridApart
  <1>3. ASSUME NEW s \in rest, NEW f
        PROVE  \A t \in taken \cup {k \in rest : k < s /\ f[k]} : Apart(s, t, n)
    <2> SUFFICES ASSUME NEW t \in taken \cup {k \in rest : k < s /\ f[k]}
                 PROVE  Apart(s, t, n)
      OBVIOUS
    <2>1. CASE t \in taken
      BY <1>2, <2>1
    <2>2. CASE t \in rest /\ t < s
      <3>1. s \in Nat /\ t \in Nat
        BY <2>2, OnGrid
      <3>2. s # t
        BY <2>2, <3>1
      <3> QED
        BY <1>2, <2>2, <3>2
    <2> QED
      BY <2>1, <2>2
  <1> HIDE DEF rest
  <1>4. Fix([s \in rest |-> TRUE])
    BY <1>3
  <1>5. Fix(kept)
    BY <1>4, Zenon
  <1> HIDE DEF kept
  <1>6. \A s \in rest : kept[s]
    BY <1>3, <1>5
  <1>7. Compatible(rest, taken, n) = rest
    BY <1>1, <1>6
  <1> QED
    BY <1>7 DEF rest

\* Which clips a pair is of: different ones.
LEMMA PairsApart ==
    ASSUME NEW boundary, NEW stress, NEW pair \in Pairs(boundary, stress)
    PROVE  /\ pair[1] \in Orders(boundary, BoundaryCount)
           /\ pair[2] \in Orders(stress \ Range(pair[1]), StressCount)
  <1>1. pair \in Drawn(boundary, stress) \cup Spared(boundary, stress)
    BY DEF Pairs
  <1>2. \A set, n, order : FirstOf(set, n, order) \subseteq Orders(set, n)
    BY DEF FirstOf
  <1>3. PICK taken \in Orders(boundary, BoundaryCount) :
          \E s \in Orders(stress \ Range(taken), StressCount) : pair = << taken, s >>
    <2>1. CASE pair \in Drawn(boundary, stress)
      BY <2>1 DEF Drawn, Leaving, Left
    <2>2. CASE pair \in Spared(boundary, stress)
      BY <1>2, <2>2 DEF Spared, Leaving, Left
    <2> QED
      BY <1>1, <2>1, <2>2
  <1>4. PICK s \in Orders(stress \ Range(taken), StressCount) : pair = << taken, s >>
    BY <1>3
  <1>5. pair[1] = taken /\ pair[2] = s
    BY <1>4
  <1> QED
    BY <1>5

\* What comes first is, of the boundary starts, either of no use for the other kind or
\* all there is that is not.
LEMMA RareFirst ==
    ASSUME NEW boundary, NEW stress, NEW t \in FirstOf(boundary, BoundaryCount, Rarer(boundary, stress))
    PROVE  Range(t) \cap stress = {} \/ boundary \ stress \subseteq Range(t)
  <1>1. t \in Orders(boundary, BoundaryCount)
        /\ \A i \in 1..BoundaryCount : \A x \in boundary \ {t[j] : j \in 1..i} : << t[i], x >> \in Rarer(boundary, stress)
    BY DEF FirstOf
  <1>2. t \in [1..BoundaryCount -> boundary]
    BY <1>1 DEF Orders
  <1> SUFFICES ASSUME NEW i \in 1..BoundaryCount, t[i] \in stress, NEW x \in boundary \ stress, x \notin Range(t)
               PROVE  FALSE
    BY <1>2 DEF Range
  <1>3. x \notin {t[j] : j \in 1..i}
    <2> SUFFICES ASSUME NEW j \in 1..i, x = t[j]
                 PROVE  FALSE
      OBVIOUS
    <2>1. j \in 1..BoundaryCount
      BY Parameters
    <2> QED
      BY <1>2, <2>1 DEF Range
  <1>4. << t[i], x >> \in Rarer(boundary, stress)
    BY <1>1, <1>3
  <1>5. IF (t[i] \in stress) = (x \in stress) THEN t[i] < x ELSE x \in stress
    BY <1>4 DEF Rarer
  <1> QED
    BY <1>5

\* Where there are different clips for both kinds, what then comes first leaves enough.
LEMMA RareLeaves ==
    ASSUME NEW boundary, IsFiniteSet(boundary), NEW stress, IsFiniteSet(stress),
           NEW x \in SUBSET boundary, Cardinality(x) = BoundaryCount,
           NEW y \in SUBSET stress, Cardinality(y) = StressCount, x \cap y = {},
           NEW t \in FirstOf(boundary, BoundaryCount, Rarer(boundary, stress))
    PROVE  Cardinality(Left(stress, t)) >= StressCount
  <1> DEFINE R == Range(t)
             P == boundary \ stress
  <1>1. t \in Orders(boundary, BoundaryCount) /\ BoundaryCount \in Nat /\ StressCount \in Nat
    BY Parameters DEF FirstOf
  <1>2. R \subseteq boundary /\ IsFiniteSet(R) /\ Cardinality(R) = BoundaryCount
    BY <1>1, OrderHolds
  <1> HIDE DEF R
  <1>3. IsFiniteSet(stress \ R) /\ Cardinality(stress \ R) = Cardinality(stress) - Cardinality(stress \cap R)
    BY FS_Difference
  <1>4. Cardinality(stress) \in Nat /\ Cardinality(stress) >= StressCount
    BY FS_CardinalityType, FS_Subset
  <1>5. CASE R \cap stress = {}
    <2>1. stress \ R = stress
      BY <1>5
    <2> QED
      BY <1>4, <2>1 DEF Left, R
  <1>6. CASE P \subseteq R
    <2>1. IsFiniteSet(x \cup y) /\ Cardinality(x \cup y) = BoundaryCount + StressCount
      <3>1. IsFiniteSet(x) /\ IsFiniteSet(y)
        BY FS_Subset
      <3>2. Cardinality(x \cap y) = 0
        BY FS_EmptySet
      <3>3. IsFiniteSet(x \cup y) /\ Cardinality(x \cup y) = Cardinality(x) + Cardinality(y) - Cardinality(x \cap y)
        BY <3>1, FS_Union
      <3> QED
        BY <1>1, <3>2, <3>3
    <2>2. IsFiniteSet(P)
      BY FS_Difference
    <2>3. IsFiniteSet(P \cup stress) /\ Cardinality(P \cup stress) = Cardinality(P) + Cardinality(stress)
      <3>1. P \cap stress = {} /\ Cardinality(P \cap stress) = 0
        BY FS_EmptySet
      <3>2. IsFiniteSet(P \cup stress) /\ Cardinality(P \cup stress) = Cardinality(P) + Cardinality(stress) - Cardinality(P \cap stress)
        BY <2>2, FS_Union
      <3>3. Cardinality(P) \in Nat
        BY <2>2, FS_CardinalityType
      <3> QED
        BY <1>4, <3>1, <3>2, <3>3
    <2>4. Cardinality(x \cup y) <= Cardinality(P \cup stress)
      <3>1. x \cup y \subseteq P \cup stress
        OBVIOUS
      <3> QED
        BY <2>3, <3>1, FS_Subset
    <2>5. Cardinality(R) = Cardinality(P) + Cardinality(stress \cap R)
      <3>1. R \ stress = P /\ R \cap stress = stress \cap R
        BY <1>2, <1>6
      <3>2. Cardinality(R \ stress) = Cardinality(R) - Cardinality(R \cap stress)
        BY <1>2, FS_Difference
      <3>3. IsFiniteSet(stress \cap R) /\ Cardinality(stress \cap R) \in Nat /\ Cardinality(P) \in Nat
        BY <2>2, FS_Intersection, FS_CardinalityType
      <3>4. Cardinality(P) = BoundaryCount - Cardinality(stress \cap R)
        BY <1>2, <3>1, <3>2
      <3> HIDE DEF P
      <3> QED
        BY <1>1, <1>2, <3>3, <3>4
    <2>6. Cardinality(P) \in Nat /\ Cardinality(stress \cap R) \in Nat
      BY <2>2, FS_Intersection, FS_CardinalityType
    <2> HIDE DEF P
    <2>7. Cardinality(stress \ R) >= StressCount
      BY <1>1, <1>2, <1>3, <1>4, <2>1, <2>3, <2>4, <2>5, <2>6
    <2> QED
      BY <2>7 DEF Left, R
  <1>7. R \cap stress = {} \/ P \subseteq R
    BY RareFirst DEF R
  <1> QED
    BY <1>5, <1>6, <1>7

LEMMA PairsExist ==
    ASSUME NEW boundary \in SUBSET Nat, IsFiniteSet(boundary), NEW stress \in SUBSET Nat, IsFiniteSet(stress),
           NEW x \in SUBSET boundary, Cardinality(x) = BoundaryCount,
           NEW y \in SUBSET stress, Cardinality(y) = StressCount, x \cap y = {}
    PROVE  Pairs(boundary, stress) # {} /\ ~Stuck(boundary, stress)
  <1>1. BoundaryCount \in Nat /\ StressCount \in Nat
    BY Parameters
  <1>2. IsFiniteSet(x) /\ IsFiniteSet(y)
    BY FS_Subset
  <1>3. /\ Cardinality(boundary) \in Nat /\ Cardinality(boundary) >= BoundaryCount
        /\ Cardinality(stress) \in Nat /\ Cardinality(stress) >= StressCount
    BY FS_CardinalityType, FS_Subset
  <1>4. Drawn(boundary, stress) # {}
    <2>1. PICK a : a \in Orders(x, BoundaryCount)
      BY <1>1, <1>2, OrderExists
    <2>2. PICK c : c \in Orders(y, StressCount)
      BY <1>1, <1>2, OrderExists
    <2>3. a \in Orders(boundary, BoundaryCount) /\ Range(a) \subseteq x
      <3>1. a \in [1..BoundaryCount -> x] /\ IsInjective(a) /\ Range(a) \subseteq x
        BY <1>1, <2>1, OrderHolds
      <3>2. a \in [1..BoundaryCount -> boundary]
        BY <3>1
      <3> QED
        BY <3>1, <3>2 DEF Orders
    <2>4. y \subseteq Left(stress, a)
      BY <2>3 DEF Left
    <2>5. c \in Orders(Left(stress, a), StressCount)
      <3>1. c \in [1..StressCount -> y] /\ IsInjective(c)
        BY <1>1, <2>2, OrderHolds
      <3>2. c \in [1..StressCount -> Left(stress, a)]
        BY <2>4, <3>1
      <3> QED
        BY <3>1, <3>2 DEF Orders
    <2>6. Cardinality(Left(stress, a)) >= StressCount
      <3>1. IsFiniteSet(Left(stress, a))
        BY FS_Difference DEF Left
      <3>2. Cardinality(y) <= Cardinality(Left(stress, a))
        BY <2>4, <3>1, FS_Subset
      <3>3. Cardinality(Left(stress, a)) \in Nat
        BY <3>1, FS_CardinalityType
      <3> QED
        BY <1>1, <3>2, <3>3
    <2>7. a \in Leaving(Orders(boundary, BoundaryCount), stress)
      BY <2>3, <2>6 DEF Leaving
    <2>8. << a, c >> \in Drawn(boundary, stress)
      BY <2>5, <2>7 DEF Drawn
    <2> QED
      BY <2>8
  <1>5. Spared(boundary, stress) # {}
    <2>1. PICK t : t \in FirstOf(boundary, BoundaryCount, Rarer(boundary, stress))
      <3>1. \A T \in SUBSET boundary : T # {} => \E m \in T : \A z \in T \ {m} : << m, z >> \in Rarer(boundary, stress)
        BY RarerExists
      <3> QED
        BY <1>1, <1>3, <3>1, FirstExist
    <2>2. Cardinality(Left(stress, t)) >= StressCount
      BY <2>1, RareLeaves
    <2>3. t \in Leaving(FirstOf(boundary, BoundaryCount, Rarer(boundary, stress)), stress)
      BY <2>1, <2>2 DEF Leaving
    <2> DEFINE left == Left(stress, t)
    <2>4. left \in SUBSET Nat /\ IsFiniteSet(left)
      BY FS_Difference DEF Left
    <2>5. Cardinality(left) \in Nat
      BY <2>4, FS_CardinalityType
    <2>6. PICK s : s \in FirstOf(left, StressCount, Earlier(left))
      <3> HIDE DEF left
      <3>1. \A T \in SUBSET left : T # {} => \E m \in T : \A z \in T \ {m} : << m, z >> \in Earlier(left)
        BY <2>4, EarlierExists
      <3>2. StressCount <= Cardinality(left)
        BY <1>1, <2>2, <2>5 DEF left
      <3> QED
        BY <1>1, <2>4, <3>1, <3>2, FirstExist
    <2>7. << t, s >> \in Spared(boundary, stress)
      BY <2>3, <2>6 DEF Spared
    <2> QED
      BY <2>7
  <1>6. Pairs(boundary, stress) # {}
    BY <1>1, <1>3, <1>4 DEF Pairs
  <1> QED
    BY <1>5, <1>6 DEF Stuck

LEMMA Multiple ==
    ASSUME NEW q \in Nat, NEW n \in Nat \ {0}
    PROVE  q * n \in Nat /\ (q * n) \div n = q /\ (q * n) % n = 0
  <1>1. q * n \in Nat /\ q * n < q * n + n
    OBVIOUS
  <1>2. (q * n) \div n = q
    BY <1>1, QuotientIs
  <1> DEFINE a == q * n
  <1>3. a = n * (a \div n) + (a % n) /\ a % n \in 0..(n - 1)
    <2>1. a \in Int
      BY <1>1
    <2> HIDE DEF a
    <2> QED
      BY <2>1
  <1>4. a = n * q + (a % n) /\ n * q = a
    BY <1>2, <1>3
  <1> QED
    BY <1>1, <1>2, <1>3, <1>4

\* A recording that is long enough has room for all clips.
LEMMA GridHolds ==
    ASSUME NEW n \in Nat \ {0}
    PROVE  /\ IsFiniteSet(Grid(n, 0, SourceFrames - n)) /\ Grid(n, 0, SourceFrames - n) \subseteq Nat
           /\ SourceFrames >= ClipCount * n => Cardinality(Grid(n, 0, SourceFrames - n)) >= ClipCount
  <1> DEFINE grid == Grid(n, 0, SourceFrames - n)
             f == [i \in 1..ClipCount |-> (i - 1) * n]
  <1>1. grid \subseteq 0..SourceFrames
    BY OnGrid, Parameters
  <1>2. IsFiniteSet(grid)
    <2>1. IsFiniteSet(0..SourceFrames)
      BY Parameters, FS_Interval
    <2> HIDE DEF grid
    <2> QED
      BY <1>1, <2>1, FS_Subset
  <1>3. ASSUME SourceFrames >= ClipCount * n
        PROVE  Cardinality(grid) >= ClipCount
    <2>1. ASSUME NEW i \in 1..ClipCount
          PROVE  f[i] \in grid /\ f[i] = (i - 1) * n /\ i - 1 \in Nat
      <3>1. i - 1 \in Nat /\ i \in Nat /\ i <= ClipCount /\ ClipCount \in Nat /\ f[i] = (i - 1) * n
        BY Parameters
      <3>2. (i - 1) * n \in Nat /\ ((i - 1) * n) % n = 0
        BY <3>1, Multiple
      <3>3. (i - 1) * n + n <= ClipCount * n /\ ClipCount * n \in Int
        <4>1. i - 1 < ClipCount /\ i - 1 \in Int /\ ClipCount \in Int /\ n > 0
          BY <3>1
        <4> QED
          BY <4>1, Times
      <3>4. (i - 1) * n <= SourceFrames - n
        BY <1>3, <3>2, <3>3, Parameters
      <3>5. (i - 1) * n \in 0..(SourceFrames - n)
        BY <3>2, <3>4, Parameters
      <3> QED
        BY <3>1, <3>2, <3>5 DEF Grid
    <2>2. ASSUME NEW i \in 1..ClipCount, NEW j \in 1..ClipCount, f[i] = f[j]
          PROVE  i = j
      <3>1. ((i - 1) * n) \div n = i - 1 /\ ((j - 1) * n) \div n = j - 1
        BY <2>1, Multiple
      <3>2. i - 1 = j - 1
        BY <2>1, <2>2, <3>1
      <3> QED
        BY <3>2
    <2>3. f \in [1..ClipCount -> grid]
      BY <2>1
    <2> HIDE DEF f, grid
    <2>4. f \in Injection(1..ClipCount, grid)
      BY <2>2, <2>3 DEF Injection, IsInjective
    <2>5. Cardinality(1..ClipCount) <= Cardinality(grid)
      BY <1>2, <2>4, FS_Injection
    <2>6. Cardinality(1..ClipCount) = ClipCount
      BY Parameters, FS_Interval
    <2>7. Cardinality(grid) \in Nat
      BY <1>2, FS_CardinalityType
    <2> QED
      BY <2>5, <2>6, <2>7, Parameters
  <1> QED
    BY <1>1, <1>2, <1>3

\* The clips of each kind follow each other.
Kind(i) == IF i <= UniformCount THEN "uniform"
           ELSE IF i <= UniformCount + BoundaryCount THEN "boundary" ELSE "stress"
Kinds(chosen) == \A i \in 1..ClipCount : chosen[i].category = Kind(i)

LEMMA Places ==
    ASSUME NEW i \in 1..ClipCount
    PROVE  /\ Kind(i) \in {"uniform", "boundary", "stress"}
           /\ Kind(i) = "uniform" <=> i \in 1..UniformCount
           /\ Kind(i) = "boundary" <=> i - UniformCount \in 1..BoundaryCount
           /\ Kind(i) = "stress" <=> i - UniformCount - BoundaryCount \in 1..StressCount
           /\ Kind(i) = "uniform" <=> i <= UniformCount
           /\ Kind(i) = "boundary" <=> ~(i <= UniformCount) /\ i <= UniformCount + BoundaryCount
  BY Parameters DEF Kind, ClipCount

\* The clips of one choice.
Chosen(chosen, pair, u) ==
    /\ DOMAIN chosen = 1..ClipCount /\ Kinds(chosen)
    /\ \A i \in 1..ClipCount :
         chosen[i].start = IF Kind(i) = "uniform" THEN u[i]
                           ELSE IF Kind(i) = "boundary" THEN pair[1][i - UniformCount]
                           ELSE pair[2][i - UniformCount - BoundaryCount]

Unused(n, pair) == Grid(n, 0, SourceFrames - n) \ (Range(pair[1]) \cup Range(pair[2]))

\* What is chosen for a pair, and that there is something.
LEMMA ChoicesAre ==
    ASSUME NEW held, NEW n \in Nat \ {0}, held["reference"] \in SUBSET Nat, held["system"] \in SUBSET Marks
    PROVE  /\ \A chosen \in Selections(held, n) :
                \E pair \in Pairs(BoundaryStarts(held["reference"], n), StressStarts(held["system"], n)) :
                  \E u \in Orders(Unused(n, pair), UniformCount) : Chosen(chosen, pair, u)
           /\ \A pair \in Pairs(BoundaryStarts(held["reference"], n), StressStarts(held["system"], n)) :
                Orders(Unused(n, pair), UniformCount) # {} => Selections(held, n) # {}
  <1> DEFINE grid == Grid(n, 0, SourceFrames - n)
             boundary == BoundaryStarts(held["reference"], n)
             stress == StressStarts(held["system"], n)
             Taken(pair) == Range(pair[1]) \cup Range(pair[2])
             Free(pair) == Compatible(grid \ Taken(pair), Taken(pair), n)
             Spec(pair, u, i) ==
               IF i <= UniformCount THEN ClipSpec("uniform", u[i])
               ELSE IF i <= UniformCount + BoundaryCount
                 THEN ClipSpec("boundary", pair[1][i - UniformCount])
               ELSE ClipSpec("stress", pair[2][i - UniformCount - BoundaryCount])
             Row(pair, u) == [i \in 1..ClipCount |-> Spec(pair, u, i)]
  <1>1. Selections(held, n) =
          UNION {{Row(pair, u) : u \in Orders(Free(pair), UniformCount)} : pair \in Pairs(boundary, stress)}
    BY DEF Selections
  <1>2. boundary \subseteq grid /\ stress \subseteq grid
    BY BoundaryOnGrid, StressOnGrid DEF Marks
  <1>3. ASSUME NEW pair \in Pairs(boundary, stress)
        PROVE  Free(pair) = Unused(n, pair)
    <2> HIDE DEF boundary, stress, grid
    <2>1. pair[1] \in Orders(boundary, BoundaryCount) /\ pair[2] \in Orders(stress \ Range(pair[1]), StressCount)
      BY PairsApart
    <2>2. Range(pair[1]) \subseteq boundary /\ Range(pair[2]) \subseteq stress
      BY <2>1, OrderHolds, Parameters
    <2>3. Taken(pair) \in SUBSET grid
      BY <1>2, <2>2
    <2> QED
      BY <2>3, FreeIs DEF Unused, grid
  <1>4. ASSUME NEW pair, NEW u
        PROVE  Chosen(Row(pair, u), pair, u)
    <2>1. ASSUME NEW i \in 1..ClipCount
          PROVE  /\ Spec(pair, u, i).category = Kind(i)
                 /\ Spec(pair, u, i).start = IF Kind(i) = "uniform" THEN u[i]
                                             ELSE IF Kind(i) = "boundary" THEN pair[1][i - UniformCount]
                                             ELSE pair[2][i - UniformCount - BoundaryCount]
      BY Places DEF Kind, ClipSpec
    <2> HIDE DEF Spec
    <2>2. DOMAIN Row(pair, u) = 1..ClipCount /\ \A i \in 1..ClipCount : Row(pair, u)[i] = Spec(pair, u, i)
      OBVIOUS
    <2> HIDE DEF Row
    <2> QED
      BY <2>1, <2>2 DEF Chosen, Kinds
  <1> HIDE DEF Free, Row, boundary, stress
  <1>5. ASSUME NEW chosen \in Selections(held, n)
        PROVE  \E pair \in Pairs(boundary, stress) :
                 \E u \in Orders(Unused(n, pair), UniformCount) : Chosen(chosen, pair, u)
    <2>1. PICK pair \in Pairs(boundary, stress) : \E u \in Orders(Free(pair), UniformCount) : chosen = Row(pair, u)
      BY <1>1
    <2>2. PICK u \in Orders(Free(pair), UniformCount) : chosen = Row(pair, u)
      BY <2>1
    <2> QED
      BY <1>3, <1>4, <2>2
  <1>6. ASSUME NEW pair \in Pairs(boundary, stress), Orders(Unused(n, pair), UniformCount) # {}
        PROVE  Selections(held, n) # {}
    <2>1. PICK u : u \in Orders(Free(pair), UniformCount)
      BY <1>3, <1>6
    <2> QED
      BY <1>1, <2>1
  <1> QED
    BY <1>5, <1>6 DEF boundary, stress

\* Whatever is chosen is of the kinds it is chosen for, and no clip is chosen twice.
LEMMA ChoiceChecked ==
    ASSUME NEW held, NEW n \in Nat \ {0}, held["reference"] \in SUBSET Nat, held["system"] \in SUBSET Marks,
           NEW chosen \in Selections(held, n)
    PROVE  Kinds(chosen) /\ Checked(chosen, held, n)
  <1> DEFINE boundary == BoundaryStarts(held["reference"], n)
             stress == StressStarts(held["system"], n)
  <1>1. PICK pair \in Pairs(boundary, stress) :
          \E u \in Orders(Unused(n, pair), UniformCount) : Chosen(chosen, pair, u)
    BY ChoicesAre
  <1>2. PICK u \in Orders(Unused(n, pair), UniformCount) : Chosen(chosen, pair, u)
    BY <1>1
  <1> DEFINE p == pair[1]
             q == pair[2]
             start == [i \in 1..ClipCount |-> chosen[i].start]
  <1>3. boundary \subseteq Grid(n, 0, SourceFrames - n) /\ stress \subseteq Grid(n, 0, SourceFrames - n)
    BY BoundaryOnGrid, StressOnGrid DEF Marks
  <1> HIDE DEF boundary, stress
  <1>4. p \in Orders(boundary, BoundaryCount) /\ q \in Orders(stress \ Range(p), StressCount)
    BY PairsApart
  <1>5. /\ p \in [1..BoundaryCount -> boundary] /\ IsInjective(p)
        /\ q \in [1..StressCount -> stress \ Range(p)] /\ IsInjective(q)
        /\ u \in [1..UniformCount -> Unused(n, pair)] /\ IsInjective(u)
    BY <1>4, OrderHolds, Parameters
  <1> HIDE DEF p, q
  <1>6. ASSUME NEW i \in 1..ClipCount
        PROVE  /\ Kind(i) = "uniform" => i \in 1..UniformCount /\ start[i] = u[i] /\ start[i] \in Unused(n, pair)
               /\ Kind(i) = "boundary" =>
                    /\ i - UniformCount \in 1..BoundaryCount /\ start[i] = p[i - UniformCount]
                    /\ start[i] \in boundary /\ start[i] \in Range(p)
               /\ Kind(i) = "stress" =>
                    /\ i - UniformCount - BoundaryCount \in 1..StressCount
                    /\ start[i] = q[i - UniformCount - BoundaryCount]
                    /\ start[i] \in stress \ Range(p) /\ start[i] \in Range(q)
               /\ Kind(i) \in {"uniform", "boundary", "stress"}
    <2>1. start[i] = IF Kind(i) = "uniform" THEN u[i]
                     ELSE IF Kind(i) = "boundary" THEN p[i - UniformCount]
                     ELSE q[i - UniformCount - BoundaryCount]
      BY <1>2 DEF Chosen, p, q
    <2> HIDE DEF start
    <2>2. CASE Kind(i) = "uniform"
      BY <1>5, <2>1, <2>2, Places
    <2>3. CASE Kind(i) = "boundary"
      <3>1. i - UniformCount \in 1..BoundaryCount /\ start[i] = p[i - UniformCount]
        BY <2>1, <2>3, Places
      <3>2. start[i] \in boundary /\ start[i] \in Range(p)
        BY <1>5, <3>1 DEF Range
      <3> QED
        BY <2>3, <3>1, <3>2
    <2>4. CASE Kind(i) = "stress"
      <3>1. i - UniformCount - BoundaryCount \in 1..StressCount /\ start[i] = q[i - UniformCount - BoundaryCount]
        BY <2>1, <2>4, Places
      <3>2. start[i] \in stress \ Range(p) /\ start[i] \in Range(q)
        BY <1>5, <3>1 DEF Range
      <3> QED
        BY <2>4, <3>1, <3>2
    <2> QED
      BY <2>2, <2>3, <2>4, Places
  <1> HIDE DEF start
  <1>7. ASSUME NEW i \in 1..ClipCount, NEW j \in 1..ClipCount, start[i] = start[j]
        PROVE  i = j
    <2>1. Kind(i) = Kind(j)
      <3>1. Unused(n, pair) \cap Range(p) = {} /\ Unused(n, pair) \cap Range(q) = {}
        BY DEF Unused, p, q
      <3> QED
        BY <1>6, <1>7, <3>1
    <2>2. CASE Kind(i) = "uniform"
      <3>1. u[i] = u[j] /\ i \in 1..UniformCount /\ j \in 1..UniformCount
        BY <1>6, <1>7, <2>1, <2>2
      <3> QED
        BY <1>5, <3>1 DEF IsInjective
    <2>3. CASE Kind(i) = "boundary"
      <3>1. /\ p[i - UniformCount] = p[j - UniformCount]
            /\ i - UniformCount \in 1..BoundaryCount /\ j - UniformCount \in 1..BoundaryCount
        BY <1>6, <1>7, <2>1, <2>3
      <3>2. i - UniformCount = j - UniformCount
        BY <1>5, <3>1 DEF IsInjective
      <3> QED
        BY <3>2, Parameters
    <2>4. CASE Kind(i) = "stress"
      <3>1. /\ q[i - UniformCount - BoundaryCount] = q[j - UniformCount - BoundaryCount]
            /\ i - UniformCount - BoundaryCount \in 1..StressCount
            /\ j - UniformCount - BoundaryCount \in 1..StressCount
        BY <1>6, <1>7, <2>1, <2>4
      <3>2. i - UniformCount - BoundaryCount = j - UniformCount - BoundaryCount
        BY <1>5, <3>1 DEF IsInjective
      <3> QED
        BY <3>2, Parameters
    <2> QED
      BY <1>6, <2>2, <2>3, <2>4
  <1>8. DOMAIN chosen = 1..ClipCount /\ Kinds(chosen)
    BY <1>2 DEF Chosen
  <1>9. Cardinality({chosen[i].start : i \in DOMAIN chosen}) = ClipCount
    <2>1. DOMAIN start = 1..ClipCount /\ IsInjective(start)
      BY <1>7 DEF start, IsInjective
    <2>2. Cardinality(Range(start)) = ClipCount
      BY <2>1, RowHolds, Parameters
    <2>3. Range(start) = {chosen[i].start : i \in DOMAIN chosen}
      BY <1>8 DEF start, Range
    <2> QED
      BY <2>2, <2>3
  <1>10. ASSUME NEW i \in 1..ClipCount
         PROVE  /\ chosen[i].category = "boundary" => HasPoint(chosen[i].start, n, held["reference"])
                /\ chosen[i].category = "stress" => Overlaps(chosen[i].start, n, held["system"])
    <2>1. chosen[i].category = Kind(i) /\ chosen[i].start = start[i]
      BY <1>8 DEF Kinds, start
    <2>2. Kind(i) = "boundary" => HasPoint(start[i], n, held["reference"])
      BY <1>3, <1>6, BoundaryIs DEF boundary
    <2>3. Kind(i) = "stress" => Overlaps(start[i], n, held["system"])
      BY <1>3, <1>6, StressIs DEF stress
    <2> QED
      BY <2>1, <2>2, <2>3
  <1> QED
    BY <1>8, <1>9, <1>10 DEF Checked

\* Clips that could be of each kind, as many as are wanted and none of both.
Possible(n, reference, marked) ==
    LET starts == Grid(n, 0, SourceFrames - n)
        Of(kind) == {s \in starts :
           IF kind = "boundary" THEN HasPoint(s, n, reference) ELSE Overlaps(s, n, marked)}
    IN  \E x \in SUBSET Of("boundary"), y \in SUBSET Of("stress") :
           Cardinality(x) = BoundaryCount /\ Cardinality(y) = StressCount /\ x \cap y = {}

LEMMA ChoicesExist ==
    ASSUME NEW held, NEW n \in Nat \ {0}, held["reference"] \in SUBSET Nat, held["system"] \in SUBSET Marks,
           SourceFrames >= ClipCount * n, Possible(n, held["reference"], held["system"])
    PROVE  /\ Selections(held, n) # {}
           /\ ~Stuck(BoundaryStarts(held["reference"], n), StressStarts(held["system"], n))
  <1> DEFINE grid == Grid(n, 0, SourceFrames - n)
             boundary == BoundaryStarts(held["reference"], n)
             stress == StressStarts(held["system"], n)
  <1>1. boundary \subseteq grid /\ stress \subseteq grid
    BY BoundaryOnGrid, StressOnGrid DEF Marks
  <1>2. IsFiniteSet(grid) /\ grid \subseteq Nat /\ Cardinality(grid) >= ClipCount
    BY GridHolds
  <1>3. /\ boundary = {s \in grid : HasPoint(s, n, held["reference"])}
        /\ stress = {s \in grid : Overlaps(s, n, held["system"])}
    BY <1>1, BoundaryIs, StressIs
  <1> HIDE DEF grid, boundary, stress
  <1>4. \E x \in SUBSET boundary : \E y \in SUBSET stress :
          Cardinality(x) = BoundaryCount /\ Cardinality(y) = StressCount /\ x \cap y = {}
    BY <1>3 DEF Possible, grid
  <1>5. PICK x \in SUBSET boundary : \E y \in SUBSET stress :
          Cardinality(x) = BoundaryCount /\ Cardinality(y) = StressCount /\ x \cap y = {}
    BY <1>4
  <1>6. PICK y \in SUBSET stress :
          Cardinality(x) = BoundaryCount /\ Cardinality(y) = StressCount /\ x \cap y = {}
    BY <1>5
  <1>7. IsFiniteSet(boundary) /\ IsFiniteSet(stress) /\ boundary \in SUBSET Nat /\ stress \in SUBSET Nat
    BY <1>1, <1>2, FS_Subset
  <1>8. Pairs(boundary, stress) # {} /\ ~Stuck(boundary, stress)
    BY <1>6, <1>7, PairsExist
  <1>9. PICK pair : pair \in Pairs(boundary, stress)
    BY <1>8
  <1>10. pair[1] \in Orders(boundary, BoundaryCount) /\ pair[2] \in Orders(stress \ Range(pair[1]), StressCount)
    BY <1>9, PairsApart
  <1> DEFINE p == Range(pair[1])
             q == Range(pair[2])
             free == Unused(n, pair)
  <1>11. IsFiniteSet(p) /\ Cardinality(p) = BoundaryCount /\ IsFiniteSet(q) /\ Cardinality(q) = StressCount
    BY <1>10, OrderHolds, Parameters
  <1>12. free = grid \ (p \cup q)
    BY DEF Unused, grid
  <1> HIDE DEF p, q, free
  <1>13. Cardinality(free) >= UniformCount /\ IsFiniteSet(free)
    <2>1. IsFiniteSet(p \cup q) /\ Cardinality(p \cup q) <= BoundaryCount + StressCount
      <3>1. IsFiniteSet(p \cup q) /\ Cardinality(p \cup q) = Cardinality(p) + Cardinality(q) - Cardinality(p \cap q)
        BY <1>11, FS_Union
      <3>2. Cardinality(p \cap q) \in Nat
        BY <1>11, FS_Intersection, FS_CardinalityType
      <3> QED
        BY <1>11, <3>1, <3>2, Parameters
    <2>2. IsFiniteSet(free) /\ Cardinality(free) = Cardinality(grid) - Cardinality(grid \cap (p \cup q))
      BY <1>2, <1>12, FS_Difference
    <2>3. Cardinality(grid \cap (p \cup q)) <= Cardinality(p \cup q)
      BY <2>1, FS_Intersection
    <2>4. /\ Cardinality(grid) \in Nat /\ Cardinality(p \cup q) \in Nat
          /\ Cardinality(grid \cap (p \cup q)) \in Nat
      BY <1>2, <2>1, FS_Intersection, FS_CardinalityType
    <2>5. ClipCount = UniformCount + BoundaryCount + StressCount
      BY DEF ClipCount
    <2> QED
      BY <1>2, <2>1, <2>2, <2>3, <2>4, <2>5, Parameters
  <1>14. Orders(free, UniformCount) # {}
    <2>1. Cardinality(free) \in Nat /\ UniformCount \in Nat
      BY <1>13, FS_CardinalityType, Parameters
    <2> QED
      BY <1>13, <2>1, OrderExists
  <1>15. Selections(held, n) # {}
    BY <1>9, <1>14, ChoicesAre DEF boundary, stress, free
  <1> QED
    BY <1>8, <1>15 DEF boundary, stress

-----------------------------------------------------------------------------
(* What a builder finds when it verifies its own pack *)

\* The documents of a pack tell of the clips that were cut for a choice.
Drafted(chosen, n, dir) ==
    LET m == dir["manifest"]
    IN  /\ dir["clips"] = CutsOf(chosen, m.source, n, ClipCount)
        /\ \E order \in Shuffles : dir["annotator"] = AnnotatorRows(dir["clips"], order)
        /\ dir["template"] = TemplateRows(dir["annotator"])
        /\ m.annotator = dir["annotator"] /\ m.template = dir["template"]
        /\ m.duration = TimeOf(SourceFrames) /\ m.selection = Evidence(chosen, n)
        /\ m.clips = EvaluatorRows(chosen, dir["clips"])

\* Clips that last a whole number of units of time.
Exact(n, q) == q \in Nat \ {0} /\ n * Micro = q * Rate

LEMMA ExactIs ==
    ASSUME NEW n \in Nat \ {0}, (n * Micro) % Rate = 0
    PROVE  \E q : Exact(n, q)
  <1> DEFINE a == n * Micro
             q == a \div Rate
  <1>1. a \in Nat \ {0}
    <2>1. 1 <= n /\ Micro \in Nat /\ Micro >= 1
      BY Parameters
    <2>2. 1 * Micro <= n * Micro /\ n * Micro \in Int
      BY <2>1, Times
    <2>3. 1 * Micro = Micro
      BY <2>1
    <2> QED
      BY <2>1, <2>2, <2>3
  <1>2. a % Rate = 0
    OBVIOUS
  <1> HIDE DEF a
  <1>3. q \in Int /\ a = Rate * q + (a % Rate)
    BY <1>1, Parameters
  <1> HIDE DEF q
  <1>4. a = q * Rate
    BY <1>1, <1>2, <1>3, Parameters
  <1>5. ~(q <= 0)
    <2>1. q <= 0 => q * Rate <= 0 * Rate
      BY <1>3, Parameters, Times
    <2>2. 0 * Rate = 0
      BY Parameters
    <2> QED
      BY <1>1, <1>4, <2>1, <2>2
  <1>6. q \in Nat \ {0}
    BY <1>3, <1>5
  <1> QED
    BY <1>4, <1>6 DEF Exact, a

LEMMA TimeOnGrid ==
    ASSUME NEW n \in Nat \ {0}, NEW q, Exact(n, q), NEW k \in Nat
    PROVE  k * q \in Nat /\ TimeOf(k * n) = k * q
  <1>1. q \in Nat \ {0} /\ n * Micro = q * Rate
    BY DEF Exact
  <1>2. (k * n) * Micro = (k * q) * Rate
    <2>1. (k * n) * Micro = k * (n * Micro) /\ k * (q * Rate) = (k * q) * Rate
      BY <1>1, Parameters
    <2> QED
      BY <1>1, <2>1
  <1>3. k * q \in Nat /\ (k * q) * Rate \in Nat
    BY <1>1, Parameters
  <1>4. Rate \div 2 \in Nat /\ Rate \div 2 < Rate
    BY Parameters
  <1>5. ((k * q) * Rate + (Rate \div 2)) \div Rate = k * q
    <2> DEFINE a == (k * q) * Rate + (Rate \div 2)
    <2>1. a \in Int /\ (k * q) * Rate <= a /\ a < (k * q) * Rate + Rate
      BY <1>3, <1>4, Parameters
    <2> HIDE DEF a
    <2>2. a \div Rate = k * q
      BY <1>3, <2>1, Parameters, QuotientIs
    <2> QED
      BY <2>2 DEF a
  <1>6. TimeOf(k * n) = ((k * n) * Micro + (Rate \div 2)) \div Rate
    BY DEF TimeOf
  <1> QED
    BY <1>2, <1>3, <1>5, <1>6

LEMMA TimeGrows ==
    ASSUME NEW a \in Nat, NEW b \in Nat, a <= b
    PROVE  TimeOf(a) <= TimeOf(b)
  <1>1. a * Micro <= b * Micro /\ a * Micro \in Int /\ b * Micro \in Int
    BY Parameters, Times
  <1>2. Rate \div 2 \in Nat
    BY Parameters
  <1> DEFINE c == a * Micro + (Rate \div 2)
             d == b * Micro + (Rate \div 2)
  <1>3. c \in Int /\ d \in Int /\ c <= d
    BY <1>1, <1>2
  <1> HIDE DEF c, d
  <1>4. c \div Rate <= d \div Rate
    BY <1>3, Parameters, QuotientGrows
  <1> QED
    BY <1>4 DEF TimeOf, c, d

\* Time of a window of the grid.
LEMMA WindowTime ==
    ASSUME NEW n \in Nat \ {0}, NEW q, Exact(n, q), NEW s \in Grid(n, 0, SourceFrames - n)
    PROVE  /\ s \div n \in Nat /\ s = (s \div n) * n
           /\ TimeOf(s) = (s \div n) * q /\ TimeOf(s + n) = (s \div n) * q + q
           /\ TimeOf(s) \in Nat /\ TimeOf(s + n) <= TimeOf(SourceFrames)
  <1>1. s \in Nat /\ s % n = 0 /\ s + n <= SourceFrames
    BY OnGrid
  <1>2. PICK k \in Nat : k = s \div n /\ s = k * n
    <2>1. s \div n \in Nat /\ s = n * (s \div n) + (s % n)
      BY <1>1
    <2>2. s = (s \div n) * n
      BY <1>1, <2>1
    <2> QED
      BY <2>1, <2>2
  <1>3. q \in Nat \ {0}
    BY DEF Exact
  <1>4. TimeOf(s) = k * q /\ k * q \in Nat
    BY <1>2, TimeOnGrid
  <1>5. TimeOf(s + n) = k * q + q
    <2>1. (k + 1) * n = s + n /\ (k + 1) * q = k * q + q /\ k + 1 \in Nat
      BY <1>2, <1>3
    <2>2. TimeOf((k + 1) * n) = (k + 1) * q
      BY <2>1, TimeOnGrid
    <2> QED
      BY <2>1, <2>2
  <1>6. TimeOf(s + n) <= TimeOf(SourceFrames)
    BY <1>1, Parameters, TimeGrows
  <1> QED
    BY <1>2, <1>4, <1>5, <1>6

\* The sum over clips that last equally long.
LEMMA SpentIs ==
    ASSUME NEW rows, NEW q \in Nat, \A i \in 1..ClipCount : rows[i].to - rows[i].from = q
    PROVE  Spent(rows) = ClipCount * q
  <1> DEFINE Fix(f) == f = [i \in 0..ClipCount |->
                              IF i = 0 THEN 0 ELSE f[i - 1] + (rows[i].to - rows[i].from)]
             sum == CHOOSE f : Fix(f)
             w == [i \in 0..ClipCount |-> i * q]
  <1>1. Spent(rows) = sum[ClipCount]
    BY Zenon DEF Spent
  <1>2. Fix(w)
    <2>1. ASSUME NEW i \in 0..ClipCount
          PROVE  i * q = IF i = 0 THEN 0 ELSE w[i - 1] + (rows[i].to - rows[i].from)
      <3>1. CASE i = 0
        BY <3>1
      <3>2. CASE i # 0
        <4>1. i \in 1..ClipCount /\ i - 1 \in 0..ClipCount /\ i \in Nat
          BY <3>2, Parameters
        <4>2. w[i - 1] = (i - 1) * q /\ i * q = (i - 1) * q + q
          BY <4>1
        <4>3. rows[i].to - rows[i].from = q
          BY <4>1
        <4> QED
          BY <3>2, <4>2, <4>3
      <3> QED
        BY <3>1, <3>2
    <2> QED
      BY <2>1
  <1> HIDE DEF w
  <1>3. Fix(sum)
    BY <1>2, Zenon
  <1> HIDE DEF sum
  <1> DEFINE T == {i \in 0..ClipCount : sum[i] = i * q}
  <1>4. 0 \in T
    <2>1. 0 \in 0..ClipCount
      BY Parameters
    <2>2. sum[0] = 0
      BY <1>3, <2>1
    <2> QED
      BY <2>1, <2>2
  <1>5. ASSUME NEW i \in 1..ClipCount, i - 1 \in T
        PROVE  i \in T
    <2>1. i \in 0..ClipCount /\ i # 0 /\ i \in Nat
      BY Parameters
    <2>2. sum[i] = sum[i - 1] + (rows[i].to - rows[i].from)
      BY <1>3, <2>1
    <2>3. sum[i] = (i - 1) * q + q
      BY <1>5, <2>2
    <2>4. (i - 1) * q + q = i * q
      BY <2>1
    <2> QED
      BY <2>1, <2>3, <2>4
  <1> HIDE DEF T
  <1>6. ClipCount \in T
    <2>1. 0..ClipCount \subseteq T
      BY <1>4, <1>5, Climb, Parameters
    <2> QED
      BY <2>1, Parameters
  <1> QED
    BY <1>1, <1>6 DEF T

LEMMA WindowFrames ==
    ASSUME NEW s \in Nat, NEW n \in Nat \ {0}
    PROVE  IsFiniteSet(s..(s + n - 1)) /\ Cardinality(s..(s + n - 1)) = n
  <1>1. PICK e : e = s + n - 1
    OBVIOUS
  <1>2. e \in Int /\ ~(s > e) /\ e - s + 1 = n
    BY <1>1
  <1>3. IsFiniteSet(s..e) /\ Cardinality(s..e) = IF s > e THEN 0 ELSE e - s + 1
    BY <1>2, FS_Interval
  <1> QED
    BY <1>1, <1>2, <1>3

\* Clips of one grid cover as many frames as they are long.
LEMMA CoveredIs ==
    ASSUME NEW n \in Nat \ {0}, NEW N \in Nat, NEW f \in [1..N -> Grid(n, 0, SourceFrames - n)], IsInjective(f)
    PROVE  Cardinality(UNION {s..(s + n - 1) : s \in Range(f)}) = N * n
  <1> DEFINE Cover(k) == UNION {f[i]..(f[i] + n - 1) : i \in 1..k}
             T == {k \in 0..N : IsFiniteSet(Cover(k)) /\ Cardinality(Cover(k)) = k * n}
  <1>1. 0 \in T
    <2>1. Cover(0) = {}
      OBVIOUS
    <2> HIDE DEF Cover
    <2>2. IsFiniteSet(Cover(0)) /\ Cardinality(Cover(0)) = 0
      <3>1. IsFiniteSet({}) /\ Cardinality({}) = 0
        BY FS_EmptySet
      <3> QED
        BY <2>1, <3>1
    <2>3. 0 * n = 0 /\ 0 \in 0..N
      OBVIOUS
    <2> QED
      BY <2>2, <2>3
  <1>2. ASSUME NEW k \in 1..N, k - 1 \in T
        PROVE  k \in T
    <2> DEFINE old == Cover(k - 1)
               new == f[k]..(f[k] + n - 1)
    <2>1. k \in Nat /\ k - 1 \in Nat /\ 1..k = 1..(k - 1) \cup {k} /\ \A i \in 1..(k - 1) : i \in 1..N /\ i # k
      OBVIOUS
    <2>2. Cover(k) = old \cup new
      BY <2>1
    <2>3. f[k] \in Nat /\ f[k] % n = 0 /\ f[k] \in Grid(n, 0, SourceFrames - n)
      BY OnGrid
    <2>4. old \cap new = {}
      <3> SUFFICES ASSUME NEW i \in 1..(k - 1), NEW x \in f[i]..(f[i] + n - 1), x \in new
                   PROVE  FALSE
        OBVIOUS
      <3>1. f[i] \in Nat /\ f[i] % n = 0
        BY <2>1, OnGrid
      <3>2. f[i] # f[k]
        BY <2>1 DEF IsInjective
      <3>3. Apart(f[i], f[k], n)
        BY <2>3, <3>1, <3>2, GridApart
      <3> QED
        BY <2>3, <3>1, <3>3 DEF Apart
    <2>5. IsFiniteSet(new) /\ Cardinality(new) = n
      BY <2>3, WindowFrames
    <2>6. IsFiniteSet(old) /\ Cardinality(old) = (k - 1) * n
      BY <1>2
    <2> HIDE DEF Cover, old, new
    <2>7. IsFiniteSet(Cover(k)) /\ Cardinality(Cover(k)) = (k - 1) * n + n
      <3>1. IsFiniteSet(old \cup new) /\ Cardinality(old \cup new) = Cardinality(old) + Cardinality(new) - Cardinality(old \cap new)
        BY <2>5, <2>6, FS_Union
      <3>2. Cardinality(old \cap new) = 0
        BY <2>4, FS_EmptySet
      <3>3. (k - 1) * n \in Int
        BY <2>1
      <3> QED
        BY <2>2, <2>5, <2>6, <3>1, <3>2, <3>3
    <2>8. (k - 1) * n + n = k * n /\ k \in 0..N
      BY <2>1
    <2> QED
      BY <2>7, <2>8
  <1>3. UNION {s..(s + n - 1) : s \in Range(f)} = Cover(N)
    BY DEF Range
  <1> HIDE DEF Cover
  <1>4. N \in T
    <2> HIDE DEF T
    <2>1. 0..N \subseteq T
      BY <1>1, <1>2, Climb
    <2> QED
      BY <2>1
  <1> QED
    BY <1>3, <1>4

\* Places of clips that are annotated twice.
LEMMA AuditsIs ==
    ASSUME NEW k \in Nat
    PROVE  Audits \in Nat /\ (k <= Audits - 1 <=> k * AuditEvery + 1 <= ClipCount)
  <1>1. AuditEvery \in Nat \ {0} /\ ClipCount \in Nat \ {0}
    BY PackAssumption, Parameters
  <1>2. PICK Q \in Int : Q = Audits /\ Q * AuditEvery <= ClipCount + AuditEvery - 1
                         /\ ClipCount + AuditEvery - 1 < Q * AuditEvery + AuditEvery
    BY <1>1, Quotient DEF Audits
  <1>3. Q * AuditEvery \in Int /\ k * AuditEvery \in Int /\ (Q - 1) * AuditEvery = Q * AuditEvery - AuditEvery
    BY <1>1
  <1>4. k <= Q - 1 => k * AuditEvery <= (Q - 1) * AuditEvery
    BY <1>1, Times
  <1>5. Q <= k => Q * AuditEvery <= k * AuditEvery
    BY <1>1, Times
  <1>6. ~(Q < 0)
    <2>1. Q < 0 => Q * AuditEvery + AuditEvery <= 0 * AuditEvery
      BY <1>1, Times
    <2>2. 0 * AuditEvery = 0
      BY <1>1
    <2> QED
      BY <1>1, <1>2, <1>3, <2>1, <2>2
  <1> QED
    BY <1>1, <1>2, <1>3, <1>4, <1>5, <1>6

LEMMA AuditedAt ==
    ASSUME NEW k \in 0..(Audits - 1)
    PROVE  k * AuditEvery + 1 \in 1..ClipCount /\ AuditSlot(k * AuditEvery + 1) = << k >>
  <1>1. AuditEvery \in Nat \ {0} /\ ClipCount \in Nat \ {0} /\ k \in Nat
    BY PackAssumption, Parameters
  <1>2. k <= Audits - 1
    BY AuditsIs
  <1>3. k * AuditEvery + 1 <= ClipCount /\ k * AuditEvery \in Nat
    BY <1>1, <1>2, AuditsIs
  <1>4. (k * AuditEvery) \div AuditEvery = k /\ (k * AuditEvery) % AuditEvery = 0
    BY <1>1, Multiple
  <1>5. (k * AuditEvery + 1) - 1 = k * AuditEvery
    BY <1>3
  <1> QED
    BY <1>1, <1>3, <1>4, <1>5 DEF AuditSlot

LEMMA AuditedIs ==
    ASSUME NEW i \in 1..ClipCount, AuditSlot(i) # << >>
    PROVE  \E k \in 0..(Audits - 1) : i = k * AuditEvery + 1 /\ AuditSlot(i) = << k >>
  <1>1. AuditEvery \in Nat \ {0} /\ ClipCount \in Nat \ {0} /\ i - 1 \in Nat
    BY PackAssumption, Parameters
  <1>2. (i - 1) % AuditEvery = 0 /\ AuditSlot(i) = << (i - 1) \div AuditEvery >>
    BY DEF AuditSlot
  <1>3. PICK a \in Nat : a = i - 1
    BY <1>1
  <1>4. a \div AuditEvery \in Nat /\ a = AuditEvery * (a \div AuditEvery) + (a % AuditEvery)
    BY <1>1, <1>3
  <1>5. PICK k \in Nat : k = a \div AuditEvery
    BY <1>4
  <1>6. a = k * AuditEvery
    BY <1>1, <1>2, <1>3, <1>4, <1>5
  <1>7. i = k * AuditEvery + 1
    BY <1>3, <1>6
  <1>8. k <= Audits - 1 /\ Audits \in Nat
    BY <1>7, AuditsIs
  <1> QED
    BY <1>2, <1>3, <1>5, <1>7, <1>8

\* As many clips are annotated twice as verify_pack counts.
LEMMA AuditsHold ==
    /\ {AuditSlot(i) : i \in 1..ClipCount} \ {<< >>} = {<< k >> : k \in 0..(Audits - 1)}
    /\ Cardinality({i \in 1..ClipCount : AuditSlot(i) # << >>}) = Audits
  <1> DEFINE twice == {i \in 1..ClipCount : AuditSlot(i) # << >>}
             f == [k \in 0..(Audits - 1) |-> k * AuditEvery + 1]
  <1>1. {AuditSlot(i) : i \in 1..ClipCount} \ {<< >>} = {<< k >> : k \in 0..(Audits - 1)}
    <2>1. ASSUME NEW k
          PROVE  << k >> # << >>
      OBVIOUS
    <2> QED
      BY <2>1, AuditedAt, AuditedIs
  <1>2. f \in Surjection(0..(Audits - 1), twice)
    <2>1. ASSUME NEW k \in 0..(Audits - 1)
          PROVE  k * AuditEvery + 1 \in twice
      <3>1. << k >> # << >>
        OBVIOUS
      <3> QED
        BY <3>1, AuditedAt
    <2>2. ASSUME NEW i \in twice
          PROVE  \E k \in 0..(Audits - 1) : i = k * AuditEvery + 1
      BY AuditedIs
    <2> HIDE DEF twice
    <2>3. f \in [0..(Audits - 1) -> twice]
      BY <2>1
    <2> QED
      BY <2>2, <2>3 DEF Surjection
  <1>3. f \in Injection(0..(Audits - 1), twice)
    <2>1. ASSUME NEW k \in 0..(Audits - 1), NEW l \in 0..(Audits - 1), k * AuditEvery + 1 = l * AuditEvery + 1
          PROVE  k = l
      <3>1. << k >> = << l >>
        BY <2>1, AuditedAt
      <3> QED
        BY <3>1
    <2> QED
      BY <1>2, <2>1 DEF Surjection, Injection, IsInjective
  <1> HIDE DEF f, twice
  <1>4. IsFiniteSet(0..(Audits - 1)) /\ Cardinality(0..(Audits - 1)) = Audits
    <2>1. Audits \in Nat
      BY AuditsIs
    <2>2. PICK e : e = Audits - 1
      OBVIOUS
    <2>3. e \in Int /\ (0 > e => Audits = 0) /\ e - 0 + 1 = Audits
      BY <2>1, <2>2
    <2>4. IsFiniteSet(0..e) /\ Cardinality(0..e) = IF 0 > e THEN 0 ELSE e - 0 + 1
      BY <2>3, FS_Interval
    <2> QED
      BY <2>2, <2>3, <2>4
  <1>5. Cardinality(twice) = Audits
    BY <1>2, <1>3, <1>4, FS_Surjection
  <1> QED
    BY <1>1, <1>5 DEF twice

LEMMA ShuffleOnto ==
    ASSUME NEW order \in Shuffles, NEW i \in 1..ClipCount
    PROVE  \E j \in 1..ClipCount : order[j] = i
  <1>1. order \in Orders(1..ClipCount, ClipCount) /\ ClipCount \in Nat
    BY PackAssumption, Parameters
  <1>2. /\ order \in [1..ClipCount -> 1..ClipCount] /\ Range(order) \in SUBSET (1..ClipCount)
        /\ Cardinality(Range(order)) = ClipCount
    BY <1>1, OrderHolds
  <1>3. IsFiniteSet(1..ClipCount) /\ Cardinality(1..ClipCount) = ClipCount
    BY Parameters, FS_Interval
  <1>4. Range(order) = 1..ClipCount
    BY <1>2, <1>3, FS_Subset
  <1> QED
    BY <1>2, <1>4 DEF Range

LEMMA SpanHolds ==
    ASSUME NEW a \in Int, NEW b \in Int, NEW k \in Nat, b - a + 1 = k
    PROVE  Cardinality(a..b) = k
  <1>1. Cardinality(a..b) = IF a > b THEN 0 ELSE b - a + 1
    BY FS_Interval
  <1> QED
    BY <1>1

\* As many clips of each kind as verify_pack counts.
LEMMA QuotaHolds ==
    ASSUME NEW c \in {"uniform", "boundary", "stress"}
    PROVE  Cardinality({i \in 1..ClipCount : Kind(i) = c}) = Quota(c)
  <1> DEFINE of == {i \in 1..ClipCount : Kind(i) = c}
  <1>1. UniformCount \in Nat /\ BoundaryCount \in Nat /\ StressCount \in Nat
        /\ ClipCount = UniformCount + BoundaryCount + StressCount
    BY Parameters DEF ClipCount
  <1>2. CASE c = "uniform"
    <2>1. of = 1..UniformCount
      BY <1>1, <1>2 DEF Kind
    <2>2. Cardinality(1..UniformCount) = UniformCount
      BY <1>1, SpanHolds
    <2> QED
      BY <1>2, <2>1, <2>2 DEF Quota
  <1>3. CASE c = "boundary"
    <2>1. PICK a, b : a = UniformCount + 1 /\ b = UniformCount + BoundaryCount
      OBVIOUS
    <2>2. of = a..b
      BY <1>1, <1>3, <2>1 DEF Kind
    <2>3. a \in Int /\ b \in Int /\ b - a + 1 = BoundaryCount
      BY <1>1, <2>1
    <2>4. Cardinality(a..b) = BoundaryCount
      BY <1>1, <2>3, SpanHolds
    <2> QED
      BY <1>3, <2>2, <2>4 DEF Quota
  <1>4. CASE c = "stress"
    <2>1. PICK a : a = UniformCount + BoundaryCount + 1
      OBVIOUS
    <2>2. of = a..ClipCount
      BY <1>1, <1>4, <2>1 DEF Kind
    <2>3. a \in Int /\ ClipCount \in Int /\ ClipCount - a + 1 = StressCount
      BY <1>1, <2>1
    <2>4. Cardinality(a..ClipCount) = StressCount
      BY <1>1, <2>3, SpanHolds
    <2> QED
      BY <1>4, <2>2, <2>4 DEF Quota
  <1> QED
    BY <1>2, <1>3, <1>4

\* What a builder tells of the frames that its clips cover.
LEMMA EvidenceIs ==
    ASSUME NEW chosen, NEW n \in Nat \ {0}, NEW q, Exact(n, q), Picked(chosen, n),
           Cardinality({chosen[i].start : i \in DOMAIN chosen}) = ClipCount
    PROVE  /\ Evidence(chosen, n).union = ClipCount * q /\ Evidence(chosen, n).overlaps = 0
           /\ Evidence(chosen, n).audits = Audits
  <1> DEFINE starts == {chosen[i].start : i \in DOMAIN chosen}
             f == [i \in 1..ClipCount |-> chosen[i].start]
  <1>1. /\ Evidence(chosen, n).union = TimeOf(Cardinality(UNION {s..(s + n - 1) : s \in starts}))
        /\ Evidence(chosen, n).overlaps = Cardinality({s \in starts : \E t \in starts : t < s /\ s < t + n})
        /\ Evidence(chosen, n).audits = Cardinality({i \in 1..ClipCount : AuditSlot(i) # << >>})
    BY DEF Evidence
  <1>2. DOMAIN chosen = 1..ClipCount /\ \A i \in 1..ClipCount : chosen[i].start \in Grid(n, 0, SourceFrames - n)
    BY DEF Picked
  <1>3. f \in [1..ClipCount -> Grid(n, 0, SourceFrames - n)] /\ Range(f) = starts
    BY <1>2 DEF Range
  <1>4. IsInjective(f)
    <2>1. \A i, j \in 1..ClipCount : i # j => chosen[i].start # chosen[j].start
      BY <1>2, StartsDiffer
    <2>2. \A i, j \in DOMAIN f : f[i] = f[j] => i = j
      BY <2>1
    <2> HIDE DEF f
    <2> QED
      BY <2>2 DEF IsInjective
  <1> HIDE DEF f
  <1>5. ClipCount \in Nat
    BY Parameters
  <1>6. Cardinality(UNION {s..(s + n - 1) : s \in starts}) = ClipCount * n
    <2>1. Cardinality(UNION {s..(s + n - 1) : s \in Range(f)}) = ClipCount * n
      BY <1>3, <1>4, <1>5, CoveredIs
    <2> HIDE DEF starts
    <2> QED
      BY <1>3, <2>1
  <1>7. TimeOf(ClipCount * n) = ClipCount * q
    BY <1>5, TimeOnGrid
  <1>8. {s \in starts : \E t \in starts : t < s /\ s < t + n} = {}
    <2> SUFFICES ASSUME NEW s \in starts, NEW t \in starts, t < s, s < t + n
                 PROVE  FALSE
      OBVIOUS
    <2>1. s \in Grid(n, 0, SourceFrames - n) /\ t \in Grid(n, 0, SourceFrames - n)
      BY <1>2
    <2> HIDE DEF starts
    <2>2. s \in Nat /\ t \in Nat /\ s % n = 0 /\ t % n = 0
      BY <2>1, OnGrid
    <2>3. Apart(s, t, n)
      BY <2>2, GridApart
    <2> QED
      BY <2>2, <2>3 DEF Apart
  <1>9. Cardinality({s \in starts : \E t \in starts : t < s /\ s < t + n}) = 0
    BY <1>8, FS_EmptySet
  <1> HIDE DEF starts
  <1>10. Evidence(chosen, n).union = ClipCount * q
    BY <1>1, <1>6, <1>7
  <1> QED
    BY <1>1, <1>9, <1>10, AuditsHold

\* The builder's own pack, of clips that last a whole number of units of time.
LEMMA OwnVerified ==
    ASSUME NEW n \in Nat \ {0}, (n * Micro) % Rate = 0, NEW chosen, NEW dir,
           Picked(chosen, n), Kinds(chosen),
           Cardinality({chosen[i].start : i \in DOMAIN chosen}) = ClipCount,
           Drafted(chosen, n, dir), DOMAIN dir = Names, dir["sidecar"] = dir["manifest"]
    PROVE  Verified(dir, dir["manifest"])
  <1>1. PICK q : Exact(n, q)
    BY ExactIs
  <1>2. PICK m : m = dir["manifest"]
    OBVIOUS
  <1>3. PICK cuts : cuts = CutsOf(chosen, m.source, n, ClipCount)
    OBVIOUS
  <1>4. PICK rows : rows = EvaluatorRows(chosen, cuts)
    OBVIOUS
  <1>5. /\ dir["clips"] = cuts /\ m.clips = rows /\ dir["template"] = TemplateRows(dir["annotator"])
        /\ m.annotator = dir["annotator"] /\ m.template = dir["template"]
        /\ m.duration = TimeOf(SourceFrames) /\ m.selection = Evidence(chosen, n)
        /\ \E order \in Shuffles : dir["annotator"] = AnnotatorRows(cuts, order)
    BY <1>2, <1>3, <1>4 DEF Drafted
  <1>6. q \in Nat \ {0} /\ ClipCount \in Nat \ {0}
    BY <1>1, Parameters DEF Exact
  <1>7. DOMAIN chosen = 1..ClipCount /\ \A i \in 1..ClipCount : chosen[i].start \in Grid(n, 0, SourceFrames - n)
    BY DEF Picked
  <1>8. DOMAIN cuts = 1..ClipCount
        /\ \A i \in 1..ClipCount : cuts[i].start = chosen[i].start /\ cuts[i].frames = n
    BY <1>3 DEF CutsOf, Cut
  <1>9. DOMAIN rows = 1..ClipCount
        /\ \A i \in 1..ClipCount :
             /\ rows[i].id = i /\ rows[i].category = Kind(i) /\ rows[i].audio = cuts[i]
             /\ rows[i].from = TimeOf(chosen[i].start) /\ rows[i].to = TimeOf(chosen[i].start + n)
             /\ rows[i].audit = AuditSlot(i)
    BY <1>4, <1>8 DEF EvaluatorRows, Kinds
  <1> DEFINE at == [i \in 1..ClipCount |-> chosen[i].start \div n]
  <1>10. ASSUME NEW i \in 1..ClipCount
         PROVE  /\ at[i] \in Nat /\ chosen[i].start = at[i] * n
                /\ rows[i].from = at[i] * q /\ rows[i].to = at[i] * q + q
                /\ rows[i].from \in Nat /\ rows[i].to <= m.duration
    BY <1>1, <1>5, <1>7, <1>9, WindowTime
  <1> HIDE DEF at
  <1>11. RowsAgree(dir)
    <2>1. PICK order \in Shuffles : dir["annotator"] = AnnotatorRows(cuts, order)
      BY <1>5
    <2>2. PICK seen : seen = dir["annotator"]
      OBVIOUS
    <2>3. /\ DOMAIN seen = 1..ClipCount
          /\ \A j \in 1..ClipCount :
               /\ seen[j].id = order[j] /\ seen[j].audio = cuts[order[j]]
               /\ seen[j].duration = ClipDuration(cuts[order[j]].start, cuts[order[j]].frames)
      BY <2>1, <2>2 DEF AnnotatorRows
    <2>4. ASSUME NEW i \in 1..ClipCount
          PROVE  \E j \in 1..ClipCount : /\ seen[j].id = rows[i].id /\ seen[j].audio = rows[i].audio
                                         /\ seen[j].duration = rows[i].to - rows[i].from
      <3>1. PICK j \in 1..ClipCount : order[j] = i
        BY ShuffleOnto
      <3>2. seen[j].duration = ClipDuration(chosen[i].start, n)
        BY <1>8, <2>3, <3>1
      <3>3. seen[j].duration = rows[i].to - rows[i].from
        BY <1>9, <3>2 DEF ClipDuration
      <3> QED
        BY <1>9, <2>3, <3>1, <3>3
    <2>5. dir["manifest"].clips = rows /\ dir["annotator"] = seen
      BY <1>2, <1>5, <2>2
    <2>6. \A i \in DOMAIN dir["manifest"].clips : \E j \in DOMAIN dir["annotator"] :
             /\ dir["annotator"][j].id = dir["manifest"].clips[i].id
             /\ dir["annotator"][j].audio = dir["manifest"].clips[i].audio
             /\ dir["annotator"][j].duration = dir["manifest"].clips[i].to - dir["manifest"].clips[i].from
      BY <1>9, <2>3, <2>4, <2>5
    <2>7. {dir["manifest"].clips[i].id : i \in DOMAIN dir["manifest"].clips} = DOMAIN dir["clips"]
      BY <1>5, <1>8, <1>9, <2>5
    <2>8. \A i \in DOMAIN dir["manifest"].clips :
             dir["clips"][dir["manifest"].clips[i].id] = dir["manifest"].clips[i].audio
      BY <1>5, <1>9, <2>5
    <2> QED
      BY <2>6, <2>7, <2>8, Zenon DEF RowsAgree
  <1>12. \A i \in DOMAIN rows : rows[i].from < rows[i].to /\ rows[i].to <= m.duration
    BY <1>6, <1>9, <1>10
  <1>13. \A i, j \in DOMAIN rows : i # j => rows[i].to <= rows[j].from \/ rows[j].to <= rows[i].from
    <2> SUFFICES ASSUME NEW i \in 1..ClipCount, NEW j \in 1..ClipCount, i # j
                 PROVE  rows[i].to <= rows[j].from \/ rows[j].to <= rows[i].from
      BY <1>9
    <2>1. chosen[i].start # chosen[j].start
      BY <1>7, StartsDiffer
    <2>2. PICK k \in Nat, l \in Nat : k = at[i] /\ l = at[j]
      BY <1>10
    <2>3. k # l
      BY <1>10, <2>1, <2>2
    <2>4. (k < l => k * q + q <= l * q) /\ (l < k => l * q + q <= k * q)
      BY <1>6, Times
    <2>5. k < l \/ l < k
      BY <2>3
    <2> QED
      BY <1>10, <2>2, <2>4, <2>5
  <1>14. ASSUME NEW c \in {"uniform", "boundary", "stress"}
         PROVE  Cardinality({i \in DOMAIN rows : rows[i].category = c}) = Quota(c)
    <2>1. {i \in DOMAIN rows : rows[i].category = c} = {i \in 1..ClipCount : Kind(i) = c}
      BY <1>9
    <2> QED
      BY <2>1, QuotaHolds
  <1>15. {rows[i].audit : i \in DOMAIN rows} \ {<< >>} = {<< k >> : k \in 0..(Audits - 1)}
    <2>1. {rows[i].audit : i \in DOMAIN rows} = {AuditSlot(i) : i \in 1..ClipCount}
      BY <1>9
    <2> QED
      BY <2>1, AuditsHold
  <1>16. Spent(rows) = ClipCount * q
    <2>1. \A i \in 1..ClipCount : rows[i].to - rows[i].from = q
      <3> SUFFICES ASSUME NEW i \in 1..ClipCount
                   PROVE  rows[i].to - rows[i].from = q
        OBVIOUS
      <3>1. PICK k \in Nat : rows[i].from = k * q /\ rows[i].to = k * q + q
        BY <1>10
      <3> QED
        BY <1>6, <3>1
    <2> QED
      BY <1>6, <2>1, SpentIs
  <1>17. m.selection.overlaps = 0 /\ m.selection.audits = Audits /\ m.selection.union = Spent(rows)
    BY <1>1, <1>5, <1>16, EvidenceIs
  <1>18. /\ DOMAIN dir = Names /\ dir["sidecar"] = m /\ dir["template"] = TemplateRows(dir["annotator"])
         /\ m.annotator = dir["annotator"] /\ m.template = dir["template"]
    BY <1>2, <1>5
  <1> QED
    BY <1>2, <1>5, <1>11, <1>12, <1>13, <1>14, <1>15, <1>17, <1>18 DEF Verified

-----------------------------------------------------------------------------
(* Why a builder refuses: what it holds at each statement *)

\* The events that are picked for last, every document is written from those before it,
\* and what was picked is of the kinds it is listed as.
FilesOK(b) ==
    LET files == staging[b].files
    IN  /\ building[b] \in {"audio", "reference", "system", "select"} => DOMAIN files = {}
        /\ building[b] \in {"clips", "annotator"} => DOMAIN files = {"clips"}
        /\ building[b] = "template" => DOMAIN files = {"clips", "annotator"}
        /\ building[b] = "manifest" => /\ DOMAIN files = {"clips", "annotator", "template"}
                                       /\ files["template"] = TemplateRows(files["annotator"])
        /\ building[b] = "sidecar" => DOMAIN files = Names \ {"sidecar"}
        /\ building[b] = "seal" => DOMAIN files = Names /\ files["sidecar"] = files["manifest"]

ChoiceOK(b) ==
    /\ building[b] \in {"select"} \cup Copied => copies[b]["system"] \in SUBSET Marks
    /\ building[b] \in Copied \cup {"sidecar", "seal"} => Kinds(specs[b])
    /\ building[b] \in {"sidecar", "seal"} => Drafted(specs[b], clip[b], staging[b].files)

\* What a reason tells of what was given.
CauseOf(reason, n, held) ==
    /\ reason # "check"
    /\ reason = "seal" => (n * Micro) % Rate # 0
    /\ reason = "quota" => ~Possible(n, held["reference"], held["system"])

WhyOK(b) ==
    /\ why[b] # "check"
    /\ why[b] = "seal" => (clip[b] * Micro) % Rate # 0
    /\ why[b] = "quota" /\ building[b] = "refused" =>
         ~Possible(clip[b], copies[b]["reference"], copies[b]["system"])

CauseOK(b) == FilesOK(b) /\ ChoiceOK(b) /\ WhyOK(b)

PackCauses ==
    /\ DOMAIN why = Builders
    /\ inputs["system"] \in SUBSET Marks
    /\ \A b \in Builders : CauseOK(b)

\* What one builder does leaves the others and what they were refused for as they are.
LEMMA OthersStay ==
    ASSUME PackTypes, DOMAIN why = Builders, NEW b \in Builders, Build(b)
    PROVE  /\ DOMAIN why' = Builders /\ inputs' = inputs /\ clip' = clip
           /\ \A c \in Builders \ {b} : Same(c) /\ why'[c] = why[c]
  <1>1. ASSUME NEW reason, Refuse(b, reason)
        PROVE  /\ DOMAIN why' = Builders /\ inputs' = inputs /\ clip' = clip
               /\ \A c \in Builders \ {b} : Same(c) /\ why'[c] = why[c]
    BY <1>1 DEF Refuse, Proceed, PackTypes, Same
  <1>2. CASE CheckTarget(b)
    BY <1>2 DEF CheckTarget, Proceed, PackTypes, Same
  <1>3. CASE TakeCopy(b)
    BY <1>1, <1>3 DEF TakeCopy, Proceed, PackTypes, Same
  <1>4. CASE Select(b)
    <2>1. CASE ~\E reason : Refuse(b, reason)
      <3>1. PICK chosen :
              /\ specs' = [specs EXCEPT ![b] = chosen]
              /\ staging' = [staging EXCEPT ![b].files = Holds(@, "clips", NoFile)]
              /\ Proceed(b, "clips")
              /\ UNCHANGED << clip, inputs, copies, target, results, why, disturbances >>
        BY <1>4, <2>1, Zenon DEF Select
      <3> QED
        BY <3>1 DEF Proceed, PackTypes, Same
    <2> QED
      BY <1>1, <2>1
  <1>5. CASE CutClip(b)
    BY <1>1, <1>5 DEF CutClip, Proceed, PackTypes, Same
  <1>6. CASE WriteDocument(b)
    <2>1. CASE ~Refuse(b, "write")
      <3>1. PICK name, content, next :
              /\ staging' = [staging EXCEPT ![b].files = Holds(@, name, content)]
              /\ Proceed(b, next)
              /\ UNCHANGED << clip, inputs, copies, specs, target, results, why, disturbances >>
        BY <1>6, <2>1, Zenon DEF WriteDocument
      <3> QED
        BY <3>1 DEF Proceed, PackTypes, Same
    <2> QED
      BY <1>1, <2>1
  <1>7. CASE Seal(b)
    BY <1>1, <1>7 DEF Seal, Proceed, PackTypes, Same
  <1>8. CASE Publish(b)
    BY <1>1, <1>8 DEF Publish, Proceed, PackTypes, Same
  <1>9. CASE Cleanup(b)
    BY <1>9 DEF Cleanup, Proceed, PackTypes, Same
  <1>10. CASE Stop(b)
    <2>1. \A c \in Builders \ {b} : copies'[c] = copies[c]
      BY <1>10 DEF Stop, PackTypes
    <2> QED
      BY <1>10, <2>1 DEF Stop, Proceed, PackTypes, Same
  <1> QED
    BY <1>2, <1>3, <1>4, <1>5, <1>6, <1>7, <1>8, <1>9, <1>10 DEF Build

LEMMA CauseStays ==
    ASSUME NEW b \in Builders, CauseOK(b), Same(b), why'[b] = why[b]
    PROVE  CauseOK(b)'
  <1>1. FilesOK(b)'
    BY DEF CauseOK, FilesOK, Same
  <1>2. ChoiceOK(b)'
    BY DEF CauseOK, ChoiceOK, Same
  <1>3. WhyOK(b)'
    BY DEF CauseOK, WhyOK, Same
  <1> QED
    BY <1>1, <1>2, <1>3 DEF CauseOK

LEMMA CausesMove ==
    ASSUME PackTypes, PackCauses, NEW b \in Builders, Build(b), CauseOK(b)'
    PROVE  PackCauses'
  <1>1. /\ DOMAIN why' = Builders /\ inputs' = inputs
        /\ \A c \in Builders \ {b} : Same(c) /\ why'[c] = why[c]
    BY OthersStay DEF PackCauses
  <1>2. ASSUME NEW c \in Builders, c # b
        PROVE  CauseOK(c)'
    BY <1>1, <1>2, CauseStays DEF PackCauses
  <1> QED
    BY <1>1, <1>2 DEF PackCauses

LEMMA CausesStay ==
    ASSUME PackCauses, inputs'["system"] \in SUBSET Marks, why' = why, \A b \in Builders : Same(b)
    PROVE  PackCauses'
  <1>1. ASSUME NEW b \in Builders
        PROVE  CauseOK(b)'
    BY CauseStays DEF PackCauses
  <1> QED
    BY <1>1 DEF PackCauses

\* A builder that refuses holds nothing else that matters.
LEMMA RefusedFor ==
    ASSUME PackTypes, DOMAIN why = Builders, NEW b \in Builders, NEW reason, Refuse(b, reason),
           CauseOf(reason, clip[b], copies[b])
    PROVE  CauseOK(b)'
  <1>1. building'[b] = "refused" /\ why'[b] = reason /\ clip' = clip /\ copies' = copies
    BY DEF Refuse, Proceed, PackTypes
  <1>2. FilesOK(b)' /\ ChoiceOK(b)'
    BY <1>1 DEF FilesOK, ChoiceOK, Copied, Writing
  <1>3. WhyOK(b)'
    BY <1>1 DEF WhyOK, CauseOf
  <1> QED
    BY <1>2, <1>3 DEF CauseOK

LEMMA WhyHolds ==
    ASSUME NEW b \in Builders, CauseOK(b), building'[b] # "refused", why' = why, clip' = clip
    PROVE  WhyOK(b)'
  BY DEF CauseOK, WhyOK

\* A builder is where nothing is asked of what it holds.
LEMMA NothingHeld ==
    ASSUME NEW b \in Builders, CauseOK(b), why' = why, clip' = clip,
           building'[b] \in {"failed", "publish", "published", "stopped"}
    PROVE  CauseOK(b)'
  <1>1. FilesOK(b)' /\ ChoiceOK(b)'
    BY DEF FilesOK, ChoiceOK, Copied, Writing
  <1>2. WhyOK(b)'
    BY WhyHolds
  <1> QED
    BY <1>1, <1>2 DEF CauseOK

\* Reasons that say nothing of what was given.
LEMMA PlainReason ==
    ASSUME NEW reason \in {"input", "short", "write", "target"}, NEW n, NEW held
    PROVE  CauseOf(reason, n, held)
  BY DEF CauseOf

-----------------------------------------------------------------------------
(* Why a builder refuses: its steps *)

LEMMA CheckTargetCause ==
    ASSUME PackInv, PackCauses, NEW b \in Builders, CheckTarget(b)
    PROVE  CauseOK(b)'
  <1>1. PackTypes /\ CauseOK(b) /\ why' = why /\ clip' = clip
    BY DEF PackInv, PackCauses, CheckTarget
  <1>2. CASE Proceed(b, "failed")
    BY <1>1, <1>2, NothingHeld DEF Proceed, PackTypes
  <1>3. CASE Proceed(b, "audio") /\ staging' = [staging EXCEPT ![b] = [is |-> TRUE, files |-> NoFile]]
    <2>1. building'[b] = "audio" /\ staging'[b].files = NoFile /\ DOMAIN NoFile = {}
      BY <1>1, <1>3 DEF Proceed, PackTypes, NoFile
    <2>2. FilesOK(b)' /\ ChoiceOK(b)'
      BY <2>1 DEF FilesOK, ChoiceOK, Copied, Writing
    <2>3. WhyOK(b)'
      BY <1>1, <2>1, WhyHolds
    <2> QED
      BY <2>2, <2>3 DEF CauseOK
  <1> QED
    BY <1>2, <1>3 DEF CheckTarget

LEMMA TakeCopyCause ==
    ASSUME PackInv, PackCauses, NEW b \in Builders, TakeCopy(b)
    PROVE  CauseOK(b)'
  <1>1. PackTypes /\ CauseOK(b) /\ DOMAIN why = Builders /\ inputs["system"] \in SUBSET Marks
    BY DEF PackInv, PackCauses
  <1>2. PICK input \in Inputs :
          /\ building[b] = input
          /\ \/ /\ copies' = [copies EXCEPT ![b] = Holds(@, input, inputs[input])]
                /\ Proceed(b, CASE input = "audio" -> "reference" [] input = "reference" -> "system"
                                [] input = "system" -> "select")
                /\ UNCHANGED << clip, inputs, specs, staging, target, results, why, disturbances >>
             \/ Refuse(b, "input")
    BY DEF TakeCopy
  <1>3. CASE Refuse(b, "input")
    BY <1>1, <1>3, PlainReason, RefusedFor
  <1>4. CASE ~Refuse(b, "input")
    <2> DEFINE next == CASE input = "audio" -> "reference" [] input = "reference" -> "system"
                         [] input = "system" -> "select"
    <2>1. /\ clip' = clip /\ staging' = staging /\ why' = why
          /\ copies' = [copies EXCEPT ![b] = Holds(@, input, inputs[input])]
          /\ building' = [building EXCEPT ![b] = next]
      BY <1>2, <1>4 DEF Proceed
    <2>2. input \in {"audio", "reference", "system"}
      BY DEF Inputs
    <2>3. next \in {"reference", "system", "select"} /\ (next = "select" => input = "system")
      BY <2>2
    <2> HIDE DEF next
    <2>4. building'[b] = next
      BY <1>1, <2>1 DEF PackTypes
    <2>5. copies'[b] = Holds(copies[b], input, inputs[input])
      BY <1>1, <2>1 DEF PackTypes
    <2>6. copies'[b][input] = inputs[input]
      BY <2>5 DEF Holds
    <2>7. FilesOK(b)'
      <3>1. DOMAIN staging[b].files = {}
        BY <1>1, <1>2, <2>2 DEF CauseOK, FilesOK
      <3> QED
        BY <2>1, <2>3, <2>4, <3>1 DEF FilesOK
    <2>8. ChoiceOK(b)'
      <3>1. next = "select" => copies'[b]["system"] \in SUBSET Marks
        BY <1>1, <2>3, <2>6
      <3> QED
        BY <2>3, <2>4, <3>1 DEF ChoiceOK, Copied, Writing
    <2>9. WhyOK(b)'
      BY <1>1, <2>1, <2>3, <2>4, WhyHolds
    <2> QED
      BY <2>7, <2>8, <2>9 DEF CauseOK
  <1> QED
    BY <1>3, <1>4

LEMMA SelectCause ==
    ASSUME PackInv, PackCauses, NEW b \in Builders, Select(b)
    PROVE  CauseOK(b)'
  <1>1. /\ PackTypes /\ CauseOK(b) /\ DOMAIN why = Builders /\ building[b] = "select"
        /\ clip[b] \in Nat \ {0}
    BY Parameters DEF PackInv, PackCauses, PackTypes, Select
  <1>2. copies[b]["reference"] \in SUBSET Nat /\ copies[b]["system"] \in SUBSET Marks
    BY <1>1 DEF PackInv, BuilderOK, CopiesOK, CauseOK, ChoiceOK
  <1> DEFINE long == SourceFrames >= ClipCount * clip[b]
             choices == Selections(copies[b], clip[b])
             stuck == Stuck(BoundaryStarts(copies[b]["reference"], clip[b]),
                            StressStarts(copies[b]["system"], clip[b]))
  <1>3. \A chosen \in choices : Kinds(chosen) /\ Checked(chosen, copies[b], clip[b])
    BY <1>1, <1>2, ChoiceChecked
  <1>4. long /\ (choices = {} \/ stuck) => ~Possible(clip[b], copies[b]["reference"], copies[b]["system"])
    BY <1>1, <1>2, ChoicesExist
  <1> HIDE DEF long, choices, stuck
  <1>5. \/ \E chosen \in choices :
             /\ specs' = [specs EXCEPT ![b] = chosen]
             /\ staging' = [staging EXCEPT ![b].files = Holds(@, "clips", NoFile)]
             /\ Proceed(b, "clips")
             /\ UNCHANGED << clip, inputs, copies, target, results, why, disturbances >>
        \/ \E reason \in {"short", "quota", "check"} :
             /\ Refuse(b, reason)
             /\ reason = "quota" => long /\ (choices = {} \/ stuck)
             /\ reason = "check" => \E c \in choices : ~Checked(c, copies[b], clip[b])
    BY DEF Select, long, choices, stuck
  <1>6. CASE \E reason \in {"short", "quota", "check"} :
               /\ Refuse(b, reason)
               /\ reason = "quota" => long /\ (choices = {} \/ stuck)
               /\ reason = "check" => \E c \in choices : ~Checked(c, copies[b], clip[b])
    <2>1. PICK reason \in {"short", "quota", "check"} :
               /\ Refuse(b, reason)
               /\ reason = "quota" => long /\ (choices = {} \/ stuck)
               /\ reason = "check" => \E c \in choices : ~Checked(c, copies[b], clip[b])
      BY <1>6
    <2>2. CauseOf(reason, clip[b], copies[b])
      BY <1>3, <1>4, <2>1 DEF CauseOf
    <2> QED
      BY <1>1, <2>1, <2>2, RefusedFor
  <1>7. CASE \E chosen \in choices :
               /\ specs' = [specs EXCEPT ![b] = chosen]
               /\ staging' = [staging EXCEPT ![b].files = Holds(@, "clips", NoFile)]
               /\ Proceed(b, "clips")
               /\ UNCHANGED << clip, inputs, copies, target, results, why, disturbances >>
    <2>1. PICK chosen \in choices :
               /\ specs' = [specs EXCEPT ![b] = chosen]
               /\ staging' = [staging EXCEPT ![b].files = Holds(@, "clips", NoFile)]
               /\ Proceed(b, "clips")
               /\ UNCHANGED << clip, inputs, copies, target, results, why, disturbances >>
      BY <1>7
    <2>2. /\ building'[b] = "clips" /\ specs'[b] = chosen /\ copies' = copies /\ why' = why /\ clip' = clip
          /\ staging'[b].files = Holds(staging[b].files, "clips", NoFile)
      BY <1>1, <2>1 DEF Proceed, PackTypes
    <2>3. FilesOK(b)'
      <3>1. DOMAIN staging[b].files = {}
        BY <1>1 DEF CauseOK, FilesOK
      <3>2. DOMAIN staging'[b].files = {"clips"}
        BY <2>2, <3>1 DEF Holds
      <3> QED
        BY <2>2, <3>2 DEF FilesOK
    <2>4. ChoiceOK(b)'
      BY <1>2, <1>3, <2>2 DEF ChoiceOK, Copied, Writing
    <2>5. WhyOK(b)'
      BY <1>1, <2>2, WhyHolds
    <2> QED
      BY <2>3, <2>4, <2>5 DEF CauseOK
  <1> QED
    BY <1>5, <1>6, <1>7

LEMMA CutClipCause ==
    ASSUME PackInv, PackCauses, NEW b \in Builders, CutClip(b)
    PROVE  CauseOK(b)'
  <1>1. /\ PackTypes /\ CauseOK(b) /\ DOMAIN why = Builders /\ building[b] = "clips"
        /\ "files" \in DOMAIN staging[b]
    BY DEF PackInv, PackCauses, PackTypes, CutClip
  <1>2. CASE Refuse(b, "write")
    BY <1>1, <1>2, PlainReason, RefusedFor
  <1>3. CASE ~Refuse(b, "write")
    <2> DEFINE i == Cardinality(DOMAIN staging[b].files["clips"]) + 1
               next == IF i = ClipCount THEN "annotator" ELSE "clips"
               content == Holds(staging[b].files["clips"], i, Cutting(b, i))
    <2>1. /\ next \in {"clips", "annotator"}
          /\ staging' = [staging EXCEPT ![b].files["clips"] = content]
          /\ building' = [building EXCEPT ![b] = next]
          /\ clip' = clip /\ copies' = copies /\ specs' = specs /\ why' = why
      BY <1>3 DEF CutClip, Proceed
    <2> HIDE DEF next, content
    <2>2. staging'[b].files = [staging[b].files EXCEPT !["clips"] = content]
      BY <1>1, <2>1 DEF PackTypes
    <2>3. DOMAIN staging'[b].files = {"clips"}
      BY <1>1, <2>2 DEF CauseOK, FilesOK
    <2>4. building'[b] = next
      BY <1>1, <2>1 DEF PackTypes
    <2>5. FilesOK(b)'
      BY <2>1, <2>3, <2>4 DEF FilesOK
    <2>6. ChoiceOK(b)'
      BY <1>1, <2>1, <2>4 DEF CauseOK, ChoiceOK, Copied, Writing
    <2>7. WhyOK(b)'
      BY <1>1, <2>1, <2>4, WhyHolds
    <2> QED
      BY <2>5, <2>6, <2>7 DEF CauseOK
  <1> QED
    BY <1>2, <1>3

\* What the manifest that a builder writes tells is what the documents beside it are.
LEMMA ManifestDrafted ==
    ASSUME NEW b \in Builders, NEW dir, NEW new, NEW order \in Shuffles,
           dir["clips"] = CutsHeld(b, ClipCount), dir["annotator"] = AnnotatorRows(dir["clips"], order),
           dir["template"] = TemplateRows(dir["annotator"]), new["manifest"] = Manifest(b, dir),
           \A x \in {"clips", "annotator", "template"} : new[x] = dir[x]
    PROVE  Drafted(specs[b], clip[b], new)
  <1>1. PICK m : m = Manifest(b, dir)
    OBVIOUS
  <1>2. /\ m.source = copies[b]["audio"] /\ m.annotator = dir["annotator"] /\ m.template = dir["template"]
        /\ m.duration = TimeOf(SourceFrames) /\ m.selection = Evidence(specs[b], clip[b])
        /\ m.clips = EvaluatorRows(specs[b], dir["clips"])
    BY <1>1 DEF Manifest
  <1>3. dir["clips"] = CutsOf(specs[b], m.source, clip[b], ClipCount)
    BY <1>2 DEF CutsHeld
  <1>4. /\ new["clips"] = dir["clips"] /\ new["annotator"] = dir["annotator"]
        /\ new["template"] = dir["template"] /\ new["manifest"] = m
    BY <1>1
  <1> QED
    BY <1>2, <1>3, <1>4 DEF Drafted

LEMMA StillDrafted ==
    ASSUME NEW chosen, NEW n, NEW dir, NEW new, Drafted(chosen, n, dir),
           \A x \in {"clips", "annotator", "template", "manifest"} : new[x] = dir[x]
    PROVE  Drafted(chosen, n, new)
  <1>1. /\ new["clips"] = dir["clips"] /\ new["annotator"] = dir["annotator"]
        /\ new["template"] = dir["template"] /\ new["manifest"] = dir["manifest"]
    OBVIOUS
  <1> QED
    BY <1>1 DEF Drafted

LEMMA WriteDocumentCause ==
    ASSUME PackInv, PackCauses, NEW b \in Builders, WriteDocument(b)
    PROVE  CauseOK(b)'
  <1> DEFINE dir == staging[b].files
             Content(name) ==
               CASE name = "annotator" -> {AnnotatorRows(dir["clips"], o) : o \in Shuffles}
                 [] name = "template" -> {TemplateRows(dir["annotator"])}
                 [] name = "manifest" -> {Manifest(b, dir)}
                 [] name = "sidecar" -> {dir["manifest"]}
             Next(name) ==
               CASE name = "annotator" -> "template" [] name = "template" -> "manifest"
                 [] name = "manifest" -> "sidecar" [] name = "sidecar" -> "seal"
  <1>1. /\ PackTypes /\ CauseOK(b) /\ DOMAIN why = Builders /\ ClipsOK(b) /\ DocumentsOK(b)
        /\ "files" \in DOMAIN staging[b]
    BY DEF PackInv, PackCauses, PackTypes, BuilderOK
  <1>2. CASE Refuse(b, "write")
    BY <1>1, <1>2, PlainReason, RefusedFor
  <1>3. CASE ~Refuse(b, "write")
    <2>1. PICK name \in Names \ {"clips"} :
               /\ building[b] = name
               /\ \E content \in Content(name) :
                    staging' = [staging EXCEPT ![b].files = Holds(@, name, content)]
               /\ Proceed(b, Next(name))
               /\ UNCHANGED << clip, inputs, copies, specs, target, results, why, disturbances >>
      BY <1>3, Zenon DEF WriteDocument
    <2>2. PICK content \in Content(name) :
            staging' = [staging EXCEPT ![b].files = Holds(@, name, content)]
      BY <2>1
    <2>3. /\ building' = [building EXCEPT ![b] = Next(name)]
          /\ clip' = clip /\ copies' = copies /\ specs' = specs /\ why' = why
      BY <2>1 DEF Proceed
    <2>4. name \in {"annotator", "template", "manifest", "sidecar"}
      BY DEF Names
    <2>5. /\ name = "annotator" => Next(name) = "template"
          /\ name = "template" => Next(name) = "manifest"
          /\ name = "manifest" => Next(name) = "sidecar"
          /\ name = "sidecar" => Next(name) = "seal"
      OBVIOUS
    <2>6. /\ name = "template" => content = TemplateRows(dir["annotator"])
          /\ name = "manifest" => content = Manifest(b, dir)
          /\ name = "sidecar" => content = dir["manifest"]
      BY <2>2
    <2> HIDE DEF Content, Next
    <2>7. building'[b] = Next(name) /\ staging'[b].files = Holds(dir, name, content)
      BY <1>1, <2>2, <2>3 DEF PackTypes
    <2>8. PICK new : new = staging'[b].files
      OBVIOUS
    <2>9. /\ DOMAIN new = DOMAIN dir \cup {name} /\ new[name] = content
          /\ \A x \in DOMAIN dir \ {name} : new[x] = dir[x]
      BY <2>7, <2>8 DEF Holds
    <2>10. WhyOK(b)'
      <3>1. building'[b] # "refused"
        BY <2>4, <2>5, <2>7
      <3> QED
        BY <1>1, <2>3, <3>1, WhyHolds
    <2>11. FilesOK(b) /\ ChoiceOK(b)
      BY <1>1 DEF CauseOK
    <2> HIDE DEF dir
    <2>12. ASSUME name = "annotator"
           PROVE  FilesOK(b)' /\ ChoiceOK(b)'
      <3>1. building'[b] = "template" /\ building[b] = "annotator"
        BY <2>1, <2>5, <2>7, <2>12
      <3>2. DOMAIN dir = {"clips"}
        BY <2>11, <3>1 DEF FilesOK, dir
      <3>3. FilesOK(b)'
        BY <2>8, <2>9, <2>12, <3>1, <3>2 DEF FilesOK
      <3> QED
        BY <2>3, <2>11, <3>1, <3>3 DEF ChoiceOK, Copied, Writing
    <2>13. ASSUME name = "template"
           PROVE  FilesOK(b)' /\ ChoiceOK(b)'
      <3>1. building'[b] = "manifest" /\ building[b] = "template"
        BY <2>1, <2>5, <2>7, <2>13
      <3>2. DOMAIN dir = {"clips", "annotator"}
        BY <2>11, <3>1 DEF FilesOK, dir
      <3>3. new["template"] = TemplateRows(new["annotator"])
        BY <2>6, <2>9, <2>13, <3>2
      <3>4. FilesOK(b)'
        BY <2>8, <2>9, <2>13, <3>1, <3>2, <3>3 DEF FilesOK
      <3> QED
        BY <2>3, <2>11, <3>1, <3>4 DEF ChoiceOK, Copied, Writing
    <2>14. ASSUME name = "manifest"
           PROVE  FilesOK(b)' /\ ChoiceOK(b)'
      <3>1. building'[b] = "sidecar" /\ building[b] = "manifest"
        BY <2>1, <2>5, <2>7, <2>14
      <3>2. DOMAIN dir = {"clips", "annotator", "template"} /\ dir["template"] = TemplateRows(dir["annotator"])
        BY <2>11, <3>1 DEF FilesOK, dir
      <3>3. dir["clips"] = CutsHeld(b, ClipCount)
        BY <1>1, <3>1 DEF ClipsOK, Writing, dir
      <3>4. PICK order \in Shuffles : dir["annotator"] = AnnotatorRows(dir["clips"], order)
        BY <1>1, <3>1 DEF DocumentsOK, dir
      <3>5. new["manifest"] = Manifest(b, dir) /\ \A x \in {"clips", "annotator", "template"} : new[x] = dir[x]
        BY <2>6, <2>9, <2>14, <3>2
      <3>6. Drafted(specs[b], clip[b], new)
        BY <3>2, <3>3, <3>4, <3>5, ManifestDrafted
      <3>7. FilesOK(b)'
        BY <2>8, <2>9, <2>14, <3>1, <3>2 DEF FilesOK, Names
      <3> QED
        BY <2>3, <2>8, <2>11, <3>1, <3>6, <3>7 DEF ChoiceOK, Copied, Writing
    <2>15. ASSUME name = "sidecar"
           PROVE  FilesOK(b)' /\ ChoiceOK(b)'
      <3>1. building'[b] = "seal" /\ building[b] = "sidecar"
        BY <2>1, <2>5, <2>7, <2>15
      <3>2. DOMAIN dir = Names \ {"sidecar"} /\ Drafted(specs[b], clip[b], dir)
        BY <2>11, <3>1 DEF FilesOK, ChoiceOK, dir
      <3>3. \A x \in {"clips", "annotator", "template", "manifest"} : new[x] = dir[x]
        BY <2>9, <2>15, <3>2 DEF Names
      <3>4. Drafted(specs[b], clip[b], new)
        BY <3>2, <3>3, StillDrafted
      <3>5. DOMAIN new = Names /\ new["sidecar"] = new["manifest"]
        BY <2>6, <2>9, <2>15, <3>2, <3>3 DEF Names
      <3>6. FilesOK(b)'
        BY <2>8, <3>1, <3>5 DEF FilesOK
      <3> QED
        BY <2>3, <2>8, <2>11, <3>1, <3>4, <3>6 DEF ChoiceOK, Copied, Writing
    <2> QED
      BY <2>4, <2>10, <2>12, <2>13, <2>14, <2>15 DEF CauseOK
  <1> QED
    BY <1>2, <1>3

LEMMA SealCause ==
    ASSUME PackInv, PackCauses, NEW b \in Builders, Seal(b)
    PROVE  CauseOK(b)'
  <1>1. /\ PackTypes /\ CauseOK(b) /\ DOMAIN why = Builders /\ DocumentsOK(b) /\ building[b] = "seal"
        /\ clip[b] \in Nat \ {0}
    BY Parameters DEF PackInv, PackCauses, PackTypes, BuilderOK, Seal
  <1>2. CASE Refuse(b, "target")
    BY <1>1, <1>2, PlainReason, RefusedFor
  <1>3. CASE Refuse(b, "seal") /\ ~Verified(staging[b].files, staging[b].files["manifest"])
    <2>1. /\ Kinds(specs[b]) /\ Drafted(specs[b], clip[b], staging[b].files)
          /\ DOMAIN staging[b].files = Names /\ staging[b].files["sidecar"] = staging[b].files["manifest"]
      BY <1>1 DEF CauseOK, ChoiceOK, FilesOK
    <2>2. Picked(specs[b], clip[b]) /\ Cardinality({specs[b][i].start : i \in DOMAIN specs[b]}) = ClipCount
      BY <1>1 DEF DocumentsOK, Sealing, GoodManifest, Checked
    <2>3. (clip[b] * Micro) % Rate # 0
      BY <1>1, <1>3, <2>1, <2>2, OwnVerified
    <2>4. CauseOf("seal", clip[b], copies[b])
      BY <2>3 DEF CauseOf
    <2> QED
      BY <1>1, <1>3, <2>4, RefusedFor
  <1>4. CASE Proceed(b, "publish") /\ why' = why /\ clip' = clip
    BY <1>1, <1>4, NothingHeld DEF Proceed, PackTypes
  <1> QED
    BY <1>2, <1>3, <1>4 DEF Seal

LEMMA LastSteps ==
    ASSUME PackInv, PackCauses, NEW b \in Builders, Publish(b) \/ Cleanup(b) \/ Stop(b)
    PROVE  CauseOK(b)'
  <1>1. PackTypes /\ CauseOK(b) /\ DOMAIN why = Builders
    BY DEF PackInv, PackCauses
  <1>2. CASE Refuse(b, "target")
    BY <1>1, <1>2, PlainReason, RefusedFor
  <1>3. CASE ~Refuse(b, "target")
    <2>1. why' = why /\ clip' = clip /\ building'[b] \in {"published", "failed", "stopped"}
      BY <1>1, <1>3 DEF Publish, Cleanup, Stop, Proceed, PackTypes
    <2> QED
      BY <1>1, <2>1, NothingHeld
  <1> QED
    BY <1>2, <1>3

LEMMA CausesStep ==
    ASSUME PackInv, PackCauses, [PackNext]_packVars
    PROVE  PackCauses'
  <1>1. ASSUME NEW b \in Builders, Build(b)
        PROVE  PackCauses'
    <2>1. CauseOK(b)'
      BY <1>1, CheckTargetCause, TakeCopyCause, SelectCause, CutClipCause, WriteDocumentCause,
         SealCause, LastSteps DEF Build
    <2> QED
      BY <1>1, <2>1, CausesMove DEF PackInv
  <1>2. ASSUME inputs'["system"] \in SUBSET Marks,
               UNCHANGED << building, clip, copies, specs, staging, results, why >>
        PROVE  PackCauses'
    BY <1>2, CausesStay DEF Same
  <1>3. inputs["system"] \in SUBSET Marks /\ PackTypes
    BY DEF PackInv, PackCauses
  <1>4. ASSUME NEW input \in Inputs, RewriteInput(input)
        PROVE  PackCauses'
    <2>1. inputs'["system"] \in SUBSET Marks
      BY <1>3, <1>4 DEF RewriteInput, PackTypes, Inputs
    <2> QED
      BY <1>2, <1>4, <2>1 DEF RewriteInput
  <1>5. CASE Occupy
    BY <1>2, <1>3, <1>5 DEF Occupy
  <1>6. ASSUME NEW name \in Names \cup {"extra"}, Tamper(name)
        PROVE  PackCauses'
    BY <1>2, <1>3, <1>6 DEF Tamper
  <1>7. CASE UNCHANGED packVars
    BY <1>2, <1>3, <1>7 DEF packVars
  <1> QED
    BY <1>1, <1>4, <1>5, <1>6, <1>7 DEF PackNext

LEMMA CausesInit == PackInit => PackCauses
  <1> SUFFICES ASSUME PackInit
               PROVE  PackCauses
    OBVIOUS
  <1>1. inputs["system"] \in SUBSET Marks
    BY PackAssumption DEF PackInit, Marks
  <1>2. ASSUME NEW b \in Builders
        PROVE  CauseOK(b)
    <2>1. building[b] = "target" /\ why[b] = "none"
      BY DEF PackInit
    <2>2. FilesOK(b) /\ ChoiceOK(b) /\ WhyOK(b)
      BY <2>1 DEF FilesOK, ChoiceOK, WhyOK, Copied, Writing
    <2> QED
      BY <2>2 DEF CauseOK
  <1> QED
    BY <1>1, <1>2 DEF PackInit, PackCauses

\* A builder never refuses what it picked itself, gives up on the quotas only when no
\* disjoint clips of the two kinds exist, and refuses its own pack only when a clip is
\* not a whole number of microseconds (_select_specs, _choose_boundary_stress_pair,
\* verify_pack as the build calls it).
THEOREM PackRefusesForCause == PackSpec => []PackRefusedForCause
  <1>1. PackCauses => PackRefusedForCause
    <2>1. PackCauses => \A b \in Builders : WhyOK(b)
      BY DEF PackCauses, CauseOK
    <2>2. ASSUME NEW b \in Builders, WhyOK(b)
          PROVE  /\ why[b] # "check"
                 /\ why[b] = "seal" => (clip[b] * Micro) % Rate # 0
                 /\ why[b] = "quota" /\ building[b] = "refused" =>
                      LET starts == Grid(clip[b], 0, SourceFrames - clip[b])
                          Of(kind) == {s \in starts :
                             IF kind = "boundary" THEN HasPoint(s, clip[b], copies[b]["reference"])
                             ELSE Overlaps(s, clip[b], copies[b]["system"])}
                      IN  ~\E x \in SUBSET Of("boundary"), y \in SUBSET Of("stress") :
                             Cardinality(x) = BoundaryCount /\ Cardinality(y) = StressCount /\ x \cap y = {}
      BY <2>2, Zenon DEF WhyOK, Possible
    <2> QED
      BY <2>1, <2>2, Zenon DEF PackRefusedForCause
  <1> QED
    BY <1>1, CausesInit, CausesStep, PackInvariant, PTL DEF PackSpec

=============================================================================
