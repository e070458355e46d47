--------------------------- MODULE AnnotationPack ---------------------------
(***************************************************************************)
(* Blind annotation packs (blind_annotation.py): a builder copies a        *)
(* recording and two timing files, picks clips of three kinds, writes them *)
(* to a private staging directory with the manifests of evaluator and      *)
(* annotators, verifies what it wrote and renames it to the output path.   *)
(*                                                                         *)
(* A directory is a function from names to contents, and a digest is the   *)
(* content it is the digest of.  A recording is a number that says which;  *)
(* a clip is the recording and the frames it was cut from.                 *)
(***************************************************************************)
EXTENDS Integers, SequencesExt

CONSTANTS
    Builders,          \* processes that build to one output path
    SourceFrames,      \* of a recording
    Rate,              \* frames per second
    Micro,             \* units of source time per second, 1_000_000
    ClipLengths,       \* frames of a clip a builder may be asked for
    UniformCount, BoundaryCount, StressCount,   \* 24, 12 and 12
    AuditEvery,        \* one clip of so many is annotated twice, 4
    References,        \* sets of boundary times a reference may have
    Systems,           \* sets of << start, end >> a system may have marked
    Shuffles,          \* orders of the clips that a nonce may give
    MaxDisturbances    \* bound: acts of others on inputs, output and pack

ClipCount == UniformCount + BoundaryCount + StressCount
Inputs == {"audio", "reference", "system"}
Orders(set, n) == {s \in [1..n -> set] : IsInjective(s)}

ASSUME PackAssumption ==
    /\ {SourceFrames, Rate, Micro, UniformCount, BoundaryCount, StressCount, AuditEvery}
         \subseteq Nat \ {0}
    /\ ClipLengths \subseteq Nat \ {0}
    /\ \A r \in References : r \subseteq Nat
    /\ \A s \in Systems : s \subseteq {m \in Nat \X Nat : m[1] < m[2]}
    /\ Shuffles \subseteq Orders(1..ClipCount, ClipCount)

VARIABLES
    building,     \* statement a builder is at
    clip,         \* frames of a clip, asked for by the caller
    inputs,       \* what the three files hold now
    copies,       \* private snapshots of a builder
    specs,        \* clips it picked: sequence of [category, start]
    staging,      \* its staging directory, "none" while there is no directory
    target,       \* the output path: what it is, was when it was replaced, and holds
    results,      \* manifest whose digest a builder returned
    why,          \* what refused a builder
    disturbances

packVars == << building, clip, inputs, copies, specs, staging, target, results, why, disturbances >>

NoFile == [n \in {} |-> 0]
Gone == [is |-> FALSE, files |-> NoFile]

PackInit ==
    /\ building = [b \in Builders |-> "target"]
    /\ clip \in [Builders -> ClipLengths]
    /\ inputs \in [audio : {0}, reference : References, system : Systems]
    /\ copies = [b \in Builders |-> NoFile]
    /\ specs = [b \in Builders |-> << >>]
    /\ staging = [b \in Builders |-> Gone]
    /\ target = [is |-> "absent", over |-> "absent", files |-> NoFile]
    /\ results = [b \in Builders |-> << >>]
    /\ why = [b \in Builders |-> "none"]
    /\ disturbances = 0

-----------------------------------------------------------------------------
(* Clips to pick *)

FrameOf(time) == (time * Rate) \div Micro
FrameAfter(time) == (time * Rate + Micro - 1) \div Micro
TimeOf(frame) == (frame * Micro + Rate \div 2) \div Rate
Grid(n, low, high) == {s \in low..high : s % n = 0}

\* Mutant: a clip that ends at the boundary is taken for one that contains it.
BoundaryStarts_Closed(points, n) ==
    UNION {Grid(n, Max({0, FrameOf(p) - n}), Min({SourceFrames - n, FrameOf(p)})) :
             p \in {q \in points : FrameOf(q) < SourceFrames}}

\* _grid_starts_containing_points
BoundaryStarts(points, n) ==
    UNION {Grid(n, Max({0, FrameOf(p) - n + 1}), Min({SourceFrames - n, FrameOf(p)})) :
             p \in {q \in points : FrameOf(q) < SourceFrames}}

\* _grid_starts_overlapping_events
StressStarts(marked, n) ==
    UNION {LET first == FrameOf(m[1]) last == Min({SourceFrames, FrameAfter(m[2])})
           IN  IF last <= first THEN {}
               ELSE Grid(n, Max({0, first - n + 1}), Min({SourceFrames - n, last - 1})) :
             m \in marked}

\* The first n of a set in an order, given as pairs of the earlier and the later.
Earlier(set) == {p \in set \X set : p[1] < p[2]}
FirstOf(set, n, order) ==
    {s \in Orders(set, n) :
        \A i \in 1..n : \A x \in set \ {s[j] : j \in 1..i} : << s[i], x >> \in order}

\* _choose_boundary_stress_pair: the seed decides between any two disjoint choices;
\* when 128 attempts took too much from the stress starts, boundary starts that are
\* no stress starts come first.
Left(stress, taken) == stress \ Range(taken)
Leaving(choices, stress) == {t \in choices : Cardinality(Left(stress, t)) >= StressCount}
Drawn(boundary, stress) ==
    UNION {{<< taken, s >> : s \in Orders(Left(stress, taken), StressCount)} :
             taken \in Leaving(Orders(boundary, BoundaryCount), stress)}

\* Mutant: what comes first then is what begins first.
Rarer_Plain(boundary, stress) == Earlier(boundary)

Rarer(boundary, stress) ==
    {p \in boundary \X boundary :
        IF (p[1] \in stress) = (p[2] \in stress) THEN p[1] < p[2] ELSE p[2] \in stress}
Spared(boundary, stress) ==
    UNION {{<< taken, s >> :
              s \in FirstOf(Left(stress, taken), StressCount, Earlier(Left(stress, taken)))} :
             taken \in Leaving(FirstOf(boundary, BoundaryCount, Rarer(boundary, stress)), stress)}
Pairs(boundary, stress) ==
    LET orders == Orders(boundary, BoundaryCount)
    IN  IF Cardinality(boundary) < BoundaryCount \/ Cardinality(stress) < StressCount THEN {}
        ELSE IF Leaving(orders, stress) = orders THEN Drawn(boundary, stress)
        ELSE Drawn(boundary, stress) \cup Spared(boundary, stress)

\* Every attempt may take too much, and what then comes first does as well.
Stuck(boundary, stress) ==
    LET orders == Orders(boundary, BoundaryCount)
    IN  Leaving(orders, stress) # orders /\ Spared(boundary, stress) = {}

\* _choose_nonoverlap: the earliest compatible starts, any of them in any order.
Apart(a, b, n) == a + n <= b \/ a >= b + n
Compatible(candidates, taken, n) ==
    LET kept[s \in candidates] ==
          \A t \in taken \cup {k \in candidates : k < s /\ kept[k]} : Apart(s, t, n)
    IN  {s \in candidates : kept[s]}

\* Specs that _select_specs can pick from what was copied.
ClipSpec(category, start) == [category |-> category, start |-> start]
Selections(held, n) ==
    UNION {LET taken == Range(pair[1]) \cup Range(pair[2])
               free == Compatible(Grid(n, 0, SourceFrames - n) \ taken, taken, n)
           IN  {[i \in 1..ClipCount |->
                   IF i <= UniformCount THEN ClipSpec("uniform", u[i])
                   ELSE IF i <= UniformCount + BoundaryCount
                     THEN ClipSpec("boundary", pair[1][i - UniformCount])
                   ELSE ClipSpec("stress", pair[2][i - UniformCount - BoundaryCount])] :
                 u \in Orders(free, UniformCount)} :
             pair \in Pairs(BoundaryStarts(held["reference"], n), StressStarts(held["system"], n))}

\* What _select_specs checks of its own choice.
HasPoint(s, n, points) == \E p \in points : s <= FrameOf(p) /\ FrameOf(p) < s + n
Overlaps(s, n, marked) ==
    \E m \in marked : s < Min({SourceFrames, FrameAfter(m[2])}) /\ s + n > FrameOf(m[1])
Checked(chosen, held, n) ==
    /\ Cardinality({chosen[i].start : i \in DOMAIN chosen}) = ClipCount
    /\ \A i \in DOMAIN chosen :
         /\ chosen[i].category = "boundary" => HasPoint(chosen[i].start, n, held["reference"])
         /\ chosen[i].category = "stress" => Overlaps(chosen[i].start, n, held["system"])

-----------------------------------------------------------------------------
(* Files of a pack *)

Holds(dir, name, content) ==
    [x \in DOMAIN dir \cup {name} |-> IF x = name THEN content ELSE dir[x]]
Cut(audio, start, n) == [audio |-> audio, start |-> start, frames |-> n]
ClipDuration(start, n) == TimeOf(start + n) - TimeOf(start)
AuditSlot(i) == IF (i - 1) % AuditEvery = 0 THEN << (i - 1) \div AuditEvery >> ELSE << >>

\* Ids are digests, so a number stands for the id; rows of annotators are shuffled.
AnnotatorRows(cuts, order) ==
    [i \in 1..ClipCount |->
       [id |-> order[i], audio |-> cuts[order[i]],
        duration |-> ClipDuration(cuts[order[i]].start, cuts[order[i]].frames)]]
TemplateRows(rows) == [i \in DOMAIN rows |-> [id |-> rows[i].id, duration |-> rows[i].duration]]

\* evaluator_rows
EvaluatorRows(chosen, cuts) ==
    [i \in 1..ClipCount |->
       [id |-> i, category |-> chosen[i].category, audio |-> cuts[i],
        from |-> TimeOf(cuts[i].start), to |-> TimeOf(cuts[i].start + cuts[i].frames),
        audit |-> AuditSlot(i)]]

\* _selection_evidence: the frames that clips cover, and clips that begin in an earlier one.
Evidence(chosen, n) ==
    LET starts == {chosen[i].start : i \in DOMAIN chosen}
    IN  [union |-> TimeOf(Cardinality(UNION {s..(s + n - 1) : s \in starts})),
         overlaps |-> Cardinality({s \in starts : \E t \in starts : t < s /\ s < t + n}),
         audits |-> Cardinality({i \in 1..ClipCount : AuditSlot(i) # << >>})]

Manifest(b, dir) ==
    [source |-> copies[b]["audio"], duration |-> TimeOf(SourceFrames),
     reference |-> copies[b]["reference"], system |-> copies[b]["system"],
     annotator |-> dir["annotator"], template |-> dir["template"],
     selection |-> Evidence(specs[b], clip[b]), clips |-> EvaluatorRows(specs[b], dir["clips"])]

Names == {"clips", "annotator", "template", "manifest", "sidecar"}
Audits == (ClipCount + AuditEvery - 1) \div AuditEvery
Quota(category) ==
    CASE category = "uniform" -> UniformCount [] category = "boundary" -> BoundaryCount
      [] category = "stress" -> StressCount

\* Rows of the evaluator agree with rows and files of the annotators.
RowsAgree(dir) ==
    LET rows == dir["manifest"].clips
    IN  /\ \A i \in DOMAIN rows : \E j \in DOMAIN dir["annotator"] :
             LET seen == dir["annotator"][j]
             IN  /\ seen.id = rows[i].id /\ seen.audio = rows[i].audio
                 /\ seen.duration = rows[i].to - rows[i].from
        /\ {rows[i].id : i \in DOMAIN rows} = DOMAIN dir["clips"]
        /\ \A i \in DOMAIN rows : dir["clips"][rows[i].id] = rows[i].audio

\* Time of all clips together, counted one by one.
Spent(rows) ==
    LET sum[i \in 0..ClipCount] == IF i = 0 THEN 0 ELSE sum[i - 1] + (rows[i].to - rows[i].from)
    IN  sum[ClipCount]

\* verify_pack, once it has found the directory where packs are.
Verified(dir, expected) ==
    /\ DOMAIN dir = Names
    /\ dir["manifest"] = expected /\ dir["sidecar"] = expected
    /\ dir["template"] = TemplateRows(dir["annotator"])
    /\ dir["manifest"].annotator = dir["annotator"]
    /\ dir["manifest"].template = dir["template"]
    /\ RowsAgree(dir)
    /\ LET rows == dir["manifest"].clips
           selection == dir["manifest"].selection
       IN  /\ \A i \in DOMAIN rows : rows[i].from < rows[i].to /\ rows[i].to <= dir["manifest"].duration
           /\ \A i, j \in DOMAIN rows : i # j => rows[i].to <= rows[j].from \/ rows[j].to <= rows[i].from
           /\ \A c \in {"uniform", "boundary", "stress"} :
                Cardinality({i \in DOMAIN rows : rows[i].category = c}) = Quota(c)
           /\ {rows[i].audit : i \in DOMAIN rows} \ {<< >>} = {<< k >> : k \in 0..(Audits - 1)}
           /\ selection.overlaps = 0 /\ selection.audits = Audits
           /\ selection.union = Spent(rows)

-----------------------------------------------------------------------------
(* A builder *)

Proceed(b, statement) == building' = [building EXCEPT ![b] = statement]

\* An exception after the staging directory was made.
Refuse(b, reason) ==
    /\ Proceed(b, "refused")
    /\ why' = [why EXCEPT ![b] = reason]
    /\ UNCHANGED << clip, inputs, copies, specs, staging, target, results, disturbances >>

\* The output path must be absent; the staging directory is this builder's own.
CheckTarget(b) ==
    /\ building[b] = "target"
    /\ \/ target.is # "absent" /\ Proceed(b, "failed") /\ staging' = staging
       \/ target.is = "absent" /\ Proceed(b, "audio")
          /\ staging' = [staging EXCEPT ![b] = [is |-> TRUE, files |-> NoFile]]
    /\ UNCHANGED << clip, inputs, copies, specs, target, results, why, disturbances >>

\* _snapshot_file, for one input after the other.
TakeCopy(b) ==
    \E input \in Inputs :
        /\ building[b] = input
        /\ \/ /\ copies' = [copies EXCEPT ![b] = Holds(@, input, inputs[input])]
              /\ Proceed(b, CASE input = "audio" -> "reference" [] input = "reference" -> "system"
                              [] input = "system" -> "select")
              /\ UNCHANGED << clip, inputs, specs, staging, target, results, why, disturbances >>
           \/ Refuse(b, "input")

Select(b) ==
    /\ building[b] = "select"
    /\ LET long == SourceFrames >= ClipCount * clip[b]
           choices == Selections(copies[b], clip[b])
           stuck == Stuck(BoundaryStarts(copies[b]["reference"], clip[b]),
                          StressStarts(copies[b]["system"], clip[b]))
           refusals ==
             {r \in {"short", "quota", "check"} :
                CASE r = "short" -> ~long
                  [] r = "quota" -> long /\ (choices = {} \/ stuck)
                  [] r = "check" -> long /\ \E c \in choices : ~Checked(c, copies[b], clip[b])}
       IN  \/ \E chosen \in choices :
                /\ long /\ Checked(chosen, copies[b], clip[b])
                /\ specs' = [specs EXCEPT ![b] = chosen]
                /\ staging' = [staging EXCEPT ![b].files = Holds(@, "clips", NoFile)]
                /\ Proceed(b, "clips")
                /\ UNCHANGED << clip, inputs, copies, target, results, why, disturbances >>
           \/ \E reason \in refusals : Refuse(b, reason)

\* Mutant: clips are cut from the recording and not from the copy of it.
Cutting_Live(b, i) == Cut(inputs["audio"], specs[b][i].start, clip[b])

Cutting(b, i) == Cut(copies[b]["audio"], specs[b][i].start, clip[b])

\* _copy_clip, for one spec after the other.
CutClip(b) ==
    /\ building[b] = "clips"
    /\ LET i == Cardinality(DOMAIN staging[b].files["clips"]) + 1
       IN  \/ /\ staging' = [staging EXCEPT ![b].files["clips"] = Holds(@, i, Cutting(b, i))]
              /\ Proceed(b, IF i = ClipCount THEN "annotator" ELSE "clips")
              /\ UNCHANGED << clip, inputs, copies, specs, target, results, why, disturbances >>
           \/ Refuse(b, "write")

\* The next of the four documents, each written once and synced.
WriteDocument(b) ==
    \E name \in Names \ {"clips"} :
        LET dir == staging[b].files
        IN  /\ building[b] = name
            /\ \/ /\ \E content \in
                        (CASE name = "annotator" ->
                                {AnnotatorRows(dir["clips"], o) : o \in Shuffles}
                           [] name = "template" -> {TemplateRows(dir["annotator"])}
                           [] name = "manifest" -> {Manifest(b, dir)}
                           [] name = "sidecar" -> {dir["manifest"]}) :
                       staging' = [staging EXCEPT ![b].files = Holds(@, name, content)]
                  /\ Proceed(b, CASE name = "annotator" -> "template" [] name = "template" -> "manifest"
                                  [] name = "manifest" -> "sidecar" [] name = "sidecar" -> "seal")
                  /\ UNCHANGED << clip, inputs, copies, specs, target, results, why, disturbances >>
               \/ Refuse(b, "write")

\* The staging directory is verified as a pack is, and the path looked at once more.
Seal(b) ==
    /\ building[b] = "seal"
    /\ LET dir == staging[b].files
       IN  \/ ~Verified(dir, dir["manifest"]) /\ Refuse(b, "seal")
           \/ Verified(dir, dir["manifest"]) /\ target.is # "absent" /\ Refuse(b, "target")
           \/ /\ Verified(dir, dir["manifest"]) /\ target.is = "absent"
              /\ Proceed(b, "publish")
              /\ UNCHANGED << clip, inputs, copies, specs, staging, target, results, why, disturbances >>

\* Mutant: the staging directory is moved over whatever is there.
Replaceable_Always(there) == TRUE

\* A directory is renamed to a path with nothing, or an empty directory, at it.
Replaceable(there) == there.is \in {"absent", "empty"}

\* os.replace, and then the copies go.
Publish(b) ==
    /\ building[b] = "publish"
    /\ \/ /\ Replaceable(target)
          /\ target' = [is |-> "pack", over |-> target.is, files |-> staging[b].files]
          /\ results' = [results EXCEPT ![b] = << staging[b].files["manifest"] >>]
          /\ staging' = [staging EXCEPT ![b] = Gone]
          /\ copies' = [copies EXCEPT ![b] = NoFile]
          /\ Proceed(b, "published")
          /\ UNCHANGED << clip, inputs, specs, why, disturbances >>
       \/ Refuse(b, "target")

\* except and finally of the build
Cleanup(b) ==
    /\ building[b] = "refused"
    /\ staging' = [staging EXCEPT ![b] = Gone]
    /\ copies' = [copies EXCEPT ![b] = NoFile]
    /\ Proceed(b, "failed")
    /\ UNCHANGED << clip, inputs, specs, target, results, why, disturbances >>

-----------------------------------------------------------------------------
(* Others *)

\* A kill leaves everything; an interrupt is no Exception and leaves the stage.
Stop(b) ==
    /\ building[b] \notin {"target", "published", "failed", "stopped"}
    /\ disturbances < MaxDisturbances /\ disturbances' = disturbances + 1
    /\ copies' \in {copies, [copies EXCEPT ![b] = NoFile]}
    /\ Proceed(b, "stopped")
    /\ UNCHANGED << clip, inputs, specs, staging, target, results, why >>

RewriteInput(input) ==
    /\ disturbances < MaxDisturbances /\ disturbances' = disturbances + 1
    /\ inputs' = [inputs EXCEPT ![input] = IF input = "audio" THEN @ + 1 ELSE {}]
    /\ UNCHANGED << building, clip, copies, specs, staging, target, results, why >>

\* Another program makes a directory at the output path.
Occupy ==
    /\ target.is = "absent"
    /\ disturbances < MaxDisturbances /\ disturbances' = disturbances + 1
    /\ \E is \in {"empty", "other"} : target' = [target EXCEPT !.is = is]
    /\ UNCHANGED << building, clip, inputs, copies, specs, staging, results, why >>

\* A file of the published pack is replaced, or one is added.
Tamper(name) ==
    /\ target.is = "pack"
    /\ disturbances < MaxDisturbances /\ disturbances' = disturbances + 1
    /\ \/ name \in {"manifest", "sidecar"} /\ target' = [target EXCEPT !.files[name].source = @ + 1]
       \/ name \in {"annotator", "template"} /\ target' = [target EXCEPT !.files[name] = Reverse(@)]
       \/ name = "clips" /\ \E i, j \in 1..ClipCount :
            target' = [target EXCEPT !.files["clips"] = Holds(@, i, @[j])]
       \/ name = "extra" /\ target' = [target EXCEPT !.files = Holds(@, "extra", 0)]
    /\ UNCHANGED << building, clip, inputs, copies, specs, staging, results, why >>

Build(b) ==
    \/ CheckTarget(b) \/ TakeCopy(b) \/ Select(b) \/ CutClip(b) \/ WriteDocument(b)
    \/ Seal(b) \/ Publish(b) \/ Cleanup(b) \/ Stop(b)

PackNext ==
    \/ \E b \in Builders : Build(b)
    \/ \E input \in Inputs : RewriteInput(input)
    \/ Occupy
    \/ \E name \in Names \cup {"extra"} : Tamper(name)

PackSpec == PackInit /\ [][PackNext]_packVars

-----------------------------------------------------------------------------
(* Properties *)

\* What annotators and evaluators rely on in a pack.
Sound(dir) ==
    LET rows == dir["manifest"].clips
        Start(i) == rows[i].audio.start
        n == rows[1].audio.frames
    IN  /\ \A i \in DOMAIN rows :
             /\ dir["clips"][rows[i].id] = Cut(dir["manifest"].source, Start(i), n)
             /\ rows[i].category = "boundary" => HasPoint(Start(i), n, dir["manifest"].reference)
             /\ rows[i].category = "stress" => Overlaps(Start(i), n, dir["manifest"].system)
             /\ Start(i) >= 0 /\ Start(i) + n <= SourceFrames
             /\ \A j \in DOMAIN rows : i # j => Apart(Start(i), Start(j), n)
        /\ [i \in DOMAIN dir["annotator"] |-> dir["annotator"][i].id]
             = [i \in DOMAIN dir["template"] |-> dir["template"][i].id]
        /\ {dir["annotator"][i].id : i \in DOMAIN dir["annotator"]} = DOMAIN dir["clips"]

\* At the output path there is nothing, what somebody else put there, or a whole pack;
\* a pack that verify_pack accepts under the digest its builder returned is cut from
\* the one recording its manifest names, its clips are disjoint and of the kind they
\* are listed as, and template and annotator rows are about the same clips in the same
\* order, whatever was rewritten while it was built and whatever was swapped since.
AcceptedIsSound ==
    target.is = "pack" =>
        \E b \in Builders : /\ results[b] # << >>
                            /\ Verified(target.files, results[b][1]) => Sound(target.files)
                            /\ disturbances = 0 => Verified(target.files, results[b][1])

\* A pack is published once and over nothing that somebody else made meanwhile, and a
\* builder that ends leaves neither copies of the recording nor a staging directory.
PublishedOnce ==
    /\ target.is = "pack" => target.over \in {"absent", "empty"}
    /\ Cardinality({b \in Builders : results[b] # << >>}) <= 1
    /\ (\E b \in Builders : results[b] # << >>) => target.is = "pack"
    /\ \A b \in Builders : building[b] \in {"published", "failed"} =>
         copies[b] = NoFile /\ ~staging[b].is

\* A builder refuses what it picked or wrote itself in no case but one: a clip that is
\* not a whole number of microseconds.  It gives up on the quotas only when no disjoint
\* clips of the two kinds exist.
PackRefusedForCause ==
    \A b \in Builders :
        /\ why[b] # "check"
        /\ why[b] = "seal" => (clip[b] * Micro) % Rate # 0
        /\ why[b] = "quota" /\ building[b] = "refused" =>
             LET starts == Grid(clip[b], 0, SourceFrames - clip[b])
                 Of(kind) == {s \in starts :
                    IF kind = "boundary" THEN HasPoint(s, clip[b], copies[b]["reference"])
                    ELSE Overlaps(s, clip[b], copies[b]["system"])}
             IN  ~\E x \in SUBSET Of("boundary"), y \in SUBSET Of("stress") :
                    Cardinality(x) = BoundaryCount /\ Cardinality(y) = StressCount /\ x \cap y = {}
=============================================================================
