------------------------------- MODULE SttPack -------------------------------
(***************************************************************************)
(* The pack of a second recogniser (stt_cascade_experimental.py): which    *)
(* programs and models it is made of, verified by digest before anything   *)
(* is loaded and again before use.  An artifact is a file or a whole       *)
(* directory.  A disk is what lies at each path below the pack's root, the *)
(* root itself at << >>, and the identity of the root's parents.  A digest *)
(* is the set of what was hashed.                                          *)
(***************************************************************************)
EXTENDS Integers, SequencesExt

CONSTANTS MaxArtifacts, MaxFiles, MaxEntries, MaxBytes

\* SUPPORTED_PACK_STRATEGIES, and the groups each of them requires.
Required ==
    [whispercpp_openvino |-> {"engine", "model", "vad", "encoder", "runtime"},
     ctranslate2         |-> {"engine", "model", "tokenizer"}]
Groups == UNION {Required[s] : s \in DOMAIN Required}
Alias == [silero_vad |-> "vad", voice_activity |-> "vad", openvino_runtime |-> "runtime", ct2 |-> "engine",
          ctranslate2 |-> "engine"]    \* among others
GroupOf(row) == IF row.group \in DOMAIN Alias THEN Alias[row.group] ELSE row.group

Below(at, path) == Len(path) > Len(at) /\ IsPrefix(at, path)
Entries(lies, at) == {path \in DOMAIN lies : Below(at, path)}
Relative(at, path) == SubSeq(path, Len(at) + 1, Len(path))

Total(sizes) == FoldSeq(LAMBDA a, b : a + b, 0, sizes)
Refused == [is |-> "refused"]

\* As HashTree, with the names left out.
HashTree_Nameless(lies, at, files) == {<< << >>, lies[f].sum, lies[f].bytes >> : f \in files}

\* Names, digests and sizes of the files of a directory; its empty directories do not count.
HashTree(lies, at, files) == {<< Relative(at, f), lies[f].sum, lies[f].bytes >> : f \in files}

\* _hash_local_artifact: what is read at a path, if it may be read.
HashLocal(lies, at) ==
    LET entries == Entries(lies, at)
        files == {path \in entries : lies[path].is = "file"}
        size == FoldSet(LAMBDA f, sum : sum + lies[f].bytes, 0, files)
    IN  IF at \notin DOMAIN lies \/ lies[at].is = "link" THEN Refused
        ELSE IF lies[at].is = "file"
          THEN IF lies[at].bytes > MaxBytes THEN Refused
               ELSE [is |-> "read", digest |-> {<< lies[at].sum >>}, size |-> lies[at].bytes, count |-> 1]
        ELSE IF \/ Cardinality(entries) > MaxEntries \/ \E path \in entries : lies[path].is = "link"
                \/ Cardinality(files) > MaxFiles \/ size > MaxBytes \/ files = {}
          THEN Refused
        ELSE [is |-> "read", digest |-> HashTree(lies, at, files), size |-> size, count |-> Cardinality(files)]

\* No link at the artifact or on the way to it from the root, which is checked itself.
Reached(lies, at) ==
    \A n \in 1..Len(at) : SubSeq(at, 1, n) \in DOMAIN lies => lies[SubSeq(at, 1, n)].is # "link"

RowHolds(row, lies) ==
    LET read == HashLocal(lies, row.at)
    IN  /\ row.id # "" /\ GroupOf(row) \in Groups /\ row.local /\ Reached(lies, row.at)
        /\ read.is = "read" /\ read.digest = row.sum /\ row.bytes \in {-1, read.size}

\* Exactly one artifact for each required group, no two of them at one place.
Complete(rows, strategy) ==
    LET Of(group) == {i \in DOMAIN rows : GroupOf(rows[i]) = group}
        needed == {i \in DOMAIN rows : GroupOf(rows[i]) \in Required[strategy]}
    IN  /\ \A group \in Required[strategy] : Cardinality(Of(group)) = 1
        /\ Cardinality({rows[i].at : i \in needed}) = Cardinality(needed)

\* verify_local_stt_pack
Verify(pack, disk) ==
    LET rows == pack.rows
        reads == [i \in DOMAIN rows |-> HashLocal(disk.lies, rows[i].at)]
    IN  IF /\ pack.stray = FALSE /\ "" \notin {pack.id, pack.runtime, pack.platform}
           /\ pack.strategy \in DOMAIN Required
           /\ pack.root = "local" /\ disk.lies[<< >>].is = "dir"
           /\ Len(rows) <= MaxArtifacts
           /\ \A i \in DOMAIN rows : RowHolds(rows[i], disk.lies)
           /\ \A i, j \in DOMAIN rows : rows[i].id = rows[j].id => i = j
           /\ Total([i \in DOMAIN rows |-> reads[i].size]) <= MaxBytes
           /\ Total([i \in DOMAIN rows |-> reads[i].count]) <= MaxFiles
           /\ Complete(rows, pack.strategy)
        THEN [is |-> "verified", seal |-> disk.parents,
              artifacts |-> {[group |-> GroupOf(rows[i]), at |-> rows[i].at, read |-> reads[i]] :
                               i \in DOMAIN rows}]
        ELSE Refused

\* VerifiedLocalSttPack.assert_artifacts_unchanged
Unchanged(verified, disk) ==
    /\ disk.parents = verified.seal
    /\ \A a \in verified.artifacts : HashLocal(disk.lies, a.at) = a.read

-----------------------------------------------------------------------------
(* What that is for *)

\* What a loader finds at a path: files, by their names below it.
Found(lies, at) ==
    {<< Relative(at, path), lies[path] >> : path \in {p \in DOMAIN lies : IsPrefix(at, p) /\ lies[p].is = "file"}}

\* A pack that was verified has one artifact for each part of its strategy, and none of
\* what a loader finds in them came from elsewhere; it is taken for unchanged as long as
\* a loader would find the same files, of the same names, under the same root.
PackIsComplete(pack, disk, later) ==
    LET verified == Verify(pack, disk)
        At(group) == {a \in verified.artifacts : a.group = group}
        Same(a) == Found(disk.lies, a.at) = Found(later.lies, a.at)
        Plain(a) == \A p \in DOMAIN later.lies : IsPrefix(a.at, p) => later.lies[p].is # "link"
        Few(a) == Cardinality(Entries(later.lies, a.at)) <= MaxEntries
    IN  verified.is = "verified" =>
          /\ \A group \in Required[pack.strategy] : \E a \in At(group) : At(group) = {a}
          /\ \A a, b \in verified.artifacts :
               a.at = b.at /\ {a.group, b.group} \subseteq Required[pack.strategy] => a = b
          /\ \A a \in verified.artifacts :
               /\ Found(disk.lies, a.at) # {}
               /\ \A p \in DOMAIN disk.lies :
                    IsPrefix(p, a.at) \/ IsPrefix(a.at, p) => disk.lies[p].is # "link"
          /\ Cardinality(UNION {{<< a, f >> : f \in Found(disk.lies, a.at)} : a \in verified.artifacts}) <= MaxFiles
          /\ Unchanged(verified, later) <=>
               disk.parents = later.parents
               /\ \A a \in verified.artifacts : Same(a) /\ Plain(a) /\ Few(a)
=============================================================================
