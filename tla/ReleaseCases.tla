----------------------------- MODULE ReleaseCases -----------------------------
(***************************************************************************)
(* A model pack, a pack of a second recogniser and a release that are as   *)
(* they should be, and what may be done to them before they are looked at. *)
(***************************************************************************)
EXTENDS Integers, Sequences, FiniteSets

Pack == INSTANCE ModelPack
Release == INSTANCE Release
Second == INSTANCE SttPack WITH MaxArtifacts <- 5, MaxFiles <- 6, MaxEntries <- 3, MaxBytes <- 22

-----------------------------------------------------------------------------
(* A model pack *)

Artifact(id, role, path) == [id |-> id, role |-> role, path |-> path, bytes |-> 5, sum |-> "a"]
Contract == [onnxruntime |-> "1", providers |-> {"cpu"}, targets |-> {[os |-> "linux", abi |-> "cp311"]}]
Manifest ==
    Pack!Signed([schema |-> "1", id |-> "p", version |-> "1", approved |-> "yes", contract |-> Contract,
                 files |-> << Artifact("x", "segmentation", "m"), Artifact("y", "calibration", "n") >>,
                 key |-> "k", signature |-> 0, digest |-> 0], "k")
Lying(is, sum) == [is |-> is, bytes |-> 5, sum |-> sum]
Disk == [path \in {"m", "n", "/m", "../m", "http://m", ""} |-> Lying("file", "a")]
Host == [onnxruntime |-> "1", providers |-> {"cpu"}, os |-> "linux", abi |-> "cp311"]

PackSettings ==
    {s \in [trust : {"RELEASE", "DEVELOPMENT", "NONE"}, keys : {{"k"}}, development : BOOLEAN,
            release : BOOLEAN, host : {Host, [Host EXCEPT !.providers = {}], [Host EXCEPT !.abi = "cp312"]}] :
       ~(s.development /\ s.release) /\ (s.host = Host \/ s.trust = "RELEASE")}

\* New manifests: fields and signatures that are changed, or all of it signed again.
Manifests(man) ==
    {Pack!Signed(man, "k"), Pack!Signed(man, "j")}
      \cup {[man EXCEPT !.signature = [is |-> kind]] : kind \in {"none", "garbage"}}
      \cup {[man EXCEPT !.digest = [is |-> "none"]], [man EXCEPT !.key = ""], [man EXCEPT !.id = ""],
            [man EXCEPT !.version = "2"]}
      \cup {[man EXCEPT !.approved = word] : word \in {"yes", "no", "unsaid"}}
      \cup {[man EXCEPT !.contract = c] :
              c \in {<< >>, [others |-> 0], [providers |-> {}], [targets |-> {}], [targets |-> {<< >>}],
                     [targets |-> {[os |-> "linux"], [abi |-> "cp310"]}],
                     [onnxruntime |-> "2", providers |-> {"cpu", "cuda"}]}}
      \cup {[man EXCEPT !.files = f] :
              f \in {<< >>, << Artifact("x", "embedding", "m") >>,
                     << Artifact("x", "embedding", "m"), Artifact("x", "segmentation", "n") >>,
                     << Artifact("x", "calibration", "m"), Artifact("y", "quality_calibration", "n") >>}
                    \cup {<< Artifact("x", "embedding", path), Artifact("y", "", "m") >> : path \in {"n", "m"}}
                    \cup {<< Artifact("x", "embedding", path) >> : path \in {"", "/m", "../m", "http://m"}}}

Disks(disk) ==
    {[disk EXCEPT ![path] = there] : path \in {"m", "n"},
        there \in {Lying("link", "a"), Lying("directory", "a"), Lying("nothing", "a"), Lying("file", "b"),
                   [Lying("file", "a") EXCEPT !.bytes = 6]}}

-----------------------------------------------------------------------------
(* A pack of a second recogniser: four files and a directory of two *)

Entry(is, sum, bytes) == [is |-> is, sum |-> sum, bytes |-> bytes]
SecondDisk ==
    [parents |-> "p",
     lies |-> [at \in {<< >>, << "e" >>, << "t" >>, << "v" >>, << "c" >>, << "m" >>, << "m", "x" >>, << "m", "y" >>} |->
                CASE at \in {<< >>, << "m" >>}        -> Entry("dir", "", 0)
                  [] at \in {<< "v" >>, << "c" >>} -> Entry("file", at[1], 1)
                  [] OTHER                         -> Entry("file", at[Len(at)], 5)]]
Place == [engine |-> << "e" >>, tokenizer |-> << "t" >>, runtime |-> << "t" >>, vad |-> << "v" >>,
          encoder |-> << "c" >>, model |-> << "m" >>]
Row(id, group, at, disk, bytes) ==
    LET read == Second!HashLocal(disk.lies, at)
    IN  [id |-> id, group |-> group, at |-> at, local |-> TRUE, bytes |-> bytes,
         sum |-> IF read.is = "read" THEN read.digest ELSE {}]
SecondPack(strategy, groups, disk) ==
    [id |-> "p", runtime |-> "r", platform |-> "x", strategy |-> strategy, stray |-> FALSE, root |-> "local",
     rows |-> [i \in DOMAIN groups |-> Row(groups[i], groups[i], Place[groups[i]], disk, -1)]]
OfTokens(disk) == SecondPack("ctranslate2", << "engine", "model", "tokenizer" >>, disk)
OfEncoder(disk) == SecondPack("whispercpp_openvino", << "engine", "model", "vad", "encoder", "runtime" >>, disk)

SecondPacks(pack, disk) ==
    {OfTokens(disk), OfEncoder(disk), [pack EXCEPT !.id = ""], [pack EXCEPT !.platform = ""],
     [pack EXCEPT !.stray = TRUE], [pack EXCEPT !.strategy = "other"], [pack EXCEPT !.root = "url"]}
      \cup {[pack EXCEPT !.rows = Append(@, Row(id, group, at, disk, -1))] :
              id \in {"more", "model"}, group \in {"vad", "model"}, at \in {<< "v" >>, << "m", "x" >>}}
      \cup UNION {{[pack EXCEPT !.rows[k] = row] :
                     row \in {Row("other", group, at, disk, bytes) : group \in {"ct2", "model", "words"},
                                at \in {<< "e" >>, << "m" >>, << >>, << "m", "x" >>}, bytes \in {5, 10}}
                             \cup {[pack.rows[k] EXCEPT !.local = FALSE], [pack.rows[k] EXCEPT !.id = ""]}} :
                   k \in 1..2}

\* What lies below a path lies in a directory, or where a link leads.
SecondDisks(disk) ==
    LET Now(at, entry) ==
          [disk EXCEPT !.lies =
             [a \in {at} \cup {q \in DOMAIN @ : entry.is # "file" \/ ~Second!Below(at, q)} |->
                IF a = at THEN entry ELSE @[a]]]
        Moved(from, to) ==
          [disk EXCEPT !.lies = [a \in (DOMAIN @ \ {from}) \cup {to} |-> IF a = to THEN @[from] ELSE @[a]]]
    IN  {[disk EXCEPT !.parents = "q"]}
          \cup {Now(at, entry) :
                   at \in {<< "m" >>, << "e" >>} \cup {<< "m", f >> : f \in {g \in {"x", "z"} : disk.lies[<< "m" >>].is # "file"}},
                   entry \in {Entry("link", "", 0), Entry("file", "x", 5), Entry("file", "x", 7), Entry("dir", "", 0)}}
          \cup {Moved(from, << "m", "z" >>) : from \in {<< "m", "y" >>} \cap DOMAIN disk.lies}
          \cup {[disk EXCEPT !.lies = [a \in DOMAIN @ \ {at} |-> @[a]]] : at \in {<< "t" >>, << "m", "y" >>}}

-----------------------------------------------------------------------------
(* A release *)

File(says) == [link |-> FALSE, says |-> says, lists |-> {}]
Payload ==
    [p \in {<< "wheels", "w" >>, << "models", "m" >>, << "models", "manifest" >>, << "native", "n" >>,
            << "notices", "n" >>, << "top", "lock" >>, << "evidence", "ort" >>, << "evidence", "golden" >>,
            << "evidence", "abi" >>} |->
       CASE p = << "models", "manifest" >> -> File({"json", "approved"} \cup Release!Vouches)
         [] p[1] = "top"      -> File({"pinned"})
         [] p[1] = "evidence" -> File({"json"} \cup Release!Claims[p[2]])
         [] OTHER             -> File({p[1]})]
Sbom == << "sbom", "s" >>

\* An SBOM of what is there, and a catalogue that lists what is there.
WithSbom(files) ==
    LET components == {Release!Digest(files[p]) : p \in {q \in DOMAIN files : q[1] \in {"wheels", "models", "native"}}}
    IN  [p \in DOMAIN files \cup {Sbom} |->
           IF p = Sbom THEN [link |-> FALSE, says |-> {"json", "cyclonedx", "components"}, lists |-> components]
           ELSE files[p]]
Listing(files) ==
    {[path |-> p, sum |-> Release!Digest(files[p])] : p \in {q \in DOMAIN files : q # Release!Local}}
Section(files) ==
    LET At(p) == [path |-> p, sums |-> IF p \in DOMAIN files THEN {Release!Digest(files[p])} ELSE {},
                  gate |-> {}, fits |-> TRUE]
    IN  [approved |-> TRUE, sbom |-> At(Sbom), model |-> At(<< "models", "manifest" >>),
         lock |-> At(Release!Top("lock")), ort |-> At(<< "evidence", "ort" >>),
         golden |-> At(<< "evidence", "golden" >>), abi |-> At(<< "evidence", "abi" >>)]
Catalog(files) ==
    [is |-> "catalog", targets |-> TRUE, approved |-> TRUE, gate |-> Release!Vouches,
     entries |-> Listing(files), section |-> Section(files)]
Shipped == WithSbom(Payload)

Kinds == {"sbom", "model", "lock", "ort", "golden", "abi"}
Without(record, key) == [k \in DOMAIN record \ {key} |-> record[k]]

\* Changes of the catalogue, the last of which makes it anew.
Catalogs(catalog, files) ==
    {[catalog EXCEPT !.is = "none"], [catalog EXCEPT !.targets = FALSE], [catalog EXCEPT !.approved = ~@],
     [catalog EXCEPT !.entries = {}], [catalog EXCEPT !.section = << >>], Catalog(files)}
      \cup {[catalog EXCEPT !.gate = @ \ {word}] : word \in {"signature", "trusted"}}
      \cup {[catalog EXCEPT !.entries = @ \ {e}] : e \in {x \in catalog.entries : x.path[1] # "evidence"}}
      \cup {[catalog EXCEPT !.entries = @ \cup {[path |-> << "..", "m" >>, sum |-> << {}, {} >>]}]}
      \cup (IF catalog.section = << >> THEN {}
            ELSE {[catalog EXCEPT !.section = Without(@, key)] : key \in Kinds \cup {"approved"}}
                   \cup UNION {IF kind \in DOMAIN catalog.section
                               THEN {[catalog EXCEPT !.section[kind].path = << "..", "m" >>],
                                     [catalog EXCEPT !.section[kind].sums = {}]} ELSE {} : kind \in Kinds}
                   \cup (IF "model" \in DOMAIN catalog.section
                         THEN {[catalog EXCEPT !.section.model.gate = Release!Vouches]} ELSE {})
                   \cup (IF "lock" \in DOMAIN catalog.section
                         THEN {[catalog EXCEPT !.section.lock.fits = FALSE]} ELSE {}))

Put(files, p, file) == [q \in DOMAIN files \cup {p} |-> IF q = p THEN file ELSE files[q]]
Places == {<< "models", "x" >>, << "top", "txt" >>, << "native", "x" >>}

Deliveries(files) ==
    {Put(files, p, File({"pinned"})) : p \in Places}
      \cup {Put(files, << "native", "release-manifest" >>, File({"json"})), WithSbom(files),
            Put(files, Release!Local, [File({"json"}) EXCEPT !.lists = Listing(files)])}
      \cup {Without(files, p) : p \in DOMAIN files}
      \cup {[files EXCEPT ![p].link = TRUE] : p \in DOMAIN files}
      \cup (IF Release!Top("lock") \in DOMAIN files
            THEN {[files EXCEPT ![Release!Top("lock")].says = lines] :
                    lines \in {{}, {"pinned", "url"}, {"loose"}, {"pinned", "garbled"}}} ELSE {})
      \cup UNION {{[files EXCEPT ![p].says = @ \ {word}] : word \in {"json", "approved", "verified", "target", "cyclonedx"}}
                    : p \in DOMAIN files}
=============================================================================
