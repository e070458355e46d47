------------------------------- MODULE Release -------------------------------
(***************************************************************************)
(* Validation of an assembled release (release.py): a catalogue, the files *)
(* of one target and a mode; the report is accepted when it has no issue.  *)
(* A path is a directory and a name.  A file's content is what it says and *)
(* what it lists (entries of a manifest, digests of an SBOM), and stands   *)
(* for its digest.  Targets are judged one by one and their issues put     *)
(* together; issues of a kind share a name here.                           *)
(***************************************************************************)
EXTENDS Integers, SequencesExt

Digest(file) == << file.says, file.lists >>
Top(name) == << "top", name >>
Local == Top("release-manifest")
Safe(path) == path[1] # ".."

\* _first_existing over LOCKFILE_NAMES; clean_install_plan installs from the same.
LockFile(files) ==
    IF Top("lock") \in DOMAIN files THEN {Top("lock")} ELSE {Top("txt")} \cap DOMAIN files

\* _lockfile_issues, a lock being the kinds of its requirements.
LockIssues(lines) ==
    (IF lines = {} THEN {"LOCKFILE_EMPTY"} ELSE {})
      \cup (IF "url" \in lines THEN {"LOCKFILE_NETWORK_OR_INCLUDE"} ELSE {})
      \cup (IF "loose" \in lines THEN {"LOCKFILE_UNPINNED"} ELSE {})
      \cup (IF "garbled" \in lines THEN {"LOCKFILE_HASH_INVALID"} ELSE {})

LayoutIssues(files) ==
    {"ARTIFACT_DIR_MISSING" : dir \in {d \in {"wheels", "models", "native"} : ~\E p \in DOMAIN files : p[1] = d}}
      \cup {"RELEASE_FILE_MISSING" : dir \in {d \in {"sbom", "notices"} : ~\E p \in DOMAIN files : p[1] = d}}
      \cup (IF LockFile(files) = {} THEN {"LOCKFILE_MISSING"}
            ELSE UNION {LockIssues(files[p].says) : p \in LockFile(files)})

\* Entries of a manifest against the files.
EntryIssues(entries, files) ==
    UNION {CASE ~Safe(e.path) -> {"MANIFEST_PATH_TRAVERSAL"}
             [] Safe(e.path) /\ e.path \notin DOMAIN files -> {"MANIFEST_ARTIFACT_MISSING"}
             [] Safe(e.path) /\ e.path \in DOMAIN files ->
                  IF files[e.path].link THEN {"RELEASE_SYMLINK_PROHIBITED"}
                  ELSE IF Digest(files[e.path]) # e.sum THEN {"HASH_MISMATCH"} ELSE {} : e \in entries}

\* Only what lies at the top is looked at.
InventoryIssues_Shallow(entries, files) ==
    {"UNMANIFESTED_ARTIFACT" : p \in {q \in DOMAIN files : /\ q[1] = "top" /\ q[2] # Local[2]
                                                           /\ q \notin {e.path : e \in entries}}}

\* _inventory_issues: every file but those of one name is listed, and none is a link.
InventoryIssues(entries, files) ==
    {"RELEASE_SYMLINK_PROHIBITED" : p \in {q \in DOMAIN files : files[q].link}}
      \cup {"UNMANIFESTED_ARTIFACT" : p \in {q \in DOMAIN files : /\ ~files[q].link /\ q[2] # Local[2]
                                                                  /\ q \notin {e.path : e \in entries}}}

-----------------------------------------------------------------------------
(* What production asks for on top *)

\* _signature_gate; whether a signature verifies is what the evidence itself says.
Vouches == {"signature", "signer", "verified", "trusted", "evidence"}
GateIssues(says) == Vouches \ says

\* _load_json_artifact: where the section points, or else a default place.
Default == [sbom |-> {<< "sbom", "s" >>}, model |-> {<< "models", "manifest" >>},
            ort |-> {}, golden |-> {}, abi |-> {}]
Evidence(kind, section, files) ==
    LET said == kind \in DOMAIN section
        named == IF said /\ Safe(section[kind].path) THEN {section[kind].path} ELSE Default[kind]
        sums == IF said THEN section[kind].sums ELSE {}
        missing == named \cap DOMAIN files = {}
        file == files[CHOOSE p \in named : TRUE]
        unreadable == missing \/ file.link
    IN  [issues |-> IF missing THEN {"MISSING"} ELSE IF file.link THEN {"RELEASE_SYMLINK_PROHIBITED"}
                    ELSE {"HASH_MISSING" : k \in {x \in {kind} : sums = {} /\ (said \/ x # "sbom")}}
                           \cup {"HASH_MISMATCH" : s \in {x \in sums : x # Digest(file)}}
                           \cup (IF "json" \in file.says THEN {} ELSE {"INVALID"}),
         says |-> IF unreadable THEN {} ELSE IF "json" \in file.says THEN file.says ELSE {},
         lists |-> IF unreadable THEN {} ELSE file.lists]

\* What a document that could be read must say.
Claims == [sbom |-> {"cyclonedx", "components"}, model |-> {"approved"},
           ort |-> {"target", "status", "off", "verified", "trusted", "independent", "evidence", "approved"},
           golden |-> {"target", "verified", "digests"},
           abi |-> {"target", "verified", "identity", "libraries"}]
EvidenceIssues(kind, section, files) ==
    LET e == Evidence(kind, section, files)
    IN  e.issues \cup (IF e.says = {} THEN {} ELSE Claims[kind] \ e.says)

\* The SBOM lists the digests of what is listed under three directories.
CoverageIssues(section, files, entries) ==
    LET sbom == Evidence("sbom", section, files)
    IN  IF "components" \in sbom.says
        THEN {"SBOM_COMPONENT_COVERAGE_MISSING" :
                e \in {x \in entries : x.path[1] \in {"wheels", "models", "native"} /\ x.sum \notin sbom.lists}}
        ELSE {}

\* The pack's manifest or the section's word for it passes the gate as a whole.
PackIssues(section, files) ==
    LET read == Evidence("model", section, files).says
        gates == (IF read = {} THEN << >> ELSE << read >>)
                   \o (IF "model" \in DOMAIN section THEN << section.model.gate >> ELSE << >>)
    IN  IF gates = << >> THEN Vouches
        ELSE IF \E i \in DOMAIN gates : GateIssues(gates[i]) = {} THEN {} ELSE GateIssues(gates[1])

\* The lock that the section names, which need not be the one of LockFile.
TargetLockIssues(section, files, entries) ==
    IF "lock" \notin DOMAIN section THEN {"TARGET_LOCK_MISSING"}
    ELSE LET lock == section.lock
             there == Safe(lock.path) /\ lock.path \in DOMAIN files
         IN  (IF lock.fits THEN {} ELSE {"TARGET_LOCK_TARGET_MISMATCH"})
               \cup (CASE ~Safe(lock.path) -> {"TARGET_LOCK_PATH_MISSING"}
                       [] Safe(lock.path) /\ lock.sums = {} -> {"TARGET_LOCK_HASH_MISSING"}
                       [] ~there /\ Safe(lock.path) /\ lock.sums # {} -> {"TARGET_LOCK_MISSING"}
                       [] there /\ lock.sums # {} ->
                            {"TARGET_LOCK_HASH_MISMATCH" : s \in lock.sums \ {Digest(files[lock.path])}})
               \cup (IF ~there THEN {}
                     ELSE LockIssues(files[lock.path].says)
                            \cup (IF lock.path \in {e.path : e \in entries} THEN {}
                                  ELSE {"TARGET_LOCK_UNMANIFESTED"}))

\* _production_target_issues
ProductionIssues(section, files, entries) ==
    IF section = << >> THEN {"PRODUCTION_TARGET_METADATA_MISSING"}
    ELSE (IF "approved" \in DOMAIN section /\ section.approved THEN {}
          ELSE {"PRODUCTION_TARGET_APPROVAL_REQUIRED"})
           \cup (UNION {EvidenceIssues(kind, section, files) : kind \in DOMAIN Claims})
           \cup CoverageIssues(section, files, entries)
           \cup PackIssues(section, files)
           \cup TargetLockIssues(section, files, entries)

-----------------------------------------------------------------------------
(* validate_release_layout, a manifest being required *)

\* A target's own manifest counts where the catalogue lists nothing.
Entries(catalog, files) ==
    IF catalog.is = "catalog" /\ catalog.entries # {} THEN catalog.entries
    ELSE IF Local \in DOMAIN files /\ "json" \in files[Local].says THEN files[Local].lists
    ELSE {}

CatalogIssues(catalog, files, mode) ==
    IF catalog.is = "catalog"
    THEN (IF catalog.targets THEN {} ELSE {"MANIFEST_TARGETS_MISSING"})
           \cup (IF mode = "production"
                 THEN GateIssues(catalog.gate)
                        \cup (IF catalog.approved THEN {} ELSE {"PRODUCTION_APPROVAL_REQUIRED"})
                 ELSE IF catalog.approved THEN {"DEVELOPMENT_APPROVAL_MISMATCH"} ELSE {})
    ELSE (IF mode = "production" THEN {"PRODUCTION_MANIFEST_REQUIRED"} ELSE {})
           \cup (IF Local \in DOMAIN files THEN {} ELSE {"MANIFEST_MISSING"})

Validate(catalog, files, mode) ==
    LET entries == Entries(catalog, files)
    IN  CatalogIssues(catalog, files, mode)
          \cup LayoutIssues(files)
          \cup (IF entries = {} THEN {"MANIFEST_TARGET_MISSING"} ELSE {})
          \cup EntryIssues(entries, files)
          \cup InventoryIssues(entries, files)
          \cup (IF mode = "production" /\ catalog.is = "catalog"
                THEN ProductionIssues(catalog.section, files, entries) ELSE {})

-----------------------------------------------------------------------------
(* What that is for *)

Accepted(catalog, files, mode) == Validate(catalog, files, mode) = {}

\* Nothing about an accepted target can change unseen: no file taken away, replaced,
\* made a link or laid beside the others.
TamperEvident(catalog, files, mode, places) ==
    /\ \A p \in DOMAIN files :
         p[2] # Local[2] =>
           /\ ~Accepted(catalog, [q \in DOMAIN files \ {p} |-> files[q]], mode)
           /\ ~Accepted(catalog, [files EXCEPT ![p].link = TRUE], mode)
           /\ ~Accepted(catalog, [files EXCEPT ![p].says = files[p].says \cup {"more"}], mode)
           /\ ~Accepted(catalog, [files EXCEPT ![p].says = {}, ![p].lists = {}], mode)
    /\ \A p \in places \ DOMAIN files :
         ~Accepted(catalog, [q \in DOMAIN files \cup {p} |->
                               IF q = p THEN [link |-> FALSE, says |-> {"pinned"}, lists |-> {}]
                               ELSE files[q]], mode)

\* What is accepted is whole, is installed from pinned requirements only, and for production
\* every promise is made by bytes that the catalogue or the target's manifest lists.
AcceptedIsWhole(catalog, files, mode, places) ==
    Accepted(catalog, files, mode) =>
      /\ TamperEvident(catalog, files, mode, places)
      /\ \E p \in LockFile(files) :
           files[p].says # {} /\ files[p].says \cap {"url", "loose", "garbled"} = {}
      /\ mode = "production" =>
           LET listed == {p \in DOMAIN files : [path |-> p, sum |-> Digest(files[p])] \in Entries(catalog, files)}
           IN  /\ \A kind \in DOMAIN Claims : \E p \in listed : Claims[kind] \subseteq files[p].says
               /\ Vouches \subseteq catalog.gate
               /\ \E p \in listed : \A q \in listed :
                    q[1] \in {"wheels", "models", "native"} => Digest(files[q]) \in files[p].lists
               /\ Accepted([catalog EXCEPT !.approved = FALSE], files, "development")
=============================================================================
