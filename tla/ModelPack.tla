----------------------------- MODULE ModelPack -----------------------------
(***************************************************************************)
(* Intake of a model pack (model_pack.py): a manifest, the files under the *)
(* pack's root and the runtime decide what a pack is trusted for, and the  *)
(* files are hashed again before a release binding consumes them.  A       *)
(* digest stands for what it is a digest of.  A contract is a function of  *)
(* the keys it has.                                                        *)
(***************************************************************************)
EXTENDS Integers, SequencesExt

Test(fails, code) == [fails |-> fails, code |-> code]
FirstFailure(tests) ==
    LET failed == SelectSeq(tests, LAMBDA t : t.fails)
    IN  IF failed = << >> THEN "" ELSE Head(failed).code

\* canonical_manifest_bytes: the signer's key is part of it.
Canonical(man) == [field \in DOMAIN man \ {"signature", "digest"} |-> man[field]]

Repeated(files, field) == \E i, j \in DOMAIN files : i < j /\ files[i][field] = files[j][field]
Calibrates(file) == file.role \in {"calibration", "calibration_profile", "quality_calibration"}

\* ModelPackVerifier._validate_manifest
ManifestTests(man) ==
    << Test("" \in {man.schema, man.id, man.version} \/ man.approved = "unsaid", "MODEL_HASH_MISMATCH"),
       Test(DOMAIN man.contract \cap {"onnxruntime", "providers", "targets"} = {},
            "MODEL_RUNTIME_INCOMPATIBLE"),
       Test(man.files = << >>, "MODEL_NOT_FOUND"),
       Test(\/ \E i \in DOMAIN man.files : "" \in {man.files[i].id, man.files[i].role, man.files[i].path}
            \/ Repeated(man.files, "id") \/ Repeated(man.files, "path")
            \/ Len(SelectSeq(man.files, Calibrates)) > 1, "MODEL_HASH_MISMATCH") >>

\* _verify_signature: only development may do without one.
Unsigned(man, options) == man.signature.is = "none" /\ options.development
SignatureTests(man, options) ==
    << Test(/\ ~Unsigned(man, options)
            /\ \/ man.signature.is # "signed" \/ options.trust = "NONE" \/ man.key = ""
               \/ man.digest.is = "said" /\ man.digest.of # Canonical(man)
               \/ man.key \notin options.keys \/ man.signature.by # man.key
               \/ man.signature.of # Canonical(man), "MANIFEST_SIGNATURE_INVALID") >>

\* _verify_runtime: a target that names nothing is met by every runtime.
Meets(runtime, target) == \A k \in DOMAIN target : runtime[k] = target[k]
RuntimeTests(contract, runtime) ==
    << Test(/\ "onnxruntime" \in DOMAIN contract
            /\ contract.onnxruntime \notin {"", runtime.onnxruntime}, "MODEL_RUNTIME_INCOMPATIBLE"),
       Test(/\ "providers" \in DOMAIN contract
            /\ runtime.providers = {} \/ ~(runtime.providers \subseteq contract.providers),
            "MODEL_RUNTIME_INCOMPATIBLE"),
       Test(/\ "targets" \in DOMAIN contract
            /\ contract.targets # {} /\ ~\E t \in contract.targets : Meets(runtime, t),
            "MODEL_RUNTIME_INCOMPATIBLE") >>

\* _verify_file, where disk says what lies at a path.
Inside(path) == path \notin {"/m", "../m", "http://m"}
FileTests(file, disk) ==
    LET there == disk[file.path]
    IN  << Test(~Inside(file.path) \/ there.is = "link", "MODEL_HASH_MISMATCH"),
           Test(there.is = "nothing", "MODEL_NOT_FOUND"),
           Test(there.is # "file" \/ there.bytes # file.bytes \/ there.sum # file.sum,
                "MODEL_HASH_MISMATCH") >>

\* ModelPackVerifier.verify
Verify(man, options, runtime, disk) ==
    LET signed == ~Unsigned(man, options)
        trust == IF signed /\ options.trust = "RELEASE" /\ man.approved = "yes"
                 THEN "RELEASE" ELSE "DEVELOPMENT"
        before == FirstFailure(ManifestTests(man) \o SignatureTests(man, options))
        code == IF before # "" THEN before
                ELSE FirstFailure(RuntimeTests(man.contract, runtime)
                         \o FlattenSeq([i \in DOMAIN man.files |-> FileTests(man.files[i], disk)])
                         \o << Test(options.release /\ trust # "RELEASE", "MANIFEST_SIGNATURE_INVALID") >>)
    IN  IF code # "" THEN [is |-> "refused", code |-> code]
        ELSE [is |-> "verified", trust |-> trust, signed |-> signed, approved |-> man.approved,
              artifacts |-> man.files]

ReleaseTrusted(pack) == pack.trust = "RELEASE" /\ pack.signed /\ pack.approved = "yes"

\* Only the sizes are looked at again.
Unchanged_Sized(pack, disk) ==
    \A i \in DOMAIN pack.artifacts :
      LET there == disk[pack.artifacts[i].path]
      IN  there.is = "file" /\ there.bytes = pack.artifacts[i].bytes

\* assert_artifacts_unchanged
Unchanged(pack, disk) ==
    \A i \in DOMAIN pack.artifacts :
      LET there == disk[pack.artifacts[i].path]
      IN  /\ there.is = "file" /\ there.bytes = pack.artifacts[i].bytes
          /\ there.sum = pack.artifacts[i].sum

-----------------------------------------------------------------------------
(* What that is for *)

Signed(man, key) ==
    LET content == [field \in DOMAIN man \ {"signature", "digest"} |-> IF field = "key" THEN key ELSE man[field]]
    IN  [man EXCEPT !.key = key, !.signature = [is |-> "signed", by |-> key, of |-> content],
                    !.digest = [is |-> "said", of |-> content]]

\* What a holder of a release key signed is this manifest, and it approves the pack.
Authentic(man, options) ==
    /\ options.trust = "RELEASE" /\ man.key \in options.keys /\ man.approved = "yes"
    /\ man.signature.is = "signed" /\ man.signature.by = man.key
    /\ \A field \in {"schema", "id", "version", "approved", "contract", "files", "key"} :
         man.signature.of[field] = man[field]
    /\ man.digest.is = "none" \/ man.digest.of = man.signature.of

\* Every file is named once, says what it is for and has one owner.
Described(man) ==
    LET files == ToSet(man.files)
    IN  /\ "" \notin {man.schema, man.id, man.version} \cup UNION {{f.id, f.role, f.path} : f \in files}
        /\ files # {} /\ \A f \in files : f.path \in {"m", "n"}
        /\ \A field \in {"id", "path"} : Cardinality({f[field] : f \in files}) = Len(man.files)
        /\ \A f, g \in files : Calibrates(f) /\ Calibrates(g) => f = g

Suits(contract, runtime) ==
    /\ \E k \in DOMAIN contract : k \in {"onnxruntime", "providers", "targets"}
    /\ \A k \in DOMAIN contract :
         CASE k = "onnxruntime" -> contract[k] \in {"", runtime[k]}
           [] k = "providers"   -> runtime[k] # {} /\ \A p \in runtime[k] : p \in contract[k]
           [] k = "targets"     -> contract[k] = {} \/ \E t \in contract[k] : \A e \in DOMAIN t : t[e] = runtime[e]
           [] OTHER             -> TRUE

Holds(disk, man) ==
    \A f \in ToSet(man.files) : disk[f.path] = [is |-> "file", bytes |-> f.bytes, sum |-> f.sum]

\* Release trust is what a release key vouches for, file by file, on a runtime it names; a
\* file that is not what it was when the pack was verified is seen before it is consumed.
TrustIsVouchedFor(man, options, runtime, disk, later) ==
    LET pack == Verify(man, options, runtime, disk)
    IN  /\ pack.is = "verified" /\ ReleaseTrusted(pack) <=>
             Authentic(man, options) /\ Described(man) /\ Suits(man.contract, runtime) /\ Holds(disk, man)
        /\ options.release /\ pack.is = "verified" => ReleaseTrusted(pack)
        /\ pack.is = "verified" => (Unchanged(pack, later) <=> Holds(later, man))
=============================================================================
