---------------------------- MODULE Calibration ----------------------------
(***************************************************************************)
(* Who may authorise a PASS (calibration.py): from a profile document and  *)
(* what a service runs to a binding, and from that and the diagnostics of  *)
(* a run to the reasons why it authorises nothing.  A digest is "a", "b"   *)
(* or the same in capitals; "bad" is none.  A signature is what was signed *)
(* and by which key.                                                       *)
(***************************************************************************)
EXTENDS Integers, SequencesExt

\* A field that says nothing; no reason.
Blank == ""

Lower(digest) == CASE digest = "A" -> "a" [] digest = "B" -> "b" [] OTHER -> digest
IsDigest(digest) == Lower(digest) \in {"a", "b"}
LowerAll(hashes) == [m \in DOMAIN hashes |-> Lower(hashes[m])]

-----------------------------------------------------------------------------
(* CalibrationProfile *)

Malformed(doc) == doc.id = Blank \/ doc.rates = {} \/ \E rate \in doc.rates : rate <= 0

\* What __post_init__ makes of a document.
Normal(doc) ==
    [doc EXCEPT !.hashes = LowerAll(@), !.dataset = Lower(@), !.scorer = Lower(@), !.config = Lower(@)]

\* canonical_calibration_bytes with the provenance left out.
Canonical_Unsourced(profile) ==
    [field \in DOMAIN profile \ {"signature", "provenance"} |-> profile[field]]

\* canonical_calibration_bytes: all of it, except the signature.
Canonical(profile) == [field \in DOMAIN profile \ {"signature"} |-> profile[field]]

\* CalibrationProfile.matches: what the profile names must be there.
Matches(profile, hashes) ==
    \A m \in DOMAIN profile.hashes : m \in DOMAIN hashes /\ Lower(hashes[m]) = profile.hashes[m]

-----------------------------------------------------------------------------
(* CalibrationProfileVerifier.verify: the first test that fails decides *)

Test(fails, code) == [fails |-> fails, code |-> code]
FirstFailure(tests) ==
    LET failed == {k \in DOMAIN tests : tests[k].fails}
    IN  IF failed = {} THEN Blank ELSE tests[Min(failed)].code

\* _validate_release_profile
ReleaseTests(p) ==
    << Test(p.schema # "1", "PROVENANCE_INCOMPLETE"),
       Test(p.thresholds = {}, "THRESHOLDS_EMPTY"),
       Test(\/ p.hashes = << >>
            \/ \E m \in DOMAIN p.hashes : ~IsDigest(p.hashes[m]), "PROVENANCE_INCOMPLETE"),
       Test(~IsDigest(p.dataset) \/ ~IsDigest(p.scorer) \/ ~IsDigest(p.config), "PROVENANCE_INCOMPLETE"),
       Test(Blank \in {p.version, p.approver, p.key} \/ p.provenance # "complete", "PROVENANCE_INCOMPLETE"),
       Test(p.signature.is = "none", "SIGNATURE_INVALID") >>

\* verifier.keys are those whose signatures it can check; others make it raise or say no.
SignatureTests(p, verifier) ==
    << Test(p.signature.is = "garbage", "SIGNATURE_INVALID"),
       Test(/\ p.signature.is = "signed"
            /\ \/ p.key \notin verifier.keys
               \/ p.signature.by # p.key
               \/ Canonical(p.signature.of) # Canonical(p), "SIGNATURE_INVALID") >>

RuntimeTests(p, now) ==
    << Test(now.hashes = << >> \/ \E m \in DOMAIN now.hashes : ~IsDigest(now.hashes[m]), "UNBOUND"),
       Test(LowerAll(now.hashes) # p.hashes, "MODEL_HASH_MISMATCH"),
       Test(now.rate \notin p.rates, "SOURCE_RATE_MISMATCH"),
       Test(~IsDigest(now.config), "UNBOUND"),
       Test(Lower(now.config) # p.config, "CONFIG_HASH_MISMATCH"),
       Test(now.id \notin {Blank, p.id}, "PROFILE_MISMATCH") >>

Refusal(code) == [is |-> "refused", reasons |-> {code}]
Legacy(reasons) == [is |-> IF reasons = {} THEN "legacy" ELSE "refused", reasons |-> reasons]

Verify(p, verifier, now) ==
    LET code == FirstFailure(ReleaseTests(p) \o SignatureTests(p, verifier) \o RuntimeTests(p, now))
    IN  IF code # Blank THEN Refusal(code)
        ELSE [is |-> "verified", reasons |-> {}, id |-> p.id, hashes |-> LowerAll(now.hashes),
              rate |-> now.rate, config |-> Lower(now.config), trust |-> verifier.trust]

\* bind_calibration_profile: what disagrees is told before any signature is looked at;
\* without a verifier the answer is a legacy binding.
Bind(doc, verifier, now) ==
    IF Malformed(doc) THEN Refusal("INVALID")
    ELSE LET p == Normal(doc)
             told == {t.code : t \in {x \in {Test(now.id \notin {Blank, p.id}, "PROFILE_MISMATCH"),
                                             Test(now.rate \notin p.rates, "SOURCE_RATE_MISMATCH"),
                                             Test(~Matches(p, now.hashes), "MODEL_HASH_MISMATCH")} : x.fails}}
         IN  IF told # {} \/ verifier.trust = "NONE" THEN Legacy(told) ELSE Verify(p, verifier, now)

-----------------------------------------------------------------------------
(* A run's diagnostics against a binding *)

\* mismatch_reason_codes; the diagnostics need not say everything.
Mismatches(binding, seen) ==
    {t.code : t \in {x \in {
       Test(seen.id = Blank \/ seen.hashes = << >> \/ seen.rate = 0 \/ seen.config = Blank, "UNBOUND"),
       Test(seen.id \notin {Blank, binding.id}, "PROFILE_MISMATCH"),
       Test(seen.hashes # << >> /\ LowerAll(seen.hashes) # binding.hashes, "MODEL_HASH_MISMATCH"),
       Test(seen.rate \notin {0, binding.rate}, "SOURCE_RATE_MISMATCH"),
       Test(seen.config # Blank /\ Lower(seen.config) # binding.config, "CONFIG_HASH_MISMATCH")} : x.fails}}

\* quality._calibration_reason_codes: what keeps the gate from a PASS.
GateReasons(binding, seen) ==
    CASE binding.is = "verified" -> IF binding.trust # "RELEASE" THEN {"UNVERIFIED"}
                                    ELSE Mismatches(binding, seen)
      [] binding.is = "legacy"   -> {"UNVERIFIED"}
      [] OTHER                   -> binding.reasons

-----------------------------------------------------------------------------
(* What that is for *)

Signed(doc, key) ==
    LET content == [Normal(doc) EXCEPT !.key = key]
    IN  [content EXCEPT !.signature = [is |-> "signed", by |-> key,
           of |-> [field \in DOMAIN doc \ {"signature"} |-> content[field]]]]

\* Exactly the content that a release key signed, whole, for what runs and what ran.
Vouched(doc, verifier) ==
    /\ verifier.trust = "RELEASE" /\ doc.key \in verifier.keys
    /\ doc.signature.is = "signed" /\ doc.signature.by = doc.key
    /\ \A field \in DOMAIN doc \ {"signature"} : doc.signature.of[field] = Normal(doc)[field]
    /\ doc.provenance = "complete" /\ doc.thresholds # {} /\ doc.schema = "1"
    /\ Blank \notin {doc.id, doc.version, doc.approver, doc.key}
    /\ \A rate \in doc.rates : rate > 0
    /\ {doc.dataset, doc.scorer, doc.config} \cup {doc.hashes[m] : m \in DOMAIN doc.hashes} \subseteq {"a", "A", "b", "B"}
    /\ DOMAIN doc.hashes # {}

Agrees(doc, now) ==
    /\ DOMAIN now.hashes = DOMAIN doc.hashes
    /\ \A m \in DOMAIN doc.hashes : Lower(now.hashes[m]) = Lower(doc.hashes[m])
    /\ now.rate \in doc.rates /\ Lower(now.config) = Lower(doc.config)

AuthorityIsVouchedFor(doc, verifier, now, seen) ==
    LET binding == Bind(doc, verifier, now)
    IN  /\ GateReasons(binding, seen) = {} <=>
             /\ Vouched(doc, verifier)
             /\ Agrees(doc, now) /\ now.id \in {Blank, doc.id}
             /\ Agrees(doc, seen) /\ seen.id = doc.id /\ seen.rate = now.rate
        \* a verified binding never was a legacy mismatch
        /\ binding.is = "verified" =>
             Bind(doc, [verifier EXCEPT !.trust = "NONE"], now).is = "legacy"
=============================================================================
