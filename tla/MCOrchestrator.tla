---------------------------- MODULE MCOrchestrator ----------------------------
(***************************************************************************)
(* Instances of Orchestrator for TLC.                                      *)
(***************************************************************************)
EXTENDS Orchestrator

CONSTANTS c1, c2, o1, o2

Shared == [c \in Callers |-> o1]
Separate == [c \in Callers |-> IF c = c1 THEN o1 ELSE o2]

\* Two threads on one orchestrator with the built-in backend; two orchestrators
\* that compete for the decoder; injected backends and an enhancement hook.
SharedSetups ==
    {[backend |-> "builtin", pack |-> "release", calibration |-> "release",
      profileMatches |-> TRUE, stt |-> FALSE, enhancement |-> "off",
      uses |-> Shared],
     [backend |-> "injected", pack |-> "release", calibration |-> "release",
      profileMatches |-> TRUE, stt |-> FALSE, enhancement |-> "hook",
      uses |-> Shared],
     [backend |-> "factory", pack |-> "release", calibration |-> "verified",
      profileMatches |-> FALSE, stt |-> TRUE, enhancement |-> "missing",
      uses |-> Shared]}

Contending(uses) ==
    [backend |-> "builtin", pack |-> "release", calibration |-> "release",
     profileMatches |-> TRUE, stt |-> TRUE, enhancement |-> "off",
     uses |-> uses]

LiveSetups == {Contending(Shared), Contending(Separate)}
SeparateSetups == {Contending(Separate)}

Envelope == [decision |-> "H2_CONFIRMED", speakers |-> 2]
OneEnvelope == {Envelope}
AllRequests == [supplied : BOOLEAN, bindings : BOOLEAN,
                evidence : {FullEvidence}]
PlainRequests == [supplied : BOOLEAN, bindings : {FALSE},
                  evidence : {NoEvidence}]
=============================================================================
