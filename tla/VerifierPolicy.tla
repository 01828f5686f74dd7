--------------------------- MODULE VerifierPolicy ---------------------------
(***************************************************************************)
(* From a command line or a builder to the checks of a handshake: what the *)
(* local proxy's main, the SDK's TrustedRelayClientBuilder::build and the  *)
(* online check's main make of their inputs, and which attester the relay  *)
(* selects on its host.                                                    *)
(*                                                                         *)
(* A verifier is [tee, enforce, image]: the kind of evidence it takes,     *)
(* whether it enforces the workload's identity, and the identity (an image *)
(* digest or signature key) it was given.  The policy of a client adds the *)
(* pinned configuration, and whether the verifier runs inside the TLS      *)
(* handshake; its image is what the verifier really compares.              *)
(***************************************************************************)
CONSTANTS
  Unpinned,    \* a pin that was not given
  Malformed    \* a pin that does not parse

NoVerifier == [tee |-> "none", enforce |-> FALSE, image |-> Unpinned]
Measuring(tee) == [tee |-> tee, enforce |-> FALSE, image |-> Unpinned]

\* GcpConfidentialSpaceVerifier::new, which runs policy.validate(), and new_audit,
\* which keeps any image and compares none.
GcpVerifier(image) ==
  IF image \in {Unpinned, Malformed}
    THEN NoVerifier
    ELSE [tee |-> "gcp", enforce |-> TRUE, image |-> image]
GcpAuditVerifier(image) == [tee |-> "gcp", enforce |-> FALSE, image |-> image]

\* attested_client_config: a measurement reaches the backends that compare one;
\* for a token the verifier's own policy decides.
PolicyWith(verifier, measurement, config) ==
  [tee |-> verifier.tee, enforce |-> verifier.enforce, config |-> config, inline |-> TRUE,
   image |-> IF verifier.tee = "gcp" THEN verifier.image ELSE measurement]

\* A client whose start-up failed.
NoPolicy == PolicyWith(NoVerifier, Unpinned, Unpinned)
-----------------------------------------------------------------------------
(* trusted-relay-local: [app, backend, allow_audit, measurement, digest,    *)
(* config, features].                                                       *)

VerifierForBackend(cli) ==
  IF cli.backend \notin cli.features
    THEN NoVerifier
    ELSE CASE cli.backend # "gcp" -> Measuring(cli.backend)
           [] cli.backend = "gcp" /\ cli.allow_audit -> GcpAuditVerifier(cli.digest)
           [] cli.backend = "gcp" /\ ~cli.allow_audit -> GcpVerifier(cli.digest)

\* A pin is parsed if it is given, and must be given unless the client audits.
PinOk(cli, pin) == pin # Malformed /\ (pin = Unpinned => cli.allow_audit)

\* Slip: the configuration is handed on in the wrong branch.
LocalProxyPolicySwapped(cli) ==
  IF /\ VerifierForBackend(cli) # NoVerifier
     /\ cli.backend # "gcp" => PinOk(cli, cli.measurement)
     /\ PinOk(cli, cli.config)
    THEN PolicyWith(VerifierForBackend(cli), cli.measurement,
                    IF cli.allow_audit THEN cli.config ELSE Unpinned)
    ELSE NoPolicy

LocalProxyPolicy(cli) ==
  IF /\ VerifierForBackend(cli) # NoVerifier
     /\ cli.backend # "gcp" => PinOk(cli, cli.measurement)
     /\ PinOk(cli, cli.config)
    THEN PolicyWith(VerifierForBackend(cli), cli.measurement, cli.config)
    ELSE NoPolicy
-----------------------------------------------------------------------------
(* TrustedRelayClientBuilder: [app, policy, verifier, measurement, digest,  *)
(* config, features].                                                       *)

\* What a policy selects by itself, if the build has the feature.
DefaultVerifier(b) ==
  CASE b.policy = "GcpConfidentialSpace" /\ "gcp" \in b.features -> GcpVerifier(b.digest)
    [] b.policy \in {"Strict", "Audit"} /\ "sev" \in b.features -> Measuring("sev")
    [] OTHER -> NoVerifier

ExplicitOr(b, v) == IF b.verifier # NoVerifier THEN b.verifier ELSE v

\* Slip: without a TEE feature, Audit falls back to the mock.
SdkVerifierFallback(b) ==
  CASE b.policy = "MockDev" /\ "mock" \in b.features -> Measuring("mock")
    [] b.policy \in {"GcpConfidentialSpace", "Strict"} -> ExplicitOr(b, DefaultVerifier(b))
    [] b.policy = "Audit" ->
         ExplicitOr(b, IF "sev" \in b.features THEN Measuring("sev") ELSE Measuring("mock"))
    [] OTHER -> NoVerifier

\* The mock serves MockDev alone, which ignores an explicit verifier; trust on
\* first use is not implemented.
SdkVerifier(b) ==
  CASE b.policy = "MockDev" /\ "mock" \in b.features -> Measuring("mock")
    [] b.policy \in {"GcpConfidentialSpace", "Strict", "Audit"} -> ExplicitOr(b, DefaultVerifier(b))
    [] OTHER -> NoVerifier

SdkPolicy(b) ==
  IF /\ SdkVerifier(b) # NoVerifier
     /\ b.policy \in {"Strict", "GcpConfidentialSpace"} => b.config # Unpinned
    THEN PolicyWith(SdkVerifier(b), IF b.policy = "Strict" THEN b.measurement ELSE Unpinned, b.config)
    ELSE NoPolicy

-----------------------------------------------------------------------------
(* trusted-relay-online-check: [app, backend, mode, print_only, health,     *)
(* measurement, digest, config, inputs, features]; inputs stands for the    *)
(* server settings on its command line and the configuration they make.     *)

\* The configuration half that is compared when no hash is known: no relay binds it.
ZeroHash == "zeros"

\* The hash that was given, else the one computed from the settings, which audit
\* mode does not compute.
CheckConfig(c) ==
  CASE c.config # Unpinned -> c.config
    [] c.config = Unpinned /\ (c.mode = "strict" \/ c.print_only) -> c.inputs
    [] OTHER -> Unpinned

\* What main refuses before it connects.
CheckStarts(c) ==
  /\ c.measurement # Malformed /\ CheckConfig(c) # Malformed
  /\ c.mode = "strict" /\ ~c.print_only =>
       IF c.backend = "gcp" THEN c.digest # Unpinned ELSE c.measurement # Unpinned

\* After the connection: nothing is verified for --print-only or without the feature.
CheckVerifier(c) ==
  IF c.print_only \/ c.backend \notin c.features
    THEN NoVerifier
    ELSE CASE c.backend = "sev" -> Measuring(c.backend)
           [] c.backend = "gcp" /\ c.mode = "audit" -> GcpAuditVerifier(c.digest)
           [] c.backend = "gcp" /\ c.mode = "strict" -> GcpVerifier(c.digest)

\* Slip: the two arms of the mode are exchanged.
CheckPinsSwapped(c) ==
  IF c.backend = "gcp"
    THEN [measurement |-> Unpinned,
          config |-> IF CheckConfig(c) = Unpinned THEN ZeroHash ELSE CheckConfig(c)]
    ELSE [measurement |-> IF c.mode = "strict" THEN c.measurement ELSE Unpinned,
          config |-> IF c.mode = "audit" THEN CheckConfig(c) ELSE Unpinned]

\* The whole REPORTDATA of a token is compared in both modes, zeros for a hash that
\* is not known; a report's configuration and measurement in strict mode.
CheckPins(c) ==
  IF c.backend = "gcp"
    THEN [measurement |-> Unpinned,
          config |-> IF CheckConfig(c) = Unpinned THEN ZeroHash ELSE CheckConfig(c)]
    ELSE [measurement |-> IF c.mode = "strict" THEN c.measurement ELSE Unpinned,
          config |-> IF c.mode = "strict" THEN CheckConfig(c) ELSE Unpinned]

CheckPolicy(c) ==
  IF CheckStarts(c)
    THEN [PolicyWith(CheckVerifier(c), CheckPins(c).measurement, CheckPins(c).config)
            EXCEPT !.inline = FALSE]
    ELSE NoPolicy

ClientPolicy(c) ==
  CASE c.app = "proxy" -> LocalProxyPolicy(c)
    [] c.app = "sdk" -> SdkPolicy(c)
    [] c.app = "check" -> CheckPolicy(c)
-----------------------------------------------------------------------------
(* The relay's host: [features, cs_env, launcher, tdx, sev, dev_mock,       *)
(* mock_in_snp]; and the SNP platform it has, see CertCache.                *)

\* select_attester, in the order of its tests; "none" is a panic.
SelectAttester(h) ==
  LET gcp  == "gcp" \in h.features /\ (h.cs_env \/ h.launcher)
      tdx  == "tdx" \in h.features /\ h.tdx
      snp  == "sev" \in h.features /\ h.sev # "none"
      mock == "mock" \in h.features /\ h.dev_mock /\ (snp => h.mock_in_snp)
  IN  IF gcp THEN "gcp" ELSE IF tdx THEN "tdx"
      ELSE IF mock THEN "mock" ELSE IF snp THEN "sev" ELSE "none"

\* attest() needs its device; for TDX it is a stub.
CanAttest(h) ==
  CASE SelectAttester(h) = "gcp" -> h.launcher
    [] SelectAttester(h) = "sev" -> h.sev = "sev-guest"
    [] OTHER -> SelectAttester(h) = "mock"
=============================================================================
