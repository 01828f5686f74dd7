--------------------------- MODULE MCAttestedTls ---------------------------
(* AttestedTls for TLC: builds of the relay on several hosts, every kind of *)
(* client, and the two strict clients for the run about time.               *)
EXTENDS AttestedTls, TLC

CONSTANTS h1, h2
Symmetric == Permutations({h1, h2})

MCImages == {"released", "other"}
MCConfigs == {"pinned", "changed"}
All == {"gcp", "sev", "mock"}

\* A chip that signs with a VLEK and sends the certificate along, and a report in
\* its name that another key signed.
Vlek == [id |-> "a", key |-> "a", product |-> "Genoa", signer |-> "vlek", embedded |-> TRUE]
MCPlatforms == {Vlek, [Vlek EXCEPT !.key = "own"]}
MCProducts == <<"Milan", "Genoa">>
OneProduct == <<"Genoa">>

Bare(features) ==
  [features |-> features, cs_env |-> FALSE, launcher |-> FALSE, tdx |-> FALSE,
   sev |-> "none", dev_mock |-> FALSE, mock_in_snp |-> FALSE, platform |-> Vlek]
SpaceHost == [Bare({"gcp"}) EXCEPT !.launcher = TRUE]
SnpHost   == [Bare(All) EXCEPT !.sev = "sev-guest", !.dev_mock = TRUE]
MockHost  == [SnpHost EXCEPT !.mock_in_snp = TRUE]
NoLauncher == [Bare(All) EXCEPT !.cs_env = TRUE, !.sev = "sev-guest"]

Build(host, image, config, debug) ==
  [host |-> host, image |-> image, config |-> config, debug |-> debug]
MCBuilds ==
  {Build(host, b[1], b[2], b[3]) : host \in {SpaceHost, SnpHost},
     b \in {<<"released", "pinned", FALSE>>, <<"released", "changed", FALSE>>,
            <<"other", "pinned", FALSE>>, <<"released", "pinned", TRUE>>}}
    \cup {Build(MockHost, "released", "pinned", FALSE), Build(NoLauncher, "released", "pinned", FALSE)}
StrictBuilds == {Build(SpaceHost, "released", "pinned", FALSE), Build(SnpHost, "released", "pinned", FALSE)}
TimeImages == {"released"}
TimeConfigs == {"pinned"}

Proxy(backend, audit, image, config, features) ==
  [app |-> "proxy", backend |-> backend, allow_audit |-> audit, features |-> features,
   measurement |-> IF backend = "gcp" THEN Unpinned ELSE image,
   digest |-> IF backend = "gcp" THEN image ELSE Unpinned, config |-> config]
Sdk(policy_, verifier, config, features) ==
  [app |-> "sdk", policy |-> policy_, verifier |-> verifier, config |-> config,
   features |-> features, measurement |-> "released", digest |-> "released"]
Check(backend, mode, image, config, features) ==
  [app |-> "check", backend |-> backend, mode |-> mode, print_only |-> FALSE, health |-> FALSE,
   measurement |-> IF backend = "gcp" THEN Unpinned ELSE image,
   digest |-> IF backend = "gcp" THEN image ELSE Unpinned, config |-> config,
   inputs |-> "pinned", features |-> features]
MCChecks ==
  {Check("gcp", "strict", "released", "pinned", All), Check("gcp", "audit", Unpinned, "pinned", All),
   Check("gcp", "audit", Unpinned, Unpinned, All), Check("gcp", "strict", Unpinned, "pinned", All),
   Check("gcp", "strict", Malformed, "pinned", All),
   Check("sev", "audit", "released", "pinned", All), Check("sev", "strict", "released", "pinned", {"gcp"}),
   [Check("sev", "strict", "released", Unpinned, All) EXCEPT !.health = TRUE],
   [Check("sev", "strict", Unpinned, Unpinned, All) EXCEPT !.print_only = TRUE],
   [Check("gcp", "strict", "released", Unpinned, All) EXCEPT !.inputs = Malformed]}

\* Strict and audit clients, builds without the feature that is needed, a verifier
\* that contradicts the policy, and command lines that must not start.
MCClients ==
  {Proxy("gcp", FALSE, "released", "pinned", All), Proxy("sev", FALSE, "released", "pinned", All),
   Proxy("gcp", TRUE, "released", Unpinned, All), Proxy("sev", TRUE, Unpinned, "pinned", All),
   Proxy("gcp", FALSE, Unpinned, "pinned", All), Proxy("gcp", FALSE, Malformed, "pinned", All),
   Proxy("sev", FALSE, "released", Unpinned, All), Proxy("gcp", FALSE, "released", "pinned", {}),
   Proxy("mock", FALSE, "released", "pinned", All),
   Sdk("Strict", NoVerifier, "pinned", {"sev"}), Sdk("Strict", NoVerifier, "pinned", {"mock"}),
   Sdk("GcpConfidentialSpace", NoVerifier, "pinned", {"gcp"}),
   Sdk("GcpConfidentialSpace", NoVerifier, Unpinned, {"gcp"}),
   Sdk("GcpConfidentialSpace", Measuring("sev"), "pinned", {"gcp"}),
   Sdk("Audit", NoVerifier, Unpinned, {"sev"}), Sdk("Audit", NoVerifier, Unpinned, {"mock"}),
   Sdk("TrustOnFirstUse", NoVerifier, "pinned", {"sev"}),
   Sdk("MockDev", Measuring("sev"), Unpinned, {"mock"})} \cup MCChecks

StrictClients == {Proxy("gcp", FALSE, "released", "pinned", All), Proxy("sev", FALSE, "released", "pinned", All)}
=============================================================================
