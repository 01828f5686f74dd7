------------------------- MODULE AttestedTlsProofs -------------------------
(***************************************************************************)
(* Attested TLS for any number of handshakes, runs of the relay, builds,   *)
(* clients, products and platforms, and any lifetimes: whatever evidence a *)
(* server shows, a connection that is open ends in the run of the relay    *)
(* that the client's policy asks for.                                      *)
(***************************************************************************)
EXTENDS AttestedTls, JwksCacheProofs, CertCacheProofs

ConnRecords ==
  [pc : {"idle", "asking", "captured", "verifying", "verified", "open", "reported", "over"},
   key : 0 .. MaxRuns, evidence : EvidenceSet \cup {NoEvidence}, at : 0 .. MaxTime]

\* ConnInv of one connection c and the report check q of its handshake.
ConnOk(c, q) ==
  LET e == c.evidence
  IN  /\ c.at <= now
      /\ e \in issued \/ e = NoEvidence \/ Forged(e)
      /\ c.pc = "verifying" => Handled(e)
      /\ q.pc \in {"lookup", "asked", "answered", "endorsed"} =>
           c.pc = "verifying" /\ e.tee = "sev" /\ e.platform = q.platform
      /\ c.pc \in {"verified", "open", "reported"} =>
           /\ e.tee = policy.tee /\ e.tee # "none"
           /\ policy.tee # "mock" => e \in issued /\ e.key = c.key /\ Meets(e)
           /\ policy.tee = "gcp" =>
                /\ c.at <= e.exp + Skew
                /\ e.kid \in published \/ withdrawn[e.kid] >= c.at - (Ttl - 1) - FetchTimeout
      /\ c.pc = "open" => policy.inline /\ (policy.tee # "mock" => up /\ c.key = run)
      /\ c.pc = "reported" => ~policy.inline

\* CertsNameTheirChip of one check and of one entry.
ChipOk(q) ==
  /\ q.pc = "answered" /\ q.stage = "leaf" /\ q.bytes.what = "leaf" => q.bytes.chip = q.platform.id
  /\ q.pc \in {"lookup", "asked", "answered"} /\ q.stage = "chain" /\ q.leaf.what = "leaf" =>
       q.leaf.chip = q.platform.id
  /\ q.pc = "endorsed" => q.platform.key = q.platform.id
EntryOk(u, b) == u[1] = "leaf" /\ b.what = "leaf" => b.chip = u[3]

RelayInv ==
  /\ client \in Clients
  /\ up \in BOOLEAN /\ run \in 0 .. MaxRuns
  /\ issued \subseteq EvidenceSet
  /\ IssuedInv

\* The invariant by parts, and the same in the next state.
LEMMA TlsParts ==
  /\ TlsInv <=>
       /\ CacheInv /\ CertInv /\ RelayInv
       /\ \A u \in CertUrls : EntryOk(u, certCache[u].bytes)
       /\ \A h \in Handshakes : ChipOk(endorse[h])
       /\ conn \in [Handshakes -> ConnRecords]
       /\ \A h \in Handshakes : ConnOk(conn[h], endorse[h])
  /\ TlsInv' <=>
       /\ CacheInv' /\ CertInv' /\ RelayInv'
       /\ \A u \in CertUrls : EntryOk(u, certCache'[u].bytes)
       /\ \A h \in Handshakes : ChipOk(endorse'[h])
       /\ conn' \in [Handshakes -> ConnRecords]
       /\ \A h \in Handshakes : ConnOk(conn[h], endorse[h])'
<1>1. CacheInv => CacheTypeOK BY DEF CacheInv
<1>2. CertInv => CertTypeOK BY DEF CertInv
<1>3. CacheInv' => CacheTypeOK' BY DEF CacheInv
<1>4. CertInv' => CertTypeOK' BY DEF CertInv
<1>5. CertsNameTheirChip <=>
       /\ \A u \in CertUrls : EntryOk(u, certCache[u].bytes)
       /\ \A h \in Handshakes : ChipOk(endorse[h])
  BY DEF CertsNameTheirChip, EntryOk, ChipOk
<1>6. CertsNameTheirChip' <=>
       /\ \A u \in CertUrls : EntryOk(u, certCache'[u].bytes)
       /\ \A h \in Handshakes : ChipOk(endorse'[h])
  BY DEF CertsNameTheirChip, EntryOk, ChipOk
<1>7. \A h \in Handshakes : ConnInv(h) <=> ConnOk(conn[h], endorse[h])
  BY DEF ConnInv, ConnOk
<1>8. \A h \in Handshakes : ConnInv(h)' <=> ConnOk(conn[h], endorse[h])'
  BY DEF ConnInv, ConnOk
<1> QED
  BY <1>1, <1>2, <1>3, <1>4, <1>5, <1>6, <1>7, <1>8 DEF TlsInv, TypeOK, RelayInv, ConnRecords

-----------------------------------------------------------------------------
(* Policies.                                                                *)

\* What every start-up makes of its inputs.
LEMMA PolicyFacts ==
  ASSUME client \in Clients
  PROVE  /\ policy.tee # "gcp" => ~policy.enforce
         /\ policy.tee # "none" => (policy.inline <=> client.app # "check")
         /\ client.app \in {"proxy", "sdk", "check"}
<1>1. CASE client.app = "proxy"
  BY <1>1, ClientsAssumption
     DEF policy, ClientPolicy, LocalProxyPolicy, VerifierForBackend, GcpAuditVerifier, GcpVerifier,
         Measuring, NoVerifier, PolicyWith, NoPolicy
<1>2. CASE client.app = "sdk"
  BY <1>2, ClientsAssumption
     DEF policy, ClientPolicy, SdkPolicy, SdkVerifier, DefaultVerifier, ExplicitOr, GcpVerifier,
         Measuring, NoVerifier, PolicyWith, NoPolicy
<1>3. CASE client.app = "check"
  BY <1>3, ClientsAssumption
     DEF policy, ClientPolicy, CheckPolicy, CheckVerifier, CheckPins, GcpVerifier, GcpAuditVerifier,
         Measuring, NoVerifier, PolicyWith, NoPolicy
<1> QED BY <1>1, <1>2, <1>3, ClientsAssumption

\* The evidence a client that did not ask for the mock takes.
LEMMA MockPolicy ==
  ASSUME client \in Clients, ~AsksForMock(client)
  PROVE  policy.tee # "mock"
<1>1. CASE client.app = "proxy"
  BY <1>1, ClientsAssumption
     DEF policy, ClientPolicy, LocalProxyPolicy, VerifierForBackend, GcpAuditVerifier, GcpVerifier,
         Measuring, NoVerifier, PolicyWith, NoPolicy, AsksForMock
<1>2. CASE client.app = "sdk"
  BY <1>2, ClientsAssumption
     DEF policy, ClientPolicy, SdkPolicy, SdkVerifier, DefaultVerifier, ExplicitOr, GcpVerifier,
         Measuring, NoVerifier, PolicyWith, NoPolicy, AsksForMock
<1>3. CASE client.app = "check"
  BY <1>3, ClientsAssumption
     DEF policy, ClientPolicy, CheckPolicy, CheckVerifier, CheckPins, GcpVerifier, GcpAuditVerifier,
         Measuring, NoVerifier, PolicyWith, NoPolicy
<1> QED BY <1>1, <1>2, <1>3, PolicyFacts

\* The pins of a strict client that runs: an identity that the handshake compares,
\* and the configuration.
PinsKept(asked) ==
  /\ policy.tee \in {"gcp", "sev"}
  /\ policy.config = asked /\ asked # Unpinned
  /\ policy.image = IdentityAsked(client)
  /\ policy.enforce \/ (policy.tee = "sev" /\ policy.image # Unpinned)

LEMMA StrictProxy ==
  ASSUME client \in Clients, client.app = "proxy", Strict(client), policy.tee # "none"
  PROVE  PinsKept(client.config)
<1>1. client.backend \in Tees /\ client.backend # "mock" /\ ~client.allow_audit
  BY ClientsAssumption DEF Strict
<1>2. policy = PolicyWith(VerifierForBackend(client), client.measurement, client.config)
      /\ client.config # Unpinned /\ (client.backend # "gcp" => client.measurement # Unpinned)
      /\ VerifierForBackend(client) # NoVerifier
  BY <1>1 DEF policy, ClientPolicy, LocalProxyPolicy, NoPolicy, NoVerifier, PolicyWith, PinOk
<1>3. CASE client.backend = "gcp"
  <2>1. VerifierForBackend(client) = [tee |-> "gcp", enforce |-> TRUE, image |-> client.digest]
    BY <1>1, <1>2, <1>3 DEF VerifierForBackend, GcpVerifier
  <2> QED BY <1>2, <1>3, <2>1 DEF PinsKept, PolicyWith, IdentityAsked, AsksForToken
<1>4. CASE client.backend = "sev"
  <2>1. VerifierForBackend(client) = Measuring("sev")
    BY <1>1, <1>2, <1>4 DEF VerifierForBackend
  <2> QED BY <1>2, <1>4, <2>1 DEF PinsKept, PolicyWith, IdentityAsked, AsksForToken, Measuring
<1> QED BY <1>1, <1>3, <1>4 DEF Tees

LEMMA StrictSdk ==
  ASSUME client \in Clients, client.app = "sdk", Strict(client), policy.tee # "none"
  PROVE  PinsKept(client.config)
<1>1. client.policy \in {"Strict", "GcpConfidentialSpace"} /\ client.verifier = NoVerifier
      /\ client.measurement # Unpinned
  BY ClientsAssumption DEF Strict
<1>2. /\ SdkVerifier(client) # NoVerifier /\ client.config # Unpinned
      /\ policy = PolicyWith(SdkVerifier(client),
                    IF client.policy = "Strict" THEN client.measurement ELSE Unpinned, client.config)
  BY <1>1 DEF policy, ClientPolicy, SdkPolicy, NoPolicy, NoVerifier, PolicyWith
<1>3. SdkVerifier(client) = DefaultVerifier(client)
  BY <1>1 DEF SdkVerifier, ExplicitOr
<1>4. CASE client.policy = "GcpConfidentialSpace"
  <2>1. SdkVerifier(client) = [tee |-> "gcp", enforce |-> TRUE, image |-> client.digest]
    BY <1>2, <1>3, <1>4 DEF DefaultVerifier, GcpVerifier
  <2> QED BY <1>2, <1>4, <2>1 DEF PinsKept, PolicyWith, IdentityAsked, AsksForToken
<1>5. CASE client.policy = "Strict"
  <2>1. SdkVerifier(client) = Measuring("sev")
    BY <1>2, <1>3, <1>5 DEF DefaultVerifier
  <2> QED BY <1>1, <1>2, <1>5, <2>1 DEF PinsKept, PolicyWith, IdentityAsked, AsksForToken, Measuring
<1> QED BY <1>1, <1>4, <1>5

\* The online check, in either mode, is told the kind of evidence; in strict mode it
\* keeps its pins too.
LEMMA CheckPolicyFacts ==
  ASSUME client \in Clients, client.app = "check", policy.tee # "none"
  PROVE  /\ policy.tee = client.backend /\ policy.tee \in {"gcp", "sev"}
         /\ Strict(client) => PinsKept(ConfigAsked(client))
<1>1. client.backend \in {"gcp", "sev"} /\ client.mode \in {"audit", "strict"}
      /\ client.print_only \in BOOLEAN /\ client.inputs # Unpinned
  BY ClientsAssumption
<1>2. /\ CheckStarts(client)
      /\ policy = [PolicyWith(CheckVerifier(client), CheckPins(client).measurement,
                              CheckPins(client).config) EXCEPT !.inline = FALSE]
  BY DEF policy, ClientPolicy, CheckPolicy, NoPolicy, NoVerifier, PolicyWith
<1>3. /\ policy.tee = CheckVerifier(client).tee /\ policy.enforce = CheckVerifier(client).enforce
      /\ policy.config = CheckPins(client).config
      /\ policy.image = IF CheckVerifier(client).tee = "gcp" THEN CheckVerifier(client).image
                        ELSE CheckPins(client).measurement
  BY <1>2 DEF PolicyWith
<1>4. ~client.print_only /\ CheckVerifier(client) # NoVerifier
  <2>1. CheckVerifier(client) # NoVerifier BY <1>3 DEF NoVerifier
  <2>2. client.print_only => CheckVerifier(client) = NoVerifier BY DEF CheckVerifier
  <2> QED BY <2>1, <2>2
<1>5. policy.tee = client.backend
  BY <1>1, <1>3, <1>4 DEF CheckVerifier, GcpVerifier, GcpAuditVerifier, Measuring, NoVerifier
<1>6. ASSUME Strict(client) PROVE PinsKept(ConfigAsked(client))
  <2>1. client.mode = "strict" BY <1>6 DEF Strict
  <2>2. CheckConfig(client) = ConfigAsked(client) /\ ConfigAsked(client) # Unpinned
    BY <1>1, <2>1 DEF CheckConfig, ConfigAsked
  <2>3. CheckPins(client).config = ConfigAsked(client)
    BY <1>1, <2>1, <2>2 DEF CheckPins
  <2>4. CASE client.backend = "gcp"
    <3>1. CheckVerifier(client) = [tee |-> "gcp", enforce |-> TRUE, image |-> client.digest]
      BY <1>1, <1>4, <2>1, <2>4 DEF CheckVerifier, GcpVerifier
    <3> QED BY <1>3, <2>2, <2>3, <2>4, <3>1 DEF PinsKept, IdentityAsked, AsksForToken
  <2>5. CASE client.backend = "sev"
    <3>1. CheckVerifier(client) = Measuring("sev")
      BY <1>1, <1>4, <2>5 DEF CheckVerifier
    <3>2. CheckPins(client).measurement = client.measurement /\ client.measurement # Unpinned
      BY <1>2, <1>4, <2>1, <2>5 DEF CheckPins, CheckStarts
    <3> QED BY <1>3, <2>2, <2>3, <2>5, <3>1, <3>2 DEF PinsKept, IdentityAsked, AsksForToken, Measuring
  <2> QED BY <1>1, <2>4, <2>5
<1> QED BY <1>1, <1>5, <1>6

-----------------------------------------------------------------------------
(* The properties follow from the invariant.                                *)

\* A run is what its one piece of evidence says.
LEMMA RunIsItsEvidence ==
  ASSUME IssuedInv, NEW e \in issued
  PROVE  RunOf(e.key) = e
BY DEF IssuedInv, RunOf

\* Evidence that was accepted, other than a mock quote, is that of a run that meets
\* the policy.
LEMMA AcceptedRun ==
  ASSUME TlsInv, NEW h \in Handshakes, conn[h].pc \in {"verified", "open", "reported"},
         policy.tee # "mock"
  PROVE  /\ conn[h].evidence \in issued /\ RunOf(conn[h].key) = conn[h].evidence
         /\ conn[h].key \in 1 .. run /\ Meets(conn[h].evidence)
<1>1. ConnOk(conn[h], endorse[h]) /\ IssuedInv BY TlsParts DEF RelayInv
<1>2. conn[h].evidence \in issued /\ conn[h].evidence.key = conn[h].key /\ Meets(conn[h].evidence)
  BY <1>1 DEF ConnOk
<1> QED BY <1>1, <1>2, RunIsItsEvidence DEF IssuedInv

LEMMA InvChannel == TlsInv => ChannelEndsInPinnedRelay
<1> SUFFICES ASSUME TlsInv, NEW h \in Handshakes, conn[h].pc = "open", policy.tee # "mock"
             PROVE  up /\ conn[h].key = run /\ Meets(RunOf(run))
  BY DEF ChannelEndsInPinnedRelay
<1>1. up /\ conn[h].key = run BY TlsParts DEF ConnOk
<1> QED BY <1>1, AcceptedRun

LEMMA PinsAreMet ==
  ASSUME NEW asked, PinsKept(asked), NEW e, Meets(e)
  PROVE  e.config = asked /\ e.image = IdentityAsked(client)
BY DEF PinsKept, Meets

LEMMA InvStrict == TlsInv => StrictClientsGetTheirPins
<1> SUFFICES ASSUME TlsInv, NEW h \in Handshakes, conn[h].pc = "open", Strict(client)
             PROVE  /\ up /\ conn[h].key = run
                    /\ RunOf(run).config = client.config
                    /\ RunOf(run).image = IdentityAsked(client)
  BY DEF StrictClientsGetTheirPins
<1>1. client \in Clients BY TlsParts DEF RelayInv
<1>2. policy.inline /\ policy.tee # "none"
  BY TlsParts DEF ConnOk
<1>3. client.app \in {"proxy", "sdk"} BY <1>1, <1>2, PolicyFacts
<1>4. PinsKept(client.config) BY <1>1, <1>2, <1>3, StrictProxy, StrictSdk
<1>5. policy.tee # "mock" BY <1>4 DEF PinsKept
<1>6. up /\ conn[h].key = run /\ Meets(RunOf(run))
  BY <1>5, InvChannel DEF ChannelEndsInPinnedRelay
<1> QED BY <1>4, <1>6, PinsAreMet

LEMMA InvCheck == TlsInv => CheckSpeaksTruth
<1> SUFFICES ASSUME TlsInv, NEW h \in Handshakes, conn[h].pc = "reported"
             PROVE  LET r == RunOf(conn[h].key) IN
                    /\ conn[h].key # 0 /\ r.tee = client.backend /\ ~r.debug
                    /\ Strict(client) =>
                         r.config = ConfigAsked(client) /\ r.image = IdentityAsked(client)
  BY DEF CheckSpeaksTruth
<1>1. client \in Clients /\ run \in 0 .. MaxRuns BY TlsParts DEF RelayInv
<1>2. ~policy.inline /\ policy.tee # "none"
  BY TlsParts DEF ConnOk
<1>3. client.app = "check" BY <1>1, <1>2, PolicyFacts
<1>4. policy.tee = client.backend /\ policy.tee \in {"gcp", "sev"}
  BY <1>1, <1>2, <1>3, CheckPolicyFacts
<1>5. conn[h].key # 0 /\ Meets(RunOf(conn[h].key))
  BY <1>1, <1>4, AcceptedRun
<1>6. Strict(client) => PinsKept(ConfigAsked(client))
  BY <1>1, <1>2, <1>3, CheckPolicyFacts
<1>7. RunOf(conn[h].key).tee = client.backend /\ ~RunOf(conn[h].key).debug
  BY <1>4, <1>5 DEF Meets
<1> QED BY <1>5, <1>6, <1>7, PinsAreMet

LEMMA InvMock == TlsInv => NeverMockUnasked
<1> SUFFICES ASSUME TlsInv, NEW h \in Handshakes, conn[h].pc \in {"open", "reported"},
                    ~AsksForMock(client)
             PROVE  conn[h].evidence.tee # "mock"
  BY DEF NeverMockUnasked
<1>1. client \in Clients BY TlsParts DEF RelayInv
<1>2. conn[h].evidence.tee = policy.tee BY TlsParts DEF ConnOk
<1> QED BY <1>1, <1>2, MockPolicy

LEMMA InvValid == TlsInv => AcceptedWhileValid
<1> SUFFICES ASSUME TlsInv, NEW h \in Handshakes, conn[h].pc \in {"verified", "open", "reported"},
                    policy.tee = "gcp"
             PROVE  LET e == RunOf(conn[h].key) IN
                    /\ conn[h].at <= e.exp + Skew
                    /\ e.kid \in published \/ withdrawn[e.kid] >= conn[h].at - (Ttl - 1) - FetchTimeout
  BY DEF AcceptedWhileValid
<1>1. RunOf(conn[h].key) = conn[h].evidence BY AcceptedRun
<1>2. ConnOk(conn[h], endorse[h]) BY TlsParts
<1> QED BY <1>1, <1>2 DEF ConnOk

-----------------------------------------------------------------------------
(* Evidence.                                                                *)

LEMMA Bounds ==
  /\ MaxTime \in Nat /\ MaxKid \in Nat /\ MaxRuns \in Nat /\ Lifetime \in Nat /\ Skew \in Nat
  /\ Ttl \in Nat /\ FetchTimeout \in Nat
BY ClockAssumption, TimeAssumption, TlsAssumption

LEMMA NoEvidenceFacts ==
  NoEvidence.tee = "none" /\ NoEvidence.key = 0 /\ NoEvidence.platform = NoPlatform
BY DEF NoEvidence

LEMMA UnusedFacts ==
  /\ \A pc \in {"idle", "over"} :
       LET c == [Unused EXCEPT !.pc = pc] IN c \in ConnRecords /\ c.pc = pc /\ c.evidence = NoEvidence /\ c.at = 0
  /\ Unused \in ConnRecords /\ Unused.pc = "idle" /\ Unused.evidence = NoEvidence /\ Unused.at = 0
<1>1. 0 \in 0 .. MaxRuns /\ 0 \in 0 .. MaxTime BY Bounds
<1> QED BY <1>1 DEF Unused, ConnRecords

\* What an attester makes for a key, and what it says of it.
LEMMA EvidenceFacts ==
  ASSUME CacheInv, NEW key \in 0 .. MaxRuns, NEW tee \in Tees, NEW build,
         build.image \in Images, build.config \in Configs, build.debug \in BOOLEAN,
         tee = "sev" => build.host.platform \in Platforms
  PROVE  LET e == Evidence(key, tee, build) IN
         /\ e \in EvidenceSet
         /\ e.key = key /\ e.tee = tee
         /\ tee = "gcp" => e.kid = latest
         /\ tee = "sev" => e.platform = build.host.platform
<1>1. now \in 0 .. MaxTime /\ latest \in 0 .. MaxKid BY InvByParts
<1>2. latest \in -1 .. MaxKid /\ 0 \in -1 .. MaxKid /\ 0 \in 0 .. MaxTime
      /\ now + Lifetime \in 0 .. MaxTime + Lifetime /\ 0 \in 0 .. MaxTime + Lifetime
  BY <1>1, Bounds
<1> QED BY <1>1, <1>2 DEF Evidence, EvidenceSet

\* What another server can show: evidence it has seen, none, or a forgery.
LEMMA ShownFacts ==
  ASSUME TlsInv, NEW e \in issued \cup {NoEvidence} \cup Selfmade
  PROVE  /\ e \in EvidenceSet \cup {NoEvidence}
         /\ e \in issued \/ e = NoEvidence \/ Forged(e)
<1>1. CacheInv /\ issued \subseteq EvidenceSet BY TlsParts DEF RelayInv
<1>2. CASE e \in Selfmade
  <2>1. PICK tee \in Tees, i \in Images, c \in Configs, p \in {q \in Platforms : q.key # q.id} :
          e = Forgery(tee, i, c, p)
    BY <1>2 DEF Selfmade
  <2> DEFINE b == [host |-> [platform |-> p], image |-> i, config |-> c, debug |-> FALSE]
             g == Evidence(0, tee, b)
  <2>2. b.image \in Images /\ b.config \in Configs /\ b.debug \in BOOLEAN /\ b.host.platform = p
    OBVIOUS
  <2>3. 0 \in 0 .. MaxRuns BY Bounds
  <2> HIDE DEF b
  <2>4. g \in EvidenceSet /\ g.key = 0 /\ g.tee = tee /\ (tee = "sev" => g.platform = p)
    BY <1>1, <2>2, <2>3, EvidenceFacts
  <2>5. e = [g EXCEPT !.kid = IF tee = "gcp" THEN -1 ELSE 0] BY <2>1 DEF b, Forgery
  <2> HIDE DEF g
  <2>6. -1 \in -1 .. MaxKid /\ 0 \in -1 .. MaxKid BY Bounds
  <2>7. e \in EvidenceSet /\ e.key = 0 /\ e.tee = tee /\ (tee = "sev" => e.platform = p)
        /\ (tee = "gcp" => e.kid = -1)
    BY <2>4, <2>5, <2>6 DEF EvidenceSet
  <2> QED BY <2>7 DEF Forged
<1> QED BY <1>1, <1>2

-----------------------------------------------------------------------------
(* Frames.                                                                  *)

LEMMA PolicyKept ==
  ASSUME UNCHANGED client
  PROVE  /\ policy' = policy
         /\ \A e : Handled(e)' <=> Handled(e)
         /\ \A e : Meets(e)' <=> Meets(e)
<1>1. policy' = policy BY DEF policy
<1> QED BY <1>1 DEF Handled, PolicyValid, ReportFits, MeasurementOk, Meets

\* What a connection has established is not lost as time passes, the issuer rotates
\* its keys and the relay starts anew.
LEMMA ConnStays ==
  ASSUME NEW c, NEW q, ConnOk(c, q), UNCHANGED client, issued \subseteq issued',
         c.at <= now', up' \in BOOLEAN,
         c.pc \in {"verified", "open", "reported"} /\ policy.tee = "gcp" =>
           LET k == c.evidence.kid
               t == c.at - (Ttl - 1) - FetchTimeout
           IN  k \in published \/ withdrawn[k] >= t => k \in published' \/ withdrawn'[k] >= t,
         c.pc = "open" /\ policy.tee # "mock" /\ up => up' /\ run' = run
  PROVE  ConnOk(c, q)'
<1>1. policy' = policy /\ (Handled(c.evidence)' <=> Handled(c.evidence))
      /\ (Meets(c.evidence)' <=> Meets(c.evidence))
  BY PolicyKept
<1> QED BY <1>1 DEF ConnOk, Forged

\* One connection c, with the report check q of its handshake, changes.
LEMMA ConnStep ==
  ASSUME TlsInv, NEW h \in Handshakes, NEW c \in ConnRecords, NEW q,
         conn' = [conn EXCEPT ![h] = c], endorse'[h] = q, ConnOk(c, q),
         \A g \in Handshakes \ {h} : endorse'[g] = endorse[g],
         UNCHANGED <<now, issuer, client, up, run, issued>>,
         CacheInv', CertInv',
         \A u \in CertUrls : EntryOk(u, certCache'[u].bytes), ChipOk(q)
  PROVE  TlsInv'
<1>1. UNCHANGED <<now, published, latest, withdrawn, client, up, run, issued>> BY DEF issuer
<1>2. RelayInv' BY <1>1, TlsParts DEF RelayInv, IssuedInv
<1>3. conn \in [Handshakes -> ConnRecords] BY TlsParts
<1>4. conn' \in [Handshakes -> ConnRecords] BY <1>3
<1>5. \A g \in Handshakes : ChipOk(endorse'[g])
  <2>1. \A g \in Handshakes : ChipOk(endorse[g]) BY TlsParts
  <2> QED BY <2>1
<1>6. ASSUME NEW g \in Handshakes PROVE ConnOk(conn[g], endorse[g])'
  <2>1. PICK d, r : d = conn'[g] /\ r = endorse'[g] OBVIOUS
  <2>2. ConnOk(d, r)
    <3>1. CASE g = h BY <1>3, <2>1, <3>1
    <3>2. CASE g # h
      <4>1. d = conn[g] /\ r = endorse[g] BY <1>3, <2>1, <3>2
      <4> QED BY <4>1, TlsParts
    <3> QED BY <3>1, <3>2
  <2>3. d.at <= now' /\ up' \in BOOLEAN BY <1>1, <2>2, TlsParts DEF ConnOk, RelayInv
  <2>4. ConnOk(d, r)' BY <1>1, <2>2, <2>3, ConnStays
  <2> QED BY <2>1, <2>4
<1> QED BY <1>2, <1>4, <1>5, <1>6, TlsParts

-----------------------------------------------------------------------------
(* The certificates of a report.                                            *)

\* A new round starts without a certificate, or with the one the evidence carries,
\* which is that of the chip the report names.
LEMMA TryChip ==
  ASSUME NEW q \in Checks, NEW n \in 1 .. Len(Products) + 1
  PROVE  LET t == Try(q, n) IN
         /\ ChipOk(t) /\ t.pc \in {"lookup", "refused"}
         /\ t.pc = "lookup" => t.platform = q.platform
<1> DEFINE p == q.platform
           round == [NoCheck EXCEPT !.pc = "lookup", !.platform = p, !.n = n]
<1>1. CASE n > Len(Products) \/ p.signer = "none" \/ (p.signer = "vlek" /\ ~p.embedded)
  <2>1. Try(q, n) = [NoCheck EXCEPT !.pc = "refused"]
    BY <1>1, Basics DEF Try
  <2> QED BY <2>1 DEF ChipOk, NoCheck
<1>2. CASE n <= Len(Products) /\ p.signer # "none" /\ p.embedded
  <2>1. Try(q, n) = [round EXCEPT !.stage = "chain", !.leaf = EmbeddedLeaf(p)]
    BY <1>2, Basics DEF Try
  <2> QED BY <2>1 DEF ChipOk, NoCheck, EmbeddedLeaf, Bytes
<1>3. CASE n <= Len(Products) /\ p.signer = "vcek" /\ ~p.embedded
  <2>1. Try(q, n) = round
    BY <1>3, Basics DEF Try
  <2> QED BY <2>1 DEF ChipOk, NoCheck
<1>4. p.embedded \in BOOLEAN /\ p.signer \in {"vcek", "vlek", "none"}
  <2>1. p \in Platforms \cup {NoPlatform} BY DEF Checks
  <2> QED BY <2>1, PlatformType
<1>5. Len(Products) \in Nat BY Basics
<1> HIDE DEF p
<1> QED BY <1>1, <1>2, <1>3, <1>4, <1>5

\* Bytes from the URL of a chip are taken for that chip's certificate; a report that
\* is endorsed by it was signed by that chip.
LEMMA TakeChip ==
  ASSUME NEW q \in Checks, NEW b \in BytesSet, ChipOk(q), q.pc \in {"lookup", "answered"},
         q.stage = "leaf" /\ b.what = "leaf" => b.chip = q.platform.id
  PROVE  LET t == Take(q, b) IN
         /\ ChipOk(t) /\ t.pc \in {"lookup", "endorsed", "refused"}
         /\ t.pc # "refused" => t.platform = q.platform
<1>0. q.n + 1 \in 1 .. Len(Products) + 1 /\ q.stage \in {"leaf", "chain"}
  BY Basics DEF Checks
<1>1. CASE q.stage = "leaf"
  <2>1. Take(q, b) = [q EXCEPT !.pc = "lookup", !.stage = "chain", !.started = 0,
                               !.leaf = b, !.bytes = NoBytes]
    BY <1>1 DEF Take
  <2>2. LET t == Take(q, b) IN
        t.pc = "lookup" /\ t.leaf = b /\ t.platform = q.platform
    BY <2>1 DEF Checks
  <2> QED BY <1>1, <2>2 DEF ChipOk
<1>2. CASE q.stage = "chain" /\ Endorses(q.leaf, b, q.platform)
  <2>1. Take(q, b) = [q EXCEPT !.pc = "endorsed", !.started = 0, !.bytes = b]
    BY <1>2 DEF Take
  <2>2. LET t == Take(q, b) IN t.pc = "endorsed" /\ t.platform = q.platform
    BY <2>1 DEF Checks
  <2> QED BY <1>2, <2>2 DEF ChipOk, Endorses
<1>3. CASE q.stage = "chain" /\ ~Endorses(q.leaf, b, q.platform)
  <2>1. Take(q, b) = Try(q, q.n + 1)
    BY <1>3 DEF Take
  <2> QED BY <1>0, <2>1, TryChip
<1> QED BY <1>0, <1>1, <1>2, <1>3

\* The URL of a certificate names the chip of the report.
LEMMA UrlNamesChip ==
  ASSUME NEW q
  PROVE  /\ CertUrl(q)[1] = "leaf" <=> q.stage = "leaf"
         /\ q.stage = "leaf" => CertUrl(q)[3] = q.platform.id
BY DEF CertUrl, LeafUrl, ChainUrl

\* A report check goes on, for the same report.
LEMMA CheckStep ==
  ASSUME TlsInv, NEW h \in Handshakes, NEW q \in Checks,
         endorse[h].pc \in {"lookup", "asked", "answered"},
         endorse' = [endorse EXCEPT ![h] = q], ChipOk(q),
         q.pc \in {"lookup", "asked", "answered", "endorsed"} => q.platform = endorse[h].platform,
         \A u \in CertUrls : EntryOk(u, certCache'[u].bytes),
         CertInv', UNCHANGED <<now, issuer, cache, look, tlsVars>>
  PROVE  TlsInv'
<1>1. PICK c \in ConnRecords : c = conn[h] /\ conn' = [conn EXCEPT ![h] = c]
  BY TlsParts DEF tlsVars
<1>2. ConnOk(c, endorse[h]) BY <1>1, TlsParts
<1>3. ConnOk(c, q) BY <1>2 DEF ConnOk
<1>4. endorse'[h] = q /\ \A g \in Handshakes \ {h} : endorse'[g] = endorse[g]
  BY TlsParts DEF CertInv, CertTypeOK
<1>5. CacheInv'
  <2>1. UNCHANGED cacheVars BY DEF cacheVars, issuer
  <2> QED BY <2>1, TlsParts, NextCacheInv
<1>6. UNCHANGED <<now, issuer, client, up, run, issued>> BY DEF tlsVars
<1> QED BY <1>1, <1>3, <1>4, <1>5, <1>6, ConnStep

LEMMA ConsultCertTls ==
  ASSUME TlsInv, NEW h \in Handshakes, ConsultCert(h), UNCHANGED <<issuer, cache, look, tlsVars>>
  PROVE  TlsInv'
<1> DEFINE q == endorse[h]
<1>1. CertInv /\ ChipOk(q) /\ \A u \in CertUrls : EntryOk(u, certCache[u].bytes) BY TlsParts
<1>2. q \in Checks /\ q.pc = "lookup" /\ CheckAges(q) /\ now \in 0 .. MaxTime
  BY <1>1, Current DEF ConsultCert
<1>3. CertInv' /\ UNCHANGED <<now, certCache>> BY <1>1, ConsultKeeps DEF ConsultCert
<1>4. CertUrl(q) \in CertUrls BY <1>2, UrlType DEF CheckAges
<1>5. CASE CertFresh(CertUrl(q))
  <2> DEFINE b == certCache[CertUrl(q)].bytes
             t == Take(q, b)
  <2>1. b \in BytesSet BY <1>1, <1>4, FreshIsYoung
  <2>2. q.stage = "leaf" /\ b.what = "leaf" => b.chip = q.platform.id
    BY <1>1, <1>4, UrlNamesChip DEF EntryOk
  <2> HIDE DEF b
  <2>3. ChipOk(t) /\ t.pc \in {"lookup", "endorsed", "refused"}
        /\ (t.pc # "refused" => t.platform = q.platform)
    BY <1>1, <1>2, <2>1, <2>2, TakeChip
  <2>4. endorse' = [endorse EXCEPT ![h] = t]
    BY <1>5 DEF ConsultCert, b
  <2>5. t \in Checks
    BY <1>1, <1>3, <2>4 DEF CertInv, CertTypeOK
  <2> HIDE DEF t
  <2> QED BY <1>1, <1>2, <1>3, <2>3, <2>4, <2>5, CheckStep
<1>6. CASE ~CertFresh(CertUrl(q))
  <2> DEFINE t == [q EXCEPT !.pc = "asked", !.started = now]
  <2>1. endorse' = [endorse EXCEPT ![h] = t]
    BY <1>6 DEF ConsultCert
  <2>2. t \in Checks
    BY <1>1, <1>3, <2>1 DEF CertInv, CertTypeOK
  <2>3. t.pc = "asked" /\ t.platform = q.platform /\ t.stage = q.stage /\ t.leaf = q.leaf
    BY <1>2 DEF Checks
  <2> HIDE DEF t
  <2>4. ChipOk(t) BY <1>1, <1>2, <2>3 DEF ChipOk
  <2> QED BY <1>1, <1>2, <1>3, <2>1, <2>2, <2>3, <2>4, CheckStep
<1> QED BY <1>5, <1>6

LEMMA ReceiveCertTls ==
  ASSUME TlsInv, NEW h \in Handshakes, ReceiveCert(h), UNCHANGED <<issuer, cache, look, tlsVars>>
  PROVE  TlsInv'
<1> DEFINE q == endorse[h]
           t == Take(q, q.bytes)
<1>1. CertInv /\ ChipOk(q) /\ \A u \in CertUrls : EntryOk(u, certCache[u].bytes) BY TlsParts
<1>2. q \in Checks /\ q.pc = "answered" /\ CheckAges(q)
  BY <1>1, Current DEF ReceiveCert
<1>3. CertInv' /\ now' = now BY <1>1, ReceiveKeeps DEF ReceiveCert
<1>4. q.bytes \in BytesSet BY <1>2 DEF Checks
<1>5. q.stage = "leaf" /\ q.bytes.what = "leaf" => q.bytes.chip = q.platform.id
  BY <1>1, <1>2 DEF ChipOk
<1>6. ChipOk(t) /\ t.pc \in {"lookup", "endorsed", "refused"}
      /\ (t.pc # "refused" => t.platform = q.platform)
  BY <1>1, <1>2, <1>4, <1>5, TakeChip
<1>7. endorse' = [endorse EXCEPT ![h] = t] BY DEF ReceiveCert
<1>8. t \in Checks BY <1>1, <1>3, <1>7 DEF CertInv, CertTypeOK
<1>9. ASSUME NEW u \in CertUrls PROVE EntryOk(u, certCache'[u].bytes)
  <2>1. certCache'[u].bytes = IF u = CertUrl(q) THEN q.bytes ELSE certCache[u].bytes
    BY <1>1 DEF ReceiveCert, CertInv, CertTypeOK
  <2> QED BY <1>1, <1>5, <2>1, UrlNamesChip DEF EntryOk
<1> HIDE DEF t
<1> QED BY <1>2, <1>3, <1>6, <1>7, <1>8, <1>9, CheckStep

LEMMA CertFetchFailsTls ==
  ASSUME TlsInv, NEW h \in Handshakes, CertFetchFails(h), UNCHANGED <<issuer, cache, look, tlsVars>>
  PROVE  TlsInv'
<1> DEFINE q == endorse[h]
           t == Try(q, q.n + 1)
<1>1. CertInv /\ \A u \in CertUrls : EntryOk(u, certCache[u].bytes) BY TlsParts
<1>2. q \in Checks /\ q.pc \in {"asked", "answered"} /\ q.n + 1 \in 1 .. Len(Products) + 1
  BY <1>1, Current DEF CertFetchFails
<1>3. CertInv' /\ UNCHANGED <<now, certCache>> BY <1>1, FailKeeps DEF CertFetchFails
<1>4. ChipOk(t) /\ t.pc \in {"lookup", "refused"} /\ (t.pc = "lookup" => t.platform = q.platform)
  BY <1>2, TryChip
<1>5. endorse' = [endorse EXCEPT ![h] = t] BY DEF CertFetchFails
<1>6. t \in Checks BY <1>1, <1>3, <1>5 DEF CertInv, CertTypeOK
<1> HIDE DEF t
<1> QED BY <1>1, <1>2, <1>3, <1>4, <1>5, <1>6, CheckStep

\* The key service's answer under a chip's URL is that chip's certificate.
LEMMA KdsAnswersTls ==
  ASSUME TlsInv, NEW h \in Handshakes, NEW genuine \in BOOLEAN, KdsAnswers(h, genuine),
         UNCHANGED <<issuer, cache, look, tlsVars>>
  PROVE  TlsInv'
<1> DEFINE q == endorse[h]
           b == IF genuine THEN Kept(CertUrl(q), now) ELSE Junk(now)
           t == [q EXCEPT !.pc = "answered", !.bytes = b]
<1>1. CertInv /\ ChipOk(q) /\ \A u \in CertUrls : EntryOk(u, certCache[u].bytes) BY TlsParts
<1>2. q \in Checks /\ q.pc = "asked"
  BY <1>1, Current DEF KdsAnswers
<1>3. CertInv' /\ UNCHANGED <<now, certCache>> BY <1>1, AnswerKeeps DEF KdsAnswers
<1>4. b.what = "leaf" /\ q.stage = "leaf" => b.chip = q.platform.id
  BY UrlNamesChip DEF Kept, Junk, Bytes
<1> HIDE DEF b
<1>5. endorse' = [endorse EXCEPT ![h] = t]
  BY <1>1, <1>2 DEF KdsAnswers, CertInv, CertTypeOK, Checks, b
<1>6. t \in Checks BY <1>1, <1>3, <1>5 DEF CertInv, CertTypeOK
<1>7. t.pc = "answered" /\ t.bytes = b /\ t.platform = q.platform
      /\ t.stage = q.stage /\ t.leaf = q.leaf
  BY <1>2 DEF Checks
<1> HIDE DEF t
<1>8. ChipOk(t) BY <1>1, <1>2, <1>4, <1>7 DEF ChipOk
<1> QED BY <1>1, <1>2, <1>3, <1>5, <1>6, <1>7, <1>8, CheckStep

-----------------------------------------------------------------------------
(* The steps that do not touch a connection, and the relay's.               *)

\* A step of the world that leaves the connections and report checks alone.
LEMMA WorldStep ==
  ASSUME TlsInv, CacheInv', CertInv', RelayInv', UNCHANGED <<certVars, client, conn>>,
         now <= now', issued \subseteq issued',
         \A k \in 0 .. latest, t \in Int : t <= now /\ (k \in published \/ withdrawn[k] >= t) =>
           k \in published' \/ withdrawn'[k] >= t,
         up => up' /\ run' = run
  PROVE  TlsInv'
<1>1. UNCHANGED <<certCache, endorse, client, conn>> BY DEF certVars
<1>2. now \in 0 .. MaxTime /\ now' \in 0 .. MaxTime
  <2>1. CacheInv BY TlsParts
  <2>2. CacheInv' => now' \in 0 .. MaxTime BY DEF CacheInv, CacheTypeOK
  <2> QED BY <2>1, <2>2, InvByParts
<1>3. ASSUME NEW g \in Handshakes PROVE ConnOk(conn[g], endorse[g])'
  <2>1. PICK d, r : d = conn[g] /\ r = endorse[g] /\ d \in ConnRecords BY TlsParts
  <2>2. ConnOk(d, r) BY <2>1, TlsParts
  <2>3. d.at <= now' /\ up' \in BOOLEAN /\ d.at \in 0 .. MaxTime /\ d.at <= now
    <3>1. d.at \in 0 .. MaxTime BY <2>1 DEF ConnRecords
    <3>2. d.at <= now BY <2>2 DEF ConnOk
    <3> QED BY <1>2, <3>1, <3>2 DEF RelayInv
  <2>4. d.pc \in {"verified", "open", "reported"} /\ policy.tee = "gcp" =>
          d.evidence.kid \in 0 .. latest
    BY <2>2, TlsParts DEF ConnOk, RelayInv, IssuedInv
  <2>5. LET t == d.at - (Ttl - 1) - FetchTimeout IN t \in Int /\ t <= now
    <3>1. d.at \in Int /\ now \in Int /\ Ttl \in Int /\ Ttl >= 1 /\ FetchTimeout \in Nat
      BY <1>2, <2>3, TimeAssumption
    <3> QED BY <2>3, <3>1
  <2>6. ConnOk(d, r)' BY <2>2, <2>3, <2>4, <2>5, ConnStays
  <2> QED BY <1>1, <2>1, <2>6
<1>4. conn' \in [Handshakes -> ConnRecords] /\ (\A h \in Handshakes : ChipOk(endorse'[h]))
      /\ \A u \in CertUrls : EntryOk(u, certCache'[u].bytes)
  BY <1>1, TlsParts
<1> QED BY <1>3, <1>4, TlsParts

\* The key cache works by itself.
LEMMA LookTls ==
  ASSUME TlsInv, CacheInv', UNCHANGED <<now, issuer, certVars, tlsVars>>
  PROVE  TlsInv'
<1>1. UNCHANGED <<now, published, latest, withdrawn, client, up, run, issued, conn>>
  BY DEF issuer, tlsVars
<1>2. CertInv' BY TlsParts, StutterKeeps
<1>3. RelayInv' BY <1>1, TlsParts DEF RelayInv, IssuedInv
<1>4. now \in 0 .. MaxTime BY TlsParts DEF CertInv
<1> QED BY <1>1, <1>2, <1>3, <1>4, WorldStep

LEMMA PassTls ==
  ASSUME TlsInv, Pass
  PROVE  TlsInv'
<1>1. Tick BY DEF Pass, Tick
<1>2. CacheInv' BY <1>1, TickInv, TlsParts
<1>3. CertInv' BY AdvanceKeeps, TlsParts DEF Pass
<1>4. now' = now + 1 /\ UNCHANGED <<published, latest, withdrawn, client, up, run, issued, conn>>
  BY DEF Pass, Advance, issuer, tlsVars
<1>5. RelayInv' BY <1>4, TlsParts DEF RelayInv, IssuedInv
<1>6. now \in 0 .. MaxTime BY TlsParts DEF CertInv
<1>7. UNCHANGED <<certVars, client, conn>> BY <1>4 DEF Pass
<1> QED BY <1>2, <1>3, <1>4, <1>5, <1>6, <1>7, WorldStep

\* A key that is withdrawn now was published until now.
LEMMA RotateTls ==
  ASSUME TlsInv, NEW keep \in BOOLEAN, Rotate(keep), UNCHANGED <<certVars, tlsVars>>
  PROVE  TlsInv'
<1>1. CacheInv' BY RotateInv, TlsParts
<1>2. now' = now /\ latest' = latest + 1
      /\ UNCHANGED <<client, up, run, issued, conn, certVars>>
  BY DEF Rotate, tlsVars
<1>3. CertInv' BY <1>2, TlsParts, StutterKeeps
<1>4. now \in 0 .. MaxTime /\ latest \in 0 .. MaxKid BY TlsParts, InvByParts
<1>5. RelayInv'
  <2>1. 0 .. latest \subseteq 0 .. latest' BY <1>2, <1>4
  <2> QED BY <1>2, <2>1, TlsParts DEF RelayInv, IssuedInv
<1>6. \A k \in 0 .. MaxKid :
        withdrawn'[k] = IF k \in published \ published' THEN now ELSE withdrawn[k]
  BY DEF Rotate
<1>7. 0 .. latest \subseteq 0 .. MaxKid BY <1>4, Bounds
<1>8. \A k \in 0 .. latest, t \in Int : t <= now /\ (k \in published \/ withdrawn[k] >= t) =>
        k \in published' \/ withdrawn'[k] >= t
  BY <1>6, <1>7
<1> QED BY <1>1, <1>2, <1>3, <1>4, <1>5, <1>8, WorldStep

\* A new run has a key of its own.
LEMMA StartRelayTls ==
  ASSUME TlsInv, NEW build \in Builds, StartRelay(build)
  PROVE  TlsInv'
<1> DEFINE tee == SelectAttester(build.host)
           e == Evidence(run + 1, tee, build)
<1>1. CacheInv /\ CertInv /\ RelayInv BY TlsParts
<1>2. UNCHANGED <<now, published, latest, withdrawn, cache, look, certVars, client, conn>>
      /\ ~up /\ up' = TRUE /\ run' = run + 1 /\ run < MaxRuns /\ issued' = issued \cup {e}
      /\ CanAttest(build.host)
  BY DEF StartRelay, lookupVars, cacheVars
<1>3. CacheInv'
  <2>1. UNCHANGED cacheVars BY <1>2 DEF cacheVars
  <2> QED BY <1>1, <2>1, NextCacheInv
<1>4. CertInv' BY <1>1, <1>2, StutterKeeps
<1>5. tee \in Tees BY <1>2 DEF CanAttest, Tees
<1>6. run \in 0 .. MaxRuns /\ run + 1 \in 0 .. MaxRuns /\ issued \subseteq EvidenceSet /\ IssuedInv
  BY <1>1, <1>2, Bounds DEF RelayInv
<1>7. /\ e \in EvidenceSet /\ e.key = run + 1
      /\ e.tee = "gcp" => e.kid = latest
      /\ e.tee = "sev" => e.platform \in Platforms
  <2>1. build.image \in Images /\ build.config \in Configs /\ build.debug \in BOOLEAN
        /\ (tee = "sev" => build.host.platform \in Platforms)
    BY BuildsAssumption
  <2> HIDE DEF tee
  <2> QED BY <1>1, <1>5, <1>6, <2>1, EvidenceFacts
<1> HIDE DEF e
<1>8. latest \in 0 .. MaxKid BY <1>1, InvByParts
<1>9. IssuedInv'
  <2>1. \A x \in issued : x.key \in 1 .. run BY <1>6 DEF IssuedInv
  <2>2. /\ \A x \in issued' :
             /\ x.key \in 1 .. run'
             /\ x.tee = "gcp" => x.kid \in 0 .. latest'
             /\ x.tee = "sev" => x.platform \in Platforms
    BY <1>2, <1>6, <1>7, <1>8 DEF IssuedInv
  <2>3. \A x, y \in issued' : x.key = y.key => x = y
    <3>1. \A x \in issued : x.key # run + 1 BY <1>6, <2>1
    <3> QED BY <1>2, <1>6, <1>7, <3>1 DEF IssuedInv
  <2>4. \A r \in 1 .. run' : \E x \in issued' : x.key = r
    BY <1>2, <1>6, <1>7 DEF IssuedInv
  <2> QED BY <1>2, <1>6, <2>2, <2>3, <2>4 DEF IssuedInv
<1>10. RelayInv' BY <1>1, <1>2, <1>6, <1>7, <1>9 DEF RelayInv
<1>11. now \in 0 .. MaxTime BY <1>1 DEF CertInv
<1> QED BY <1>2, <1>3, <1>4, <1>10, <1>11, WorldStep

LEMMA StopRelayTls ==
  ASSUME TlsInv, StopRelay
  PROVE  TlsInv'
<1> DEFINE gone == [Unused EXCEPT !.pc = "over"]
<1>1. UNCHANGED <<now, published, latest, withdrawn, cache, look, certCache, endorse,
                  client, run, issued>> /\ up' = FALSE
  BY DEF StopRelay, lookupVars, cacheVars, certVars
<1>2. CacheInv'
  <2>1. UNCHANGED cacheVars BY <1>1 DEF cacheVars
  <2> QED BY <2>1, TlsParts, NextCacheInv
<1>3. CertInv'
  <2>1. UNCHANGED <<now, certVars>> BY <1>1 DEF certVars
  <2> QED BY <2>1, TlsParts, StutterKeeps
<1>4. RelayInv' BY <1>1, TlsParts DEF RelayInv, IssuedInv
<1>5. gone \in ConnRecords /\ gone.pc = "over" /\ gone.evidence = NoEvidence /\ gone.at = 0
  BY UnusedFacts
<1>6. \A g \in Handshakes : conn'[g] = IF conn[g].pc = "open" THEN gone ELSE conn[g]
  BY DEF StopRelay
<1>7. conn' \in [Handshakes -> ConnRecords]
  BY <1>5, <1>6, TlsParts DEF StopRelay
<1>8. ASSUME NEW g \in Handshakes PROVE ConnOk(conn[g], endorse[g])'
  <2>1. PICK d, r : d = conn'[g] /\ r = endorse'[g] OBVIOUS
  <2>2. ConnOk(conn[g], r) BY <1>1, <2>1, TlsParts
  <2>3. now \in 0 .. MaxTime BY TlsParts DEF CertInv
  <2>4. ConnOk(d, r)
    <3>1. CASE conn[g].pc = "open"
      <4>1. d = gone BY <1>6, <2>1, <3>1
      <4> HIDE DEF gone
      <4> QED BY <1>5, <2>2, <2>3, <3>1, <4>1 DEF ConnOk
    <3>2. CASE conn[g].pc # "open"
      BY <1>6, <2>1, <2>2, <3>2
    <3> QED BY <3>1, <3>2
  <2>5. d.pc # "open" BY <1>5, <1>6, <2>1
  <2>6. d.at <= now' BY <1>1, <2>4 DEF ConnOk
  <2>7. ConnOk(d, r)' BY <1>1, <2>4, <2>5, <2>6, ConnStays
  <2> QED BY <2>1, <2>7
<1>9. (\A h \in Handshakes : ChipOk(endorse'[h]))
      /\ \A u \in CertUrls : EntryOk(u, certCache'[u].bytes)
  BY <1>1, TlsParts
<1> QED BY <1>2, <1>3, <1>4, <1>7, <1>8, <1>9, TlsParts

-----------------------------------------------------------------------------
(* The steps of a handshake.                                                *)

\* Only a connection changes.
LEMMA ConnOnly ==
  ASSUME TlsInv, NEW h \in Handshakes, NEW c \in ConnRecords, ConnOk(c, endorse[h]),
         conn' = [conn EXCEPT ![h] = c], UNCHANGED <<lookupVars, client, up, run, issued>>
  PROVE  TlsInv'
<1>1. UNCHANGED <<cacheVars, certVars>> BY DEF lookupVars
<1>2. UNCHANGED <<now, issuer, certCache, endorse>> BY <1>1 DEF cacheVars, certVars, issuer
<1>3. CacheInv' BY <1>1, TlsParts, NextCacheInv
<1>4. CertInv' BY <1>1, <1>2, TlsParts, StutterKeeps
<1>5. ChipOk(endorse[h]) /\ \A u \in CertUrls : EntryOk(u, certCache[u].bytes) BY TlsParts
<1>6. PICK q : q = endorse[h] OBVIOUS
<1> QED BY <1>2, <1>3, <1>4, <1>5, <1>6, ConnStep

\* Nothing is asked of a connection that is not in use.
LEMMA BlankOk ==
  ASSUME TlsInv, NEW q, q.pc \in {"idle", "refused"}, NEW c, c.pc \in {"idle", "over"},
         c.evidence = NoEvidence, c.at = 0
  PROVE  ConnOk(c, q)
<1>1. now \in 0 .. MaxTime BY TlsParts DEF CertInv
<1> QED BY <1>1 DEF ConnOk

\* A handshake that is not waiting for certificates has no check under way.
LEMMA CheckIsIdle ==
  ASSUME TlsInv, NEW h \in Handshakes, conn[h].pc # "verifying" \/ conn[h].evidence.tee # "sev"
  PROVE  endorse[h].pc \in {"idle", "refused"}
<1>1. endorse[h] \in Checks BY TlsParts DEF CertInv, CertTypeOK
<1>2. endorse[h].pc \in {"idle", "lookup", "asked", "answered", "endorsed", "refused"}
  BY <1>1 DEF Checks
<1> QED BY <1>2, TlsParts DEF ConnOk

LEMMA RefuseTls ==
  ASSUME TlsInv, NEW h \in Handshakes, conn[h].pc # "verifying", Refuse(h),
         UNCHANGED <<lookupVars, client, up, run, issued>>
  PROVE  TlsInv'
<1> DEFINE gone == [Unused EXCEPT !.pc = "over"]
<1>1. gone \in ConnRecords /\ gone.pc = "over" /\ gone.evidence = NoEvidence /\ gone.at = 0
  BY UnusedFacts
<1>2. conn' = [conn EXCEPT ![h] = gone] BY DEF Refuse
<1> HIDE DEF gone
<1>3. ConnOk(gone, endorse[h]) BY <1>1, CheckIsIdle, BlankOk
<1> QED BY <1>1, <1>2, <1>3, ConnOnly

LEMMA CloseTls ==
  ASSUME TlsInv, NEW h \in Handshakes, Close(h)
  PROVE  TlsInv'
<1>1. ConnOk(Unused, endorse[h]) BY UnusedFacts, CheckIsIdle, BlankOk DEF Close
<1> QED BY <1>1, UnusedFacts, ConnOnly DEF Close

\* What a verifier is given.
Given(key, e) ==
  /\ key \in 0 .. MaxRuns
  /\ e \in EvidenceSet \cup {NoEvidence}
  /\ e \in issued \/ e = NoEvidence \/ Forged(e)

LEMMA ExamineTls ==
  ASSUME TlsInv, NEW h \in Handshakes, NEW key, NEW e, Given(key, e),
         conn[h].pc \in {"idle", "captured"}, Examine(h, key, e)
  PROVE  TlsInv'
<1>1. /\ look[h].pc = "idle" /\ endorse[h].pc = "idle"
      /\ UNCHANGED <<now, issuer, cache, certCache, client, up, run, issued>>
  BY DEF Examine
<1>2. now \in 0 .. MaxTime /\ 0 \in 0 .. MaxTime BY Bounds, TlsParts DEF CertInv
<1>3. CacheInv /\ CertInv /\ (\A u \in CertUrls : EntryOk(u, certCache[u].bytes)) /\ ChipOk(endorse[h])
  BY TlsParts
<1> DEFINE wait == [pc |-> "verifying", key |-> key, evidence |-> e, at |-> 0]
           done == [pc |-> "verified", key |-> key, evidence |-> e, at |-> now]
<1>4. wait \in ConnRecords /\ wait.pc = "verifying" /\ wait.evidence = e /\ wait.at = 0
      /\ wait.key = key
  BY <1>2 DEF ConnRecords, Given
<1>5. done \in ConnRecords /\ done.pc = "verified" /\ done.evidence = e /\ done.at = now
      /\ done.key = key
  BY <1>2 DEF ConnRecords, Given
<1> HIDE DEF wait, done
<1>6. ASSUME NEW q, Handled(e), q.pc \in {"idle", "refused"} \/ (e.tee = "sev" /\ q.platform = e.platform)
      PROVE  ConnOk(wait, q)
  BY <1>2, <1>4, <1>6 DEF ConnOk, Given
<1>7. CASE Handled(e) /\ e.tee = "gcp" /\ Wait(h, key, e) /\ StartLookup(h) /\ UNCHANGED endorse
  <2>1. conn' = [conn EXCEPT ![h] = wait] BY <1>7 DEF Wait, wait
  <2>2. CacheInv' BY <1>1, <1>3, <1>7, StartLookupInv
  <2>3. UNCHANGED <<now, certVars>> BY <1>1, <1>7 DEF certVars
  <2>4. CertInv' BY <1>3, <2>3, StutterKeeps
  <2>5. PICK q : q = endorse[h] OBVIOUS
  <2>6. ConnOk(wait, q) BY <1>1, <1>6, <1>7, <2>5
  <2>7. endorse'[h] = q /\ (\A g \in Handshakes \ {h} : endorse'[g] = endorse[g]) /\ ChipOk(q)
        /\ \A u \in CertUrls : EntryOk(u, certCache'[u].bytes)
    BY <1>1, <1>3, <1>7, <2>5
  <2> QED BY <1>1, <1>4, <2>1, <2>2, <2>4, <2>6, <2>7, ConnStep
<1>8. CASE Handled(e) /\ e.tee = "sev" /\ Wait(h, key, e) /\ StartCheck(h, e.platform) /\ UNCHANGED look
  <2>1. conn' = [conn EXCEPT ![h] = wait] BY <1>8 DEF Wait, wait
  <2>2. CacheInv'
    <3>1. UNCHANGED cacheVars BY <1>1, <1>8 DEF cacheVars, issuer
    <3> QED BY <1>3, <3>1, NextCacheInv
  <2>3. e.platform \in Platforms
    BY <1>8, TlsParts, NoEvidenceFacts DEF Given, Forged, RelayInv, IssuedInv
  <2>4. CertInv' BY <1>1, <1>3, <1>8, <2>3, StartKeeps
  <2> DEFINE first == [NoCheck EXCEPT !.platform = e.platform]
             q == Try(first, 1)
  <2>5. endorse' = [endorse EXCEPT ![h] = q] BY <1>8 DEF StartCheck
  <2>6. first \in Checks /\ first.platform = e.platform /\ 1 \in 1 .. Len(Products) + 1
    BY <2>3, Basics DEF Checks, NoCheck
  <2> HIDE DEF first
  <2>7. ChipOk(q) /\ q.pc \in {"lookup", "refused"} /\ (q.pc = "lookup" => q.platform = e.platform)
    BY <2>6, TryChip
  <2> HIDE DEF q
  <2>8. ConnOk(wait, q) BY <1>6, <1>8, <2>7
  <2>9. endorse'[h] = q /\ (\A g \in Handshakes \ {h} : endorse'[g] = endorse[g])
        /\ \A u \in CertUrls : EntryOk(u, certCache'[u].bytes)
    BY <1>1, <1>3, <2>5 DEF CertInv, CertTypeOK
  <2> QED BY <1>1, <1>4, <2>1, <2>2, <2>4, <2>7, <2>8, <2>9, ConnStep
<1>9. CASE /\ Handled(e) /\ e.tee = "mock" /\ UNCHANGED <<look, endorse>>
           /\ conn' = [conn EXCEPT ![h] = [pc |-> "verified", key |-> key, evidence |-> e, at |-> now]]
  <2>1. conn' = [conn EXCEPT ![h] = done] BY <1>9 DEF done
  <2>2. UNCHANGED <<lookupVars, client, up, run, issued>>
    BY <1>1, <1>9 DEF lookupVars, cacheVars, certVars, issuer
  <2>3. e.tee = policy.tee BY <1>9 DEF Handled
  <2>4. ConnOk(done, endorse[h]) BY <1>1, <1>2, <1>5, <1>9, <2>3 DEF ConnOk, Given
  <2> QED BY <1>5, <2>1, <2>2, <2>4, ConnOnly
<1>10. CASE Refuse(h) /\ UNCHANGED <<look, endorse>>
  <2>1. UNCHANGED <<lookupVars, client, up, run, issued>>
    BY <1>1, <1>10 DEF lookupVars, cacheVars, certVars, issuer
  <2> QED BY <1>10, <2>1, RefuseTls
<1> QED BY <1>7, <1>8, <1>9, <1>10 DEF Examine

LEMMA CaptureTls ==
  ASSUME TlsInv, NEW h \in Handshakes, NEW key, NEW e, Given(key, e), Capture(h, key, e)
  PROVE  TlsInv'
<1> DEFINE c == [pc |-> IF client.health THEN "asking" ELSE "captured", key |-> key,
                 evidence |-> e, at |-> 0]
<1>1. now \in 0 .. MaxTime /\ 0 \in 0 .. MaxTime BY Bounds, TlsParts DEF CertInv
<1>2. c \in ConnRecords /\ c.pc \in {"asking", "captured"} /\ c.evidence = e /\ c.at = 0
  BY <1>1 DEF ConnRecords, Given
<1>3. conn[h].pc = "idle" /\ conn' = [conn EXCEPT ![h] = c] /\ UNCHANGED <<lookupVars, client, up, run, issued>>
  BY DEF Capture
<1>4. endorse[h].pc \in {"idle", "refused"} BY <1>3, CheckIsIdle
<1> HIDE DEF c
<1>5. ConnOk(c, endorse[h]) BY <1>1, <1>2, <1>4 DEF ConnOk, Given
<1> QED BY <1>2, <1>3, <1>5, ConnOnly

\* Whoever answers, the verifier is given evidence of a run, none, or a forgery.
LEMMA MeetTls ==
  ASSUME TlsInv, NEW h \in Handshakes, MeetRelay(h) \/ MeetOther(h)
  PROVE  TlsInv'
<1>1. RelayInv BY TlsParts
<1>2. ASSUME NEW key, NEW e, Given(key, e), Meet(h, key, e) PROVE TlsInv'
  BY <1>2, ExamineTls, CaptureTls DEF Meet, Begin
<1>3. CASE MeetRelay(h)
  <2>1. PICK e \in issued : Meet(h, run, e) BY <1>3 DEF MeetRelay
  <2>2. Given(run, e) BY <1>1 DEF Given, RelayInv
  <2> QED BY <1>2, <2>1, <2>2
<1>4. CASE MeetOther(h)
  <2>1. PICK e \in issued \cup {NoEvidence} \cup Selfmade : Meet(h, 0, e) BY <1>4 DEF MeetOther
  <2>2. Given(0, e) BY <2>1, ShownFacts, Bounds DEF Given
  <2> QED BY <1>2, <2>1, <2>2
<1> QED BY <1>3, <1>4

\* A connection's record has its fields.
LEMMA ConnFields ==
  ASSUME TlsInv, NEW h \in Handshakes
  PROVE  /\ conn[h] \in ConnRecords /\ ConnOk(conn[h], endorse[h])
         /\ Given(conn[h].key, conn[h].evidence)
<1>1. conn[h] \in ConnRecords /\ ConnOk(conn[h], endorse[h]) BY TlsParts
<1> QED BY <1>1 DEF ConnRecords, ConnOk, Given

LEMMA HealthTls ==
  ASSUME TlsInv, NEW h \in Handshakes, NEW ok \in BOOLEAN, HealthAnswered(h, ok)
  PROVE  TlsInv'
<1> DEFINE c == [conn[h] EXCEPT !.pc = "captured"]
<1>1. conn[h].pc = "asking" /\ UNCHANGED <<lookupVars, client, up, run, issued>>
  BY DEF HealthAnswered
<1>2. CASE ok
  <2>1. conn' = [conn EXCEPT ![h] = c] BY <1>2, TlsParts DEF HealthAnswered
  <2>2. c \in ConnRecords /\ c.pc = "captured" /\ c.evidence = conn[h].evidence /\ c.at = conn[h].at
    BY ConnFields DEF ConnRecords
  <2> HIDE DEF c
  <2>3. endorse[h].pc \in {"idle", "refused"} BY <1>1, CheckIsIdle
  <2>4. ConnOk(c, endorse[h]) BY <2>2, <2>3, ConnFields DEF ConnOk
  <2> QED BY <1>1, <2>1, <2>2, <2>4, ConnOnly
<1>3. CASE ~ok
  BY <1>1, <1>3, RefuseTls DEF HealthAnswered
<1> QED BY <1>2, <1>3

\* The record of an accepted connection.
Accepted(c) == [c EXCEPT !.pc = "verified", !.at = now]

LEMMA AcceptedFields ==
  ASSUME TlsInv, NEW h \in Handshakes
  PROVE  LET c == Accepted(conn[h]) IN
         /\ c \in ConnRecords /\ c.pc = "verified" /\ c.at = now
         /\ c.key = conn[h].key /\ c.evidence = conn[h].evidence
<1>1. now \in 0 .. MaxTime BY TlsParts DEF CertInv
<1> QED BY <1>1, ConnFields DEF Accepted, ConnRecords

\* A token that a key of the issuer signed is that of a run; the key was published
\* not too long ago.
LEMMA VerifyTls ==
  ASSUME TlsInv, NEW h \in Handshakes, Verify(h)
  PROVE  TlsInv'
<1> DEFINE e == conn[h].evidence
           c == Accepted(conn[h])
           gone == [Unused EXCEPT !.pc = "over"]
<1>1. /\ conn[h].pc = "verifying" /\ e.tee = "gcp" /\ look[h].pc \in {"ready", "refused"}
      /\ Release(h) /\ UNCHANGED <<now, issuer, cache, certVars, client, up, run, issued>>
  BY DEF Verify
<1>2. CacheInv' BY <1>1, TlsParts, StartLookupInv
<1>3. UNCHANGED <<now, certCache, endorse>> BY <1>1 DEF certVars
<1>4. CertInv' BY <1>1, TlsParts, StutterKeeps
<1>5. PICK q : q = endorse[h] OBVIOUS
<1>6. /\ q.pc \in {"idle", "refused"} /\ ChipOk(q) /\ endorse'[h] = q
      /\ \A g \in Handshakes \ {h} : endorse'[g] = endorse[g]
      /\ \A u \in CertUrls : EntryOk(u, certCache'[u].bytes)
  BY <1>1, <1>3, <1>5, TlsParts, CheckIsIdle
<1>7. CASE look[h].pc = "ready" /\ TokenOk(e, look[h].doc.keys) /\ ReportdataBinds(conn[h].key, e)
  <2>1. conn' = [conn EXCEPT ![h] = c]
    BY <1>7, TlsParts DEF Verify, Accepted
  <2>2. c \in ConnRecords /\ c.pc = "verified" /\ c.at = now /\ c.key = conn[h].key /\ c.evidence = e
    BY AcceptedFields
  <2> HIDE DEF c
  <2>3. look[h].doc.keys \subseteq 0 .. MaxKid
    <3>1. look[h] \in LookRecords BY TlsParts, InvByParts
    <3> QED BY <3>1 DEF LookRecords, Docs
  <2>4. e.kid \in look[h].doc.keys BY <1>7 DEF TokenOk
  <2>5. e \in issued
    <3>1. e \in issued \/ e = NoEvidence \/ Forged(e) BY ConnFields DEF Given
    <3>2. e.kid # -1 BY <2>3, <2>4, Bounds
    <3> QED BY <1>1, <3>1, <3>2, NoEvidenceFacts DEF Forged
  <2>6. Handled(e) BY <1>1, ConnFields DEF ConnOk
  <2>7. e.tee = policy.tee BY <2>6 DEF Handled
  <2>8. Meets(e) /\ e.key = conn[h].key /\ now <= e.exp + Skew
    BY <1>1, <1>7, <2>7 DEF Meets, TokenOk, ReportdataBinds
  <2>9. ListedSince(look[h].doc, now - (Ttl - 1) - FetchTimeout)
    BY <1>7, TlsParts DEF CacheInv, WithdrawnKeysExpire
  <2>10. e.kid \in published \/ withdrawn[e.kid] >= now - (Ttl - 1) - FetchTimeout
    BY <2>4, <2>9 DEF ListedSince
  <2>11. now \in 0 .. MaxTime BY TlsParts DEF CertInv
  <2> HIDE DEF e
  <2>12. ConnOk(c, q)
    BY <1>1, <1>6, <2>2, <2>5, <2>7, <2>8, <2>10, <2>11 DEF ConnOk
  <2> QED BY <1>1, <1>2, <1>4, <1>6, <2>1, <2>2, <2>12, ConnStep
<1>8. CASE Refuse(h)
  <2>1. gone \in ConnRecords /\ gone.pc = "over" /\ gone.evidence = NoEvidence /\ gone.at = 0
    BY UnusedFacts
  <2>2. conn' = [conn EXCEPT ![h] = gone] BY <1>8 DEF Refuse
  <2> HIDE DEF gone
  <2>3. ConnOk(gone, q) BY <1>6, <2>1, BlankOk
  <2> QED BY <1>1, <1>2, <1>4, <1>6, <2>1, <2>2, <2>3, ConnStep
<1> QED BY <1>7, <1>8 DEF Verify

\* A report that AMD's certificates endorse was signed by the chip it names, so that
\* it is that of a run.
LEMMA VerifyReportTls ==
  ASSUME TlsInv, NEW h \in Handshakes, VerifyReport(h)
  PROVE  TlsInv'
<1> DEFINE e == conn[h].evidence
           c == Accepted(conn[h])
           gone == [Unused EXCEPT !.pc = "over"]
<1>1. /\ conn[h].pc = "verifying" /\ e.tee = "sev" /\ endorse[h].pc \in {"endorsed", "refused"}
      /\ EndCheck(h) /\ UNCHANGED <<cacheVars, certCache, client, up, run, issued>>
  BY DEF VerifyReport
<1>2. CacheInv' BY <1>1, TlsParts, NextCacheInv
<1>3. UNCHANGED <<now, issuer, certCache>> BY <1>1 DEF cacheVars, issuer
<1>4. CertInv' BY <1>1, <1>3, TlsParts, EndKeeps
<1>5. /\ NoCheck.pc = "idle" /\ ChipOk(NoCheck) /\ endorse'[h] = NoCheck
      /\ \A g \in Handshakes \ {h} : endorse'[g] = endorse[g]
      /\ \A u \in CertUrls : EntryOk(u, certCache'[u].bytes)
  BY <1>1, <1>3, TlsParts DEF NoCheck, ChipOk, EndCheck, CertInv, CertTypeOK
<1>6. CASE endorse[h].pc = "endorsed" /\ ReportdataBinds(conn[h].key, e)
  <2>1. conn' = [conn EXCEPT ![h] = c]
    BY <1>6, TlsParts DEF VerifyReport, Accepted
  <2>2. c \in ConnRecords /\ c.pc = "verified" /\ c.at = now /\ c.key = conn[h].key /\ c.evidence = e
    BY AcceptedFields
  <2> HIDE DEF c
  <2>3. e.platform.key = e.platform.id
    <3>1. e.platform = endorse[h].platform BY <1>6, ConnFields DEF ConnOk
    <3>2. ChipOk(endorse[h]) BY TlsParts
    <3> QED BY <1>6, <3>1, <3>2 DEF ChipOk
  <2>4. e \in issued
    <3>1. e \in issued \/ e = NoEvidence \/ Forged(e) BY ConnFields DEF Given
    <3> QED BY <1>1, <2>3, <3>1, NoEvidenceFacts DEF Forged
  <2>5. Handled(e) BY <1>1, ConnFields DEF ConnOk
  <2>6. e.tee = policy.tee /\ ReportFits(e) BY <1>1, <2>5 DEF Handled
  <2>7. ~policy.enforce BY <1>1, <2>6, PolicyFacts, TlsParts DEF RelayInv
  <2>8. Meets(e) /\ e.key = conn[h].key
    BY <1>1, <1>6, <2>6, <2>7 DEF Meets, ReportFits, MeasurementOk, ReportdataBinds
  <2>9. now \in 0 .. MaxTime BY TlsParts DEF CertInv
  <2> HIDE DEF e
  <2>10. ConnOk(c, NoCheck)
    BY <1>1, <1>5, <2>2, <2>4, <2>6, <2>8, <2>9 DEF ConnOk
  <2> QED BY <1>1, <1>2, <1>3, <1>4, <1>5, <2>1, <2>2, <2>10, ConnStep
<1>7. CASE Refuse(h)
  <2>1. gone \in ConnRecords /\ gone.pc = "over" /\ gone.evidence = NoEvidence /\ gone.at = 0
    BY UnusedFacts
  <2>2. conn' = [conn EXCEPT ![h] = gone] BY <1>7 DEF Refuse
  <2> HIDE DEF gone
  <2>3. ConnOk(gone, NoCheck) BY <1>5, <2>1, BlankOk
  <2> QED BY <1>1, <1>2, <1>3, <1>4, <1>5, <2>1, <2>2, <2>3, ConnStep
<1> QED BY <1>6, <1>7 DEF VerifyReport

\* The peer proves that it holds the key: it is the relay that runs.
LEMMA CompleteTls ==
  ASSUME TlsInv, NEW h \in Handshakes, Complete(h)
  PROVE  TlsInv'
<1>1. conn[h].pc = "verified" /\ UNCHANGED <<lookupVars, client, up, run, issued>>
  BY DEF Complete
<1>2. conn[h] \in ConnRecords /\ ConnOk(conn[h], endorse[h]) BY ConnFields
<1>3. policy.tee # "mock" => conn[h].key \in 1 .. run BY <1>1, AcceptedRun
<1>4. endorse[h].pc \in {"idle", "refused"} BY <1>1, CheckIsIdle
<1>5. ASSUME NEW pc \in {"reported", "open"}, conn' = [conn EXCEPT ![h].pc = pc],
             pc = "reported" => ~policy.inline,
             pc = "open" => policy.inline /\ (conn[h].key = 0 \/ (up /\ conn[h].key = run))
      PROVE  TlsInv'
  <2> DEFINE c == [conn[h] EXCEPT !.pc = pc]
  <2>1. conn' = [conn EXCEPT ![h] = c] BY <1>5, TlsParts
  <2>2. c \in ConnRecords /\ c.pc = pc /\ c.key = conn[h].key /\ c.evidence = conn[h].evidence
        /\ c.at = conn[h].at
    BY <1>2 DEF ConnRecords
  <2> HIDE DEF c
  <2>3. pc = "open" /\ policy.tee # "mock" => up /\ c.key = run
    <3>1. run \in 0 .. MaxRuns BY TlsParts DEF RelayInv
    <3> QED BY <1>3, <1>5, <2>2, <3>1
  <2>4. ConnOk(c, endorse[h])
    BY <1>1, <1>2, <1>4, <1>5, <2>2, <2>3 DEF ConnOk
  <2> QED BY <1>1, <2>1, <2>2, <2>4, ConnOnly
<1>6. CASE Refuse(h)
  BY <1>1, <1>6, RefuseTls
<1> QED BY <1>5, <1>6 DEF Complete

-----------------------------------------------------------------------------
(* The invariant.                                                           *)

LEMMA InitTls == Init => TlsInv
<1> SUFFICES ASSUME Init PROVE TlsInv OBVIOUS
<1>1. CacheInv BY InitCacheInv DEF Init
<1>2. now = 0 /\ CertInit BY DEF Init, CacheInit
<1>3. CertInv BY <1>2, InitCertInv
<1>4. RelayInv
  <2>1. client \in Clients /\ up = FALSE /\ run = 0 /\ issued = {} BY DEF Init
  <2>2. IssuedInv
    <3>1. 1 .. run = {} BY <2>1
    <3> QED BY <2>1, <3>1 DEF IssuedInv
  <2>3. run \in 0 .. MaxRuns /\ issued \subseteq EvidenceSet BY <2>1, Bounds
  <2>4. up \in BOOLEAN BY <2>1
  <2> QED BY <2>1, <2>2, <2>3, <2>4 DEF RelayInv
<1>5. \A u \in CertUrls : EntryOk(u, certCache[u].bytes)
  BY <1>2 DEF CertInit, NoBytes, Junk, Bytes, EntryOk
<1>6. \A h \in Handshakes : endorse[h] = NoCheck /\ endorse[h].pc = "idle" /\ ChipOk(endorse[h])
  BY <1>2 DEF CertInit, NoCheck, ChipOk
<1>7. \A h \in Handshakes : conn[h] = Unused BY DEF Init
<1>8. conn \in [Handshakes -> ConnRecords] BY UnusedFacts DEF Init
<1>9. ASSUME NEW h \in Handshakes PROVE ConnOk(conn[h], endorse[h])
  <2>1. conn[h].pc = "idle" /\ conn[h].evidence = NoEvidence /\ conn[h].at = 0
    BY <1>7, UnusedFacts
  <2> QED BY <1>2, <1>6, <2>1 DEF ConnOk
<1> QED BY <1>1, <1>3, <1>4, <1>5, <1>6, <1>8, <1>9, TlsParts

LEMMA EnvironmentTls == TlsInv /\ Environment => TlsInv'
<1> SUFFICES ASSUME TlsInv, Environment PROVE TlsInv' OBVIOUS
<1>1. CASE Pass BY <1>1, PassTls
<1>2. ASSUME NEW keep \in BOOLEAN, Rotate(keep), UNCHANGED <<certVars, tlsVars>> PROVE TlsInv'
  BY <1>2, RotateTls
<1>3. ASSUME NEW h \in Handshakes, NEW ok \in BOOLEAN, IssuerAnswers(h, ok), UNCHANGED <<certVars, tlsVars>>
      PROVE  TlsInv'
  <2>1. CacheInv' BY <1>3, TlsParts, AnswerInv
  <2> QED BY <1>3, <2>1, LookTls DEF IssuerAnswers
<1>4. ASSUME NEW h \in Handshakes, NEW ok \in BOOLEAN, KdsAnswers(h, ok),
             UNCHANGED <<issuer, cache, look, tlsVars>>
      PROVE  TlsInv'
  BY <1>4, KdsAnswersTls
<1>5. ASSUME NEW h \in Handshakes, NEW ok \in BOOLEAN, HealthAnswered(h, ok) PROVE TlsInv'
  BY <1>5, HealthTls
<1> QED BY <1>1, <1>2, <1>3, <1>4, <1>5 DEF Environment

LEMMA HandshakeTls ==
  ASSUME TlsInv, NEW h \in Handshakes, HandshakeStep(h)
  PROVE  TlsInv'
<1>1. CASE LookupStep(h) /\ UNCHANGED <<certVars, tlsVars>>
  <2>1. CacheInv' BY <1>1, TlsParts, ConsultInv, ReceiveInv, FetchFailsInv DEF LookupStep
  <2>2. UNCHANGED <<now, issuer>> BY <1>1 DEF LookupStep, Consult, Receive, FetchFails
  <2> QED BY <1>1, <2>1, <2>2, LookTls
<1>2. CASE CertStep(h) /\ UNCHANGED <<issuer, cache, look, tlsVars>>
  BY <1>2, ConsultCertTls, ReceiveCertTls, CertFetchFailsTls DEF CertStep
<1>3. CASE ExamineCaptured(h)
  BY <1>3, ConnFields, ExamineTls DEF ExamineCaptured
<1>4. CASE Verify(h) \/ VerifyReport(h) \/ Complete(h)
  BY <1>4, VerifyTls, VerifyReportTls, CompleteTls
<1> QED BY <1>1, <1>2, <1>3, <1>4 DEF HandshakeStep

LEMMA UnchangedTls == TlsInv /\ UNCHANGED vars => TlsInv'
<1> SUFFICES ASSUME TlsInv, UNCHANGED vars PROVE TlsInv' OBVIOUS
<1>1. UNCHANGED <<cacheVars, certVars, tlsVars>> BY DEF vars, lookupVars
<1>2. UNCHANGED <<now, issuer, certVars, tlsVars>> BY <1>1 DEF cacheVars, issuer
<1>3. CacheInv' BY <1>1, TlsParts, NextCacheInv
<1> QED BY <1>2, <1>3, LookTls

LEMMA NextTls == TlsInv /\ [Next]_vars => TlsInv'
<1> SUFFICES ASSUME TlsInv, [Next]_vars PROVE TlsInv' OBVIOUS
<1>1. CASE UNCHANGED vars BY <1>1, UnchangedTls
<1>2. CASE Exited BY <1>2, UnchangedTls DEF Exited
<1>3. CASE Environment BY <1>3, EnvironmentTls
<1>4. ASSUME NEW build \in Builds, StartRelay(build) PROVE TlsInv' BY <1>4, StartRelayTls
<1>5. CASE StopRelay BY <1>5, StopRelayTls
<1>6. ASSUME NEW h \in Handshakes, MeetRelay(h) \/ MeetOther(h) PROVE TlsInv' BY <1>6, MeetTls
<1>7. ASSUME NEW h \in Handshakes, HandshakeStep(h) PROVE TlsInv' BY <1>7, HandshakeTls
<1>8. ASSUME NEW h \in Handshakes, Close(h) PROVE TlsInv' BY <1>8, CloseTls
<1> QED BY <1>1, <1>2, <1>3, <1>4, <1>5, <1>6, <1>7, <1>8 DEF Next, Running

\* The inductive invariant of attested TLS: every run has one piece of evidence for a
\* key of its own, forged evidence is recognised (client.rs, verify_server_cert, and
\* the two backends), and accepted evidence is that of a run that meets the policy.
THEOREM TlsInvariance == Spec => []TlsInv
<1> QED BY InitTls, NextTls, PTL DEF Spec

\* client.rs, verify_server_cert and verify_tls13_signature: for any handshakes, runs,
\* builds and clients, an open connection ends in the relay process that is running
\* now, and that process is what the policy pins.
THEOREM ChannelsEndInPinnedRelay == Spec => []ChannelEndsInPinnedRelay
<1> QED BY TlsInvariance, InvChannel, PTL

\* local-proxy main.rs, the SDK's build() and the handshake together: a strict client
\* of any kind is connected to the image and the configuration it was told to expect.
THEOREM StrictPinsHold == Spec => []StrictClientsGetTheirPins
<1> QED BY TlsInvariance, InvStrict, PTL

\* online-check main.rs: its positive result is true of a run of the relay.
THEOREM CheckIsTruthful == Spec => []CheckSpeaksTruth
<1> QED BY TlsInvariance, InvCheck, PTL

\* relay-sdk client.rs, lines 9-11: the mock is never used by a client that did not
\* ask for it.
THEOREM MockOnlyOnRequest == Spec => []NeverMockUnasked
<1> QED BY TlsInvariance, InvMock, PTL

\* decode_and_validate and fetch_json_cached: no handshake is completed on a token
\* that is past its expiry and leeway, or on a key withdrawn too long ago.
THEOREM TokensAreValidWhenAccepted == Spec => []AcceptedWhileValid
<1> QED BY TlsInvariance, InvValid, PTL

-----------------------------------------------------------------------------
(* Attested TLS implements PinnedChannel.                                   *)

\* The mapping: what the relay is, and the channels that are open.
Kind ==
  CASE ~up -> "down"
    [] up /\ Meets(RunOf(run)) -> "pinned"
    [] OTHER -> "other"
OpenChannels == {h \in Handshakes : conn[h].pc = "open" /\ policy.tee # "mock"}

LEMMA MappedStep ==
  /\ Kind' = Kind /\ OpenChannels' = OpenChannels => [Pinned!Next]_(Pinned!channelVars)
  /\ \A kind \in {"pinned", "other"} :
       Kind = "down" /\ Kind' = kind /\ OpenChannels' = OpenChannels => [Pinned!Next]_(Pinned!channelVars)
  /\ Kind # "down" /\ Kind' = "down" /\ OpenChannels' = {} => [Pinned!Next]_(Pinned!channelVars)
  /\ \A h \in Handshakes :
       /\ Kind = "pinned" /\ h \notin OpenChannels /\ OpenChannels' = OpenChannels \cup {h} /\ Kind' = Kind
            => [Pinned!Next]_(Pinned!channelVars)
       /\ h \in OpenChannels /\ OpenChannels' = OpenChannels \ {h} /\ Kind' = Kind
            => [Pinned!Next]_(Pinned!channelVars)
BY DEF Pinned!Next, Pinned!Start, Pinned!Stop, Pinned!Open, Pinned!Close, Pinned!channelVars,
       Kind, OpenChannels

LEMMA InitRefines == Init => Pinned!Init
BY DEF Init, Unused, Pinned!Init

\* Nothing that the mapping looks at changes.
LEMMA HiddenStep ==
  ASSUME UNCHANGED <<client, up, run, issued>>,
         \A h \in Handshakes : conn'[h].pc = "open" <=> conn[h].pc = "open"
  PROVE  Kind' = Kind /\ OpenChannels' = OpenChannels
<1>1. policy' = policy BY DEF policy
<1>2. RunOf(run)' = RunOf(run) BY DEF RunOf
<1>3. OpenChannels' = OpenChannels BY <1>1 DEF OpenChannels
<1>4. Kind' = Kind BY <1>1, <1>2 DEF Kind, Meets
<1> QED BY <1>3, <1>4

\* Most steps of a handshake h are hidden: it is open neither before nor after.
LEMMA HiddenConn ==
  ASSUME TlsInv, NEW h \in Handshakes, NEW c, conn' = [conn EXCEPT ![h] = c],
         conn[h].pc # "open", c.pc # "open", UNCHANGED <<client, up, run, issued>>
  PROVE  [Pinned!Next]_(Pinned!channelVars)
<1>1. \A g \in Handshakes : conn'[g].pc = "open" <=> conn[g].pc = "open"
  BY TlsParts
<1> QED BY <1>1, HiddenStep, MappedStep

LEMMA HiddenTls ==
  ASSUME TlsInv, UNCHANGED tlsVars
  PROVE  [Pinned!Next]_(Pinned!channelVars)
BY HiddenStep, MappedStep DEF tlsVars

LEMMA HiddenRefusal ==
  ASSUME TlsInv, NEW h \in Handshakes, Refuse(h), conn[h].pc # "open",
         UNCHANGED <<client, up, run, issued>>
  PROVE  [Pinned!Next]_(Pinned!channelVars)
<1>1. PICK c : c = [Unused EXCEPT !.pc = "over"] OBVIOUS
<1>2. c.pc = "over" BY <1>1, UnusedFacts
<1> QED BY <1>1, <1>2, HiddenConn DEF Refuse

LEMMA ExamineRefines ==
  ASSUME TlsInv, NEW h \in Handshakes, NEW key, NEW e, conn[h].pc # "open", Examine(h, key, e)
  PROVE  [Pinned!Next]_(Pinned!channelVars)
<1>1. UNCHANGED <<client, up, run, issued>> BY DEF Examine
<1>2. CASE Wait(h, key, e)
  <2>1. PICK c : c = [pc |-> "verifying", key |-> key, evidence |-> e, at |-> 0] OBVIOUS
  <2>2. c.pc = "verifying" /\ conn' = [conn EXCEPT ![h] = c] BY <1>2, <2>1 DEF Wait
  <2> QED BY <1>1, <2>2, HiddenConn
<1>3. CASE conn' = [conn EXCEPT ![h] = [pc |-> "verified", key |-> key, evidence |-> e, at |-> now]]
  <2>1. PICK c : c = [pc |-> "verified", key |-> key, evidence |-> e, at |-> now] OBVIOUS
  <2>2. c.pc = "verified" /\ conn' = [conn EXCEPT ![h] = c] BY <1>3, <2>1
  <2> QED BY <1>1, <2>2, HiddenConn
<1>4. CASE Refuse(h) BY <1>1, <1>4, HiddenRefusal
<1> QED BY <1>2, <1>3, <1>4 DEF Examine

LEMMA MeetRefines ==
  ASSUME TlsInv, NEW h \in Handshakes, NEW key, NEW e, Meet(h, key, e)
  PROVE  [Pinned!Next]_(Pinned!channelVars)
<1>1. CASE Begin(h, key, e) BY <1>1, ExamineRefines DEF Begin
<1>2. CASE Capture(h, key, e)
  <2>1. PICK c : c = [pc |-> IF client.health THEN "asking" ELSE "captured", key |-> key,
                      evidence |-> e, at |-> 0] OBVIOUS
  <2>2. c.pc # "open" /\ conn[h].pc = "idle" /\ conn' = [conn EXCEPT ![h] = c]
        /\ UNCHANGED <<client, up, run, issued>>
    BY <1>2, <2>1 DEF Capture
  <2> QED BY <2>2, HiddenConn
<1> QED BY <1>1, <1>2 DEF Meet

\* A handshake is completed: a channel opens to the pinned relay.
LEMMA CompleteRefines ==
  ASSUME TlsInv, ChannelEndsInPinnedRelay', NEW h \in Handshakes, Complete(h)
  PROVE  [Pinned!Next]_(Pinned!channelVars)
<1>1. conn[h].pc = "verified" /\ UNCHANGED <<client, up, run, issued>> BY DEF Complete
<1>2. conn \in [Handshakes -> ConnRecords] BY TlsParts
<1>3. CASE conn' = [conn EXCEPT ![h].pc = "reported"]
  <2>1. \A g \in Handshakes : conn'[g].pc = "open" <=> conn[g].pc = "open"
    BY <1>1, <1>2, <1>3 DEF ConnRecords
  <2> QED BY <1>1, <2>1, HiddenStep, MappedStep
<1>4. CASE conn' = [conn EXCEPT ![h].pc = "open"]
  <2>1. /\ conn'[h].pc = "open"
        /\ \A g \in Handshakes \ {h} : conn'[g].pc = "open" <=> conn[g].pc = "open"
    BY <1>2, <1>4 DEF ConnRecords
  <2>2. policy' = policy /\ RunOf(run)' = RunOf(run) BY <1>1 DEF policy, RunOf
  <2>3. Kind' = Kind BY <1>1, <2>2 DEF Kind, Meets
  <2>4. CASE policy.tee = "mock"
    <3>1. OpenChannels' = OpenChannels BY <2>2, <2>4 DEF OpenChannels
    <3> QED BY <2>3, <3>1, MappedStep
  <2>5. CASE policy.tee # "mock"
    <3>1. OpenChannels' = OpenChannels \cup {h} /\ h \notin OpenChannels
      BY <1>1, <2>1, <2>2, <2>5 DEF OpenChannels
    <3>2. up /\ Meets(RunOf(run))
      <4>1. up' /\ Meets(RunOf(run))'
        BY <2>1, <2>2, <2>5 DEF ChannelEndsInPinnedRelay
      <4> QED BY <1>1, <2>2, <4>1 DEF Meets
    <3>3. Kind = "pinned" BY <3>2 DEF Kind
    <3> QED BY <2>3, <3>1, <3>3, MappedStep
  <2> QED BY <2>4, <2>5
<1>5. CASE Refuse(h) BY <1>1, <1>5, HiddenRefusal
<1> QED BY <1>3, <1>4, <1>5 DEF Complete

LEMMA CloseRefines ==
  ASSUME TlsInv, NEW h \in Handshakes, Close(h)
  PROVE  [Pinned!Next]_(Pinned!channelVars)
<1>1. conn' = [conn EXCEPT ![h] = Unused] /\ UNCHANGED <<client, up, run, issued>> BY DEF Close
<1>2. /\ conn'[h].pc = "idle"
      /\ \A g \in Handshakes \ {h} : conn'[g] = conn[g]
  BY <1>1, TlsParts, UnusedFacts
<1>3. policy' = policy /\ RunOf(run)' = RunOf(run) BY <1>1 DEF policy, RunOf
<1>4. Kind' = Kind BY <1>1, <1>3 DEF Kind, Meets
<1>5. OpenChannels' = OpenChannels \ {h} BY <1>2, <1>3 DEF OpenChannels
<1>6. CASE h \in OpenChannels BY <1>4, <1>5, <1>6, MappedStep
<1>7. CASE h \notin OpenChannels
  <2>1. OpenChannels' = OpenChannels BY <1>5, <1>7
  <2> QED BY <1>4, <2>1, MappedStep
<1> QED BY <1>6, <1>7

LEMMA StartRefines ==
  ASSUME TlsInv, NEW build \in Builds, StartRelay(build)
  PROVE  [Pinned!Next]_(Pinned!channelVars)
<1>1. ~up /\ up' /\ UNCHANGED <<client, conn>> BY DEF StartRelay
<1>2. OpenChannels' = OpenChannels BY <1>1 DEF OpenChannels, policy
<1>3. Kind = "down" BY <1>1 DEF Kind
<1>4. Kind' \in {"pinned", "other"} BY <1>1 DEF Kind
<1> QED BY <1>2, <1>3, <1>4, MappedStep

LEMMA StopRefines ==
  ASSUME TlsInv, StopRelay
  PROVE  [Pinned!Next]_(Pinned!channelVars)
<1>1. up /\ up' = FALSE BY DEF StopRelay
<1>2. Kind # "down" /\ Kind' = "down" BY <1>1 DEF Kind
<1>3. \A h \in Handshakes : conn'[h].pc # "open"
  BY UnusedFacts DEF StopRelay
<1>4. OpenChannels' = {} BY <1>3 DEF OpenChannels
<1> QED BY <1>2, <1>4, MappedStep

LEMMA NextRefines ==
  TlsInv /\ ChannelEndsInPinnedRelay' /\ [Next]_vars => [Pinned!Next]_(Pinned!channelVars)
<1> SUFFICES ASSUME TlsInv, ChannelEndsInPinnedRelay', [Next]_vars PROVE [Pinned!Next]_(Pinned!channelVars)
  OBVIOUS
<1>1. CASE UNCHANGED tlsVars BY <1>1, HiddenTls
<1>2. CASE UNCHANGED vars BY <1>1, <1>2 DEF vars
<1>3. ASSUME NEW h \in Handshakes, NEW ok \in BOOLEAN, HealthAnswered(h, ok)
      PROVE  [Pinned!Next]_(Pinned!channelVars)
  <2>1. conn[h].pc = "asking" /\ UNCHANGED <<client, up, run, issued>> BY <1>3 DEF HealthAnswered
  <2>2. CASE Refuse(h) BY <2>1, <2>2, HiddenRefusal
  <2>3. CASE conn' = [conn EXCEPT ![h].pc = "captured"]
    <3>1. \A g \in Handshakes : conn'[g].pc = "open" <=> conn[g].pc = "open"
      BY <2>1, <2>3, TlsParts DEF ConnRecords
    <3> QED BY <2>1, <3>1, HiddenStep, MappedStep
  <2> QED BY <1>3, <2>2, <2>3 DEF HealthAnswered
<1>4. CASE Environment
  BY <1>1, <1>3, <1>4 DEF Environment, Pass
<1>5. ASSUME NEW build \in Builds, StartRelay(build) PROVE [Pinned!Next]_(Pinned!channelVars)
  BY <1>5, StartRefines
<1>6. CASE StopRelay BY <1>6, StopRefines
<1>7. ASSUME NEW h \in Handshakes, MeetRelay(h) \/ MeetOther(h)
      PROVE  [Pinned!Next]_(Pinned!channelVars)
  BY <1>7, MeetRefines DEF MeetRelay, MeetOther
<1>8. ASSUME NEW h \in Handshakes, Verify(h) \/ VerifyReport(h)
      PROVE  [Pinned!Next]_(Pinned!channelVars)
  <2>1. conn[h].pc = "verifying" /\ UNCHANGED <<client, up, run, issued>>
    BY <1>8 DEF Verify, VerifyReport
  <2>2. CASE Refuse(h) BY <2>1, <2>2, HiddenRefusal
  <2>3. CASE conn' = [conn EXCEPT ![h].pc = "verified", ![h].at = now]
    <3>1. \A g \in Handshakes : conn'[g].pc = "open" <=> conn[g].pc = "open"
      BY <2>1, <2>3, TlsParts DEF ConnRecords
    <3> QED BY <2>1, <3>1, HiddenStep, MappedStep
  <2> QED BY <1>8, <2>2, <2>3 DEF Verify, VerifyReport
<1>9. ASSUME NEW h \in Handshakes, HandshakeStep(h) PROVE [Pinned!Next]_(Pinned!channelVars)
  <2>1. CASE UNCHANGED tlsVars BY <1>1, <2>1
  <2>2. CASE ExamineCaptured(h) BY <2>2, ExamineRefines DEF ExamineCaptured
  <2>3. CASE Verify(h) \/ VerifyReport(h) BY <1>8, <2>3
  <2>4. CASE Complete(h) BY <2>4, CompleteRefines
  <2> QED BY <1>9, <2>1, <2>2, <2>3, <2>4 DEF HandshakeStep
<1>10. ASSUME NEW h \in Handshakes, Close(h) PROVE [Pinned!Next]_(Pinned!channelVars)
  BY <1>10, CloseRefines
<1>11. CASE Exited BY <1>2, <1>11 DEF Exited
<1> QED BY <1>2, <1>4, <1>5, <1>6, <1>7, <1>9, <1>10, <1>11 DEF Next, Running

\* Attested TLS implements PinnedChannel: whatever servers answer and whatever
\* evidence they show (client.rs, verify_server_cert), a client only ever opens
\* channels to the pinned relay, and they end with it.
THEOREM TlsImplementsChannel == Spec => ImplementsChannel
<1> QED
  BY InitRefines, NextRefines, TlsInvariance, ChannelsEndInPinnedRelay, PTL
     DEF Spec, ImplementsChannel, Pinned!Spec
=============================================================================
