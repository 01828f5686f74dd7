---------------------------- MODULE AttestedTls ----------------------------
(***************************************************************************)
(* Attested TLS between a client process and the relay: relay-tls          *)
(* (server.rs, client.rs), with relay-attest's Confidential Space, SEV-SNP *)
(* and mock backends.  The relay asks its TEE for evidence once, when it   *)
(* starts; a client decides on the evidence at every handshake, by the     *)
(* policy it was started with (VerifierPolicy), after a possibly slow      *)
(* look-up of the issuer's keys (JwksCache) or of AMD's certificates       *)
(* (CertCache), while time passes, keys rotate, and the relay restarts     *)
(* with another image or configuration.  The online check                  *)
(* (tools/online-check) is a client that decides only after a handshake    *)
(* that accepts any certificate.                                           *)
(*                                                                         *)
(* A TLS key is a number: run r of the relay generates key r, and 0 is the *)
(* key of any other server.  REPORTDATA is the pair of the TLS key and the *)
(* configuration it binds (hashes are taken to be injective).              *)
(***************************************************************************)
EXTENDS JwksCache, CertCache, VerifierPolicy

CONSTANTS
  Images,     \* workload images
  Configs,    \* relay configurations
  Builds,     \* what the operator may start: [host, image, config, debug]
  Clients,    \* client processes: see VerifierPolicy
  Lifetime,   \* of a token, from its issue
  Skew,       \* MAX_CLOCK_SKEW_SECS
  MaxRuns     \* bound: launches of the relay

Tees == {"gcp", "sev", "mock"}

ASSUME TlsAssumption ==
  /\ Lifetime \in Nat /\ Skew \in Nat /\ MaxRuns \in Nat
  /\ {Unpinned, Malformed} \cap (Images \cup Configs) = {}

\* A guest that reports through the SNP device has a platform.
ASSUME BuildsAssumption ==
  \A b \in Builds :
    /\ b.image \in Images /\ b.config \in Configs /\ b.debug \in BOOLEAN
    /\ SelectAttester(b.host) = "sev" => b.host.platform \in Platforms

\* The types of the command lines and of the builder: a Strict policy has a
\* measurement, only a token's verifier enforces an identity of its own, the online
\* check has no mock backend, and its settings always make a configuration.
ASSUME ClientsAssumption ==
  \A c \in Clients :
    \/ c.app = "proxy" /\ c.backend \in Tees /\ c.allow_audit \in BOOLEAN
    \/ /\ c.app = "sdk" /\ c.measurement # Unpinned
       /\ c.policy \in {"Strict", "TrustOnFirstUse", "Audit", "GcpConfidentialSpace", "MockDev"}
       /\ c.verifier.enforce \in BOOLEAN
       /\ c.verifier.tee # "gcp" => ~c.verifier.enforce
    \/ /\ c.app = "check" /\ c.backend \in {"gcp", "sev"} /\ c.mode \in {"audit", "strict"}
       /\ c.print_only \in BOOLEAN /\ c.health \in BOOLEAN /\ c.inputs # Unpinned

VARIABLES
  client,   \* the client process: its command line or builder
  up,       \* the relay process runs
  run,      \* its number
  issued,   \* history: the evidence of every run
  conn      \* client connections: [pc, key, evidence, at]

tlsVars == <<client, up, run, issued, conn>>
lookupVars == <<cacheVars, certVars>>
vars == <<lookupVars, tlsVars>>

\* What the client's start-up made of its inputs.
policy == ClientPolicy(client)

\* A token carries its key and its lifetime, a report the platform that signed it;
\* a report and a mock quote do not age.
Evidence(key, tee, build) ==
  [tee |-> tee, key |-> key, config |-> build.config, image |-> build.image,
   debug |-> build.debug, platform |-> IF tee = "sev" THEN build.host.platform ELSE NoPlatform,
   kid |-> IF tee = "gcp" THEN latest ELSE 0, iat |-> IF tee = "gcp" THEN now ELSE 0,
   exp |-> IF tee = "gcp" THEN now + Lifetime ELSE 0]
EvidenceSet ==
  [tee : Tees, key : 0 .. MaxRuns, config : Configs, image : Images, debug : BOOLEAN,
   platform : Platforms \cup {NoPlatform}, kid : -1 .. MaxKid, iat : 0 .. MaxTime, exp : 0 .. MaxTime + Lifetime]
NoEvidence ==
  [tee |-> "none", key |-> 0, config |-> Unpinned, image |-> Unpinned, debug |-> FALSE,
   platform |-> NoPlatform, kid |-> 0, iat |-> 0, exp |-> 0]

\* What a server can make up by itself, for a key of its own: a mock quote, whose
\* signing key is a constant of the source; a token under a key nobody publishes; a
\* report that names a chip and is signed by another key.
Forgery(tee, image, config, p) ==
  [Evidence(0, tee, [host |-> [platform |-> p], image |-> image, config |-> config, debug |-> FALSE])
     EXCEPT !.kid = IF tee = "gcp" THEN -1 ELSE 0]
Selfmade ==
  {Forgery(tee, i, c, p) :
     tee \in Tees, i \in Images, c \in Configs, p \in {q \in Platforms : q.key # q.id}}

Unused == [pc |-> "idle", key |-> 0, evidence |-> NoEvidence, at |-> 0]

Init ==
  /\ CacheInit /\ CertInit
  /\ client \in Clients
  /\ up = FALSE /\ run = 0 /\ issued = {}
  /\ conn = [h \in Handshakes |-> Unused]
-----------------------------------------------------------------------------
(* The relay: AttestedTlsServer::new.                                       *)

\* A fresh key, REPORTDATA from the key and the configuration, evidence for it.
\* A host that cannot attest ends main before it serves.
StartRelay(build) ==
  /\ ~up /\ run < MaxRuns /\ CanAttest(build.host)
  /\ up' = TRUE /\ run' = run + 1
  /\ issued' = issued \cup {Evidence(run + 1, SelectAttester(build.host), build)}
  /\ UNCHANGED <<lookupVars, client, conn>>

\* The process ends and its connections break.
StopRelay ==
  /\ up
  /\ up' = FALSE
  /\ conn' = [h \in Handshakes |->
                IF conn[h].pc = "open" THEN [Unused EXCEPT !.pc = "over"] ELSE conn[h]]
  /\ UNCHANGED <<lookupVars, client, run, issued>>
-----------------------------------------------------------------------------
(* The client: AttestedCertVerifier::verify_server_cert.                    *)

Refuse(h) == conn' = [conn EXCEPT ![h] = [Unused EXCEPT !.pc = "over"]]

\* Slip: only the configuration half of REPORTDATA is compared.
ReportdataBindsConfigOnly(key, e) ==
  policy.config # Unpinned => e.config = policy.config

\* Steps 5 and 6, and the Confidential Space verifier's own comparison of the
\* whole REPORTDATA, which is asked for exactly when a configuration is pinned.
ReportdataBinds(key, e) ==
  /\ e.key = key
  /\ policy.config # Unpinned => e.config = policy.config

\* The measurement backends compare the launch measurement, if one is pinned.
MeasurementOk(e) == policy.image # Unpinned => e.image = policy.image

\* SevSnpVerifier, before it looks at the signature: no debug guest, the measurement.
ReportFits(e) == ~e.debug /\ MeasurementOk(e)

\* policy.validate(): a client that enforces the workload's identity pins one.
PolicyValid == policy.enforce => policy.image # Unpinned

\* decode_and_validate and verify_claims: signature by a listed key, validity
\* with leeway, and the workload's identity unless the client only audits.
TokenOk(e, keys) ==
  /\ e.kid \in keys
  /\ now <= e.exp + Skew
  /\ e.iat <= now + Skew
  /\ ~e.debug
  /\ policy.enforce => e.image = policy.image

\* The thread waits for keys or certificates.
Wait(h, key, e) ==
  conn' = [conn EXCEPT ![h] = [pc |-> "verifying", key |-> key, evidence |-> e, at |-> 0]]

\* Evidence the verifier goes on with: of its kind, under a complete policy, and a
\* report that fits.
Handled(e) ==
  /\ e.tee = policy.tee
  /\ CASE e.tee = "gcp" -> PolicyValid
       [] e.tee = "sev" -> ReportFits(e)
       [] e.tee = "mock" -> TRUE
       [] e.tee = "none" -> FALSE

\* Slip: the token's lifetime is looked at before the keys are fetched.
ExamineChecksExpiry(h, key, e) ==
  /\ look[h].pc = "idle" /\ endorse[h].pc = "idle"
  /\ IF Handled(e) /\ e.tee = "gcp"
       THEN /\ Wait(h, key, [e EXCEPT !.exp = IF now <= e.exp + Skew THEN MaxTime ELSE @])
            /\ StartLookup(h)
       ELSE Refuse(h) /\ UNCHANGED look
  /\ UNCHANGED <<now, issuer, cache, certVars, client, up, run, issued>>

\* The verifier gets the evidence.  A mock quote is decided at once; a token waits
\* for keys and a report for certificates.
Examine(h, key, e) ==
  /\ look[h].pc = "idle" /\ endorse[h].pc = "idle"
  /\ \/ /\ Handled(e) /\ e.tee = "gcp"
        /\ Wait(h, key, e) /\ StartLookup(h) /\ UNCHANGED endorse
     \/ /\ Handled(e) /\ e.tee = "sev"
        /\ Wait(h, key, e) /\ StartCheck(h, e.platform) /\ UNCHANGED look
     \/ /\ Handled(e) /\ e.tee = "mock"
        /\ IF MeasurementOk(e) /\ ReportdataBinds(key, e)
             THEN conn' = [conn EXCEPT ![h] =
                    [pc |-> "verified", key |-> key, evidence |-> e, at |-> now]]
             ELSE Refuse(h)
        /\ UNCHANGED <<look, endorse>>
     \/ ~Handled(e) /\ Refuse(h) /\ UNCHANGED <<look, endorse>>
  /\ UNCHANGED <<now, issuer, cache, certCache, client, up, run, issued>>

\* verify_server_cert: a certificate arrives in the handshake.
Begin(h, key, e) == conn[h].pc = "idle" /\ policy.inline /\ Examine(h, key, e)

\* The online check accepts any certificate and keeps it; the server proves that it
\* holds the key.  With --health it then sends a request and reads the answer,
\* before anything is known of the server.  The process makes one connection.
Capture(h, key, e) ==
  /\ ~policy.inline /\ \A g \in Handshakes : conn[g].pc = "idle"
  /\ conn' = [conn EXCEPT ![h] =
       [pc |-> IF client.health THEN "asking" ELSE "captured", key |-> key, evidence |-> e, at |-> 0]]
  /\ UNCHANGED <<lookupVars, client, up, run, issued>>

\* The answer is read to its end, or the connection breaks.
HealthAnswered(h, ok) ==
  /\ conn[h].pc = "asking"
  /\ IF ok THEN conn' = [conn EXCEPT ![h].pc = "captured"] ELSE Refuse(h)
  /\ UNCHANGED <<lookupVars, client, up, run, issued>>

ExamineCaptured(h) ==
  conn[h].pc = "captured" /\ Examine(h, conn[h].key, conn[h].evidence)

\* The relay answers with its own certificate; another server with one that
\* carries evidence it has seen, evidence it made, or none.
Meet(h, key, e) == Begin(h, key, e) \/ Capture(h, key, e)
MeetRelay(h) == up /\ \E e \in issued : e.key = run /\ Meet(h, run, e)
MeetOther(h) == \E e \in issued \cup {NoEvidence} \cup Selfmade : Meet(h, 0, e)

\* Keys in hand, the token is checked; or there are none.
Verify(h) ==
  LET e == conn[h].evidence IN
  /\ conn[h].pc = "verifying" /\ e.tee = "gcp" /\ look[h].pc \in {"ready", "refused"}
  /\ IF look[h].pc = "ready" /\ TokenOk(e, look[h].doc.keys) /\ ReportdataBinds(conn[h].key, e)
       THEN conn' = [conn EXCEPT ![h].pc = "verified", ![h].at = now]
       ELSE Refuse(h)
  /\ Release(h)
  /\ UNCHANGED <<now, issuer, cache, certVars, client, up, run, issued>>

\* The report's signature is decided.
VerifyReport(h) ==
  LET e == conn[h].evidence IN
  /\ conn[h].pc = "verifying" /\ e.tee = "sev" /\ endorse[h].pc \in {"endorsed", "refused"}
  /\ IF endorse[h].pc = "endorsed" /\ ReportdataBinds(conn[h].key, e)
       THEN conn' = [conn EXCEPT ![h].pc = "verified", ![h].at = now]
       ELSE Refuse(h)
  /\ EndCheck(h)
  /\ UNCHANGED <<cacheVars, certCache, client, up, run, issued>>

\* verify_tls13_signature: the peer holds the private key of the certificate.  A
\* relay that stopped meanwhile cannot sign any more.  The online check has seen
\* the signature already and prints its result.
Complete(h) ==
  /\ conn[h].pc = "verified"
  /\ CASE ~policy.inline -> conn' = [conn EXCEPT ![h].pc = "reported"]
       [] policy.inline /\ (conn[h].key = 0 \/ (up /\ conn[h].key = run)) ->
            conn' = [conn EXCEPT ![h].pc = "open"]
       [] OTHER -> Refuse(h)
  /\ UNCHANGED <<lookupVars, client, up, run, issued>>

\* The connection is used no more; the next one is verified from the start,
\* because the server issues no session tickets.
Close(h) ==
  /\ conn[h].pc \in {"open", "over"} /\ policy.inline
  /\ conn' = [conn EXCEPT ![h] = Unused]
  /\ UNCHANGED <<lookupVars, client, up, run, issued>>

-----------------------------------------------------------------------------
\* The thread's own steps of a handshake.
HandshakeStep(h) ==
  \/ LookupStep(h) /\ UNCHANGED <<certVars, tlsVars>>
  \/ CertStep(h) /\ UNCHANGED <<issuer, cache, look, tlsVars>>
  \/ ExamineCaptured(h)
  \/ Verify(h) \/ VerifyReport(h)
  \/ Complete(h)

\* The client's start-up failed, or the online check is over.  The relay is followed
\* only for a client that runs.
Exited ==
  /\ policy = NoPolicy \/ (~policy.inline /\ \E h \in Handshakes : conn[h].pc \in {"reported", "over"})
  /\ UNCHANGED vars

\* Time passes while every thread waits.
Pass ==
  /\ Advance
  /\ \A h \in Handshakes : KeysMayWait(h) /\ CertsMayWait(h)
  /\ UNCHANGED <<issuer, cache, look, certVars, tlsVars>>

Environment ==
  \/ Pass
  \/ (\E keep \in BOOLEAN : Rotate(keep)) /\ UNCHANGED <<certVars, tlsVars>>
  \/ \E h \in Handshakes, ok \in BOOLEAN :
       \/ IssuerAnswers(h, ok) /\ UNCHANGED <<certVars, tlsVars>>
       \/ KdsAnswers(h, ok) /\ UNCHANGED <<issuer, cache, look, tlsVars>>
       \/ HealthAnswered(h, ok)

Running ==
  \/ Environment
  \/ \E build \in Builds : StartRelay(build)
  \/ StopRelay
  \/ \E h \in Handshakes :
       \/ MeetRelay(h) \/ MeetOther(h)
       \/ HandshakeStep(h)
       \/ Close(h)

Next == Exited \/ (policy # NoPolicy /\ Running)

Spec == Init /\ [][Next]_vars

\* A handshake's thread runs; the HTTP client's timeout ends every fetch.
FairSpec == Spec /\ \A h \in Handshakes : WF_vars(HandshakeStep(h))
-----------------------------------------------------------------------------
\* Every variable has its type.
TypeOK ==
  /\ CacheTypeOK /\ CertTypeOK
  /\ client \in Clients
  /\ up \in BOOLEAN /\ run \in 0 .. MaxRuns
  /\ issued \subseteq EvidenceSet
  /\ conn \in [Handshakes ->
       [pc : {"idle", "asking", "captured", "verifying", "verified", "open", "reported", "over"},
        key : 0 .. MaxRuns, evidence : EvidenceSet \cup {NoEvidence}, at : 0 .. MaxTime]]

\* What a run of the relay really is.
RunOf(key) == CHOOSE e \in issued : e.key = key

\* A run of the relay is what the policy asks for.
Meets(e) ==
  /\ e.tee = policy.tee /\ ~e.debug
  /\ policy.config # Unpinned => e.config = policy.config
  /\ policy.enforce \/ (policy.tee = "sev" /\ policy.image # Unpinned) => e.image = policy.image

\* client.rs steps 1 to 6: an open connection ends in the relay process that is
\* running now, no debug guest, and that process is what the policy pins: image
\* and configuration, whoever answers and whatever evidence it shows.
ChannelEndsInPinnedRelay ==
  \A h \in Handshakes : conn[h].pc = "open" /\ policy.tee # "mock" =>
    up /\ conn[h].key = run /\ Meets(RunOf(run))

Pinned == INSTANCE PinnedChannel WITH
  Channels <- Handshakes,
  relay <- CASE ~up -> "down"
             [] up /\ Meets(RunOf(run)) -> "pinned"
             [] OTHER -> "other",
  chan <- {h \in Handshakes : conn[h].pc = "open" /\ policy.tee # "mock"}

\* Handshakes, whoever answers them, and restarts of the relay are no more than
\* channels that open to the pinned relay alone and end with it.
ImplementsChannel == Pinned!Spec

\* The client asked for the pins: trusted-relay-local without --allow-audit, an
\* SDK Strict or GcpConfidentialSpace policy that was left to choose its verifier,
\* the online check in strict mode.
Strict(c) ==
  CASE c.app = "proxy" -> ~c.allow_audit /\ c.backend # "mock"
    [] c.app = "sdk" -> c.policy \in {"Strict", "GcpConfidentialSpace"} /\ c.verifier = NoVerifier
    [] c.app = "check" -> c.mode = "strict"
AsksForToken(c) == IF c.app = "sdk" THEN c.policy = "GcpConfidentialSpace" ELSE c.backend = "gcp"
IdentityAsked(c) == IF AsksForToken(c) THEN c.digest ELSE c.measurement
ConfigAsked(c) == IF c.app = "check" /\ c.config = Unpinned THEN c.inputs ELSE c.config

\* What a strict client was told to expect is what it is connected to, across
\* all that stands between: start-up, choice of verifier, and the handshake.
StrictClientsGetTheirPins ==
  \A h \in Handshakes : conn[h].pc = "open" /\ Strict(client) =>
    /\ up /\ conn[h].key = run
    /\ RunOf(run).config = client.config
    /\ RunOf(run).image = IdentityAsked(client)

\* main.rs of the online check: "RESULT: OK" is printed only of a server that holds
\* the key of a real run of the relay in the TEE asked for, not a debug guest, and
\* in strict mode of the image and configuration asked for.  (That run may be over.)
CheckSpeaksTruth ==
  \A h \in Handshakes : conn[h].pc = "reported" =>
    /\ conn[h].key # 0 /\ RunOf(conn[h].key).tee = client.backend /\ ~RunOf(conn[h].key).debug
    /\ Strict(client) =>
         /\ RunOf(conn[h].key).config = ConfigAsked(client)
         /\ RunOf(conn[h].key).image = IdentityAsked(client)

AsksForMock(c) ==
  CASE c.app = "proxy" -> c.backend = "mock"
    [] c.app = "sdk" -> c.policy = "MockDev" \/ c.verifier.tee = "mock"
    [] c.app = "check" -> FALSE

\* The SDK's fail-closed promise (client.rs, lines 9-11): mock evidence never
\* opens a connection of a client that did not ask for the mock.
NeverMockUnasked ==
  \A h \in Handshakes : conn[h].pc \in {"open", "reported"} /\ ~AsksForMock(client) =>
    conn[h].evidence.tee # "mock"

\* No handshake is completed on a token past its expiry and leeway, also when it
\* expired while the issuer's keys were fetched, and none on a key that the
\* issuer withdrew more than a cache lifetime and a fetch before.
AcceptedWhileValid ==
  \A h \in Handshakes : conn[h].pc \in {"verified", "open", "reported"} /\ policy.tee = "gcp" =>
    LET e == RunOf(conn[h].key) IN
    /\ conn[h].at <= e.exp + Skew
    /\ e.kid \in published \/ withdrawn[e.kid] >= conn[h].at - (Ttl - 1) - FetchTimeout

-----------------------------------------------------------------------------
(* The inductive invariant behind these properties.                         *)

\* Every run has one piece of evidence, made for its key, under a key the issuer had.
IssuedInv ==
  /\ \A e \in issued :
       /\ e.key \in 1 .. run
       /\ e.tee = "gcp" => e.kid \in 0 .. latest
       /\ e.tee = "sev" => e.platform \in Platforms
  /\ \A e, f \in issued : e.key = f.key => e = f
  /\ \A r \in 1 .. run : \E e \in issued : e.key = r
  /\ up => run > 0

\* Evidence that no run of the relay was issued, as far as a server can make it.
Forged(e) ==
  /\ e.key = 0
  /\ e.tee = "gcp" => e.kid = -1
  /\ e.tee = "sev" => e.platform \in Platforms /\ e.platform.key # e.platform.id

\* A certificate is the one of the chip whose URL it was fetched from, and the one a
\* check goes on with is that of the chip its report names.
CertsNameTheirChip ==
  /\ \A u \in CertUrls : u[1] = "leaf" /\ certCache[u].bytes.what = "leaf" =>
       certCache[u].bytes.chip = u[3]
  /\ \A h \in Handshakes :
       LET q == endorse[h] IN
       /\ q.pc = "answered" /\ q.stage = "leaf" /\ q.bytes.what = "leaf" => q.bytes.chip = q.platform.id
       /\ q.pc \in {"lookup", "asked", "answered"} /\ q.stage = "chain" /\ q.leaf.what = "leaf" =>
            q.leaf.chip = q.platform.id
       /\ q.pc = "endorsed" => q.platform.key = q.platform.id

\* What a handshake has established at each stage.
ConnInv(h) ==
  LET c == conn[h]
      e == c.evidence
  IN  /\ c.at <= now
      /\ e \in issued \/ e = NoEvidence \/ Forged(e)
      /\ c.pc = "verifying" => Handled(e)
      /\ endorse[h].pc \in {"lookup", "asked", "answered", "endorsed"} =>
           c.pc = "verifying" /\ e.tee = "sev" /\ e.platform = endorse[h].platform
      /\ c.pc \in {"verified", "open", "reported"} =>
           /\ e.tee = policy.tee /\ e.tee # "none"
           /\ policy.tee # "mock" => e \in issued /\ e.key = c.key /\ Meets(e)
           /\ policy.tee = "gcp" =>
                /\ c.at <= e.exp + Skew
                /\ e.kid \in published \/ withdrawn[e.kid] >= c.at - (Ttl - 1) - FetchTimeout
      /\ c.pc = "open" => policy.inline /\ (policy.tee # "mock" => up /\ c.key = run)
      /\ c.pc = "reported" => ~policy.inline

\* All of it, with the invariants of the two caches.
TlsInv ==
  /\ TypeOK /\ CacheInv /\ CertInv
  /\ IssuedInv /\ CertsNameTheirChip
  /\ \A h \in Handshakes : ConnInv(h)
-----------------------------------------------------------------------------
\* Every verification ends, whatever the issuer's and AMD's servers do.
HandshakesEnd ==
  \A h \in Handshakes :
    conn[h].pc \in {"verifying", "verified"} ~> conn[h].pc \notin {"verifying", "verified"}
=============================================================================
