# The confidential relay in TLA+

This directory models the relay of this repository: a proxy for model providers
that runs in a confidential VM, holds the provider's credential in its memory only,
and proves to its clients, during the TLS handshake, what it is. The modules follow
the Rust source; `PROJECT.json` maps each definition to the lines it models.

## 1. The system

| Part | State | Operations | Talks to |
|---|---|---|---|
| Relay server (`server/src/main.rs`) | phase of `main`, listeners | start-up, private admin endpoint, accept loop, exit | everything below |
| Credential store (`relay-core/secrets.rs`) | `RwLock<Option<ProviderCredential>>` | `get`, `set`, `set_once`, `validate`, `authorization_value` | admin and data handlers |
| Data plane (`relay-core/proxy.rs`, `error.rs`, `router.rs`) | one task per request | `proxy_chat_completions`, upstream client with pins and timeout | store, configuration, provider |
| Configuration (`relay-core/config.rs`) | immutable after start | `validate`, `resolve_upstream`, `check_upstream_allowed`, pin tables, `config_hash` | data plane, attestation |
| Attested TLS (`relay-tls`) | key, certificate and evidence of a run; verifier of a client | `AttestedTlsServer::new`, `verify_server_cert` | attestation backends |
| Confidential Space backend (`relay-attest/gcp_confidential_space.rs`) | process-wide JSON cache | token request, token verification, `fetch_json_cached` | launcher, token issuer |
| SEV-SNP, TDX, mock backends (`relay-attest`) | certificate cache (SEV-SNP) | `attest`, `verify` | hardware, AMD's key service |
| Attestation at start-up (`relay-attest`) | none | launcher socket, chunked answers, guest device, certificate table | hardware, launcher |
| Gateway (`tools/gateway`) | one task per connection | CONNECT exchange, copying | local proxy, relay |
| Local proxy (`tools/local-proxy`) | connection pool | `connect_transport`, request forwarding | gateway, relay |
| SDK, command lines | none | choice of verifier and pins | attested TLS |
| Online check (`tools/online-check`) | none | one audit of a running relay | attested TLS |

A request goes from an application to the local proxy, through the gateway (which
sees ciphertext) to the relay, and from there to the provider under the relay's own
credential. The operator injects that credential over the private admin endpoint.

What is hard here:

* *Interleaving.* Handlers are tokio tasks that read the store once and then await
  the network; two admin calls race for a store that may be filled once; the mutex
  of the key cache is released during a fetch.
* *Failure.* The process dies with its credential and its TLS key, answers get lost,
  providers redirect, never answer, or stop in the middle of a stream.
* *Time.* Tokens expire and keys are withdrawn while a handshake waits for a fetch.
* *Streams.* Both ends of the tunnel read lines through a buffer and then give it up;
  the relay decodes an HTTP answer by hand.
* *Pooling.* The local proxy reuses connections that may have ended with the relay
  they were verified against.

What makes each part correct: the relay *fails closed* and has one credential per
run; a configuration that is accepted is the one that is obeyed; an attested
connection ends in the relay that was pinned, and in no stale one; keys the issuer
withdrew, and certificates and wrong answers AMD's service gave, are forgotten in
bounded time; a prompt meets the pinned relay alone, and once; the tunnel loses and
leaks nothing; and requests, admin calls, handshakes and CONNECT exchanges end.
`PROJECT.json` lists the hazards line by line, with the properties that cover them.

## 2. Modules

| Module | Models | Notes |
|---|---|---|
| `RelayConfig` | `config.rs` as operators | origins, longest prefix, allowlist, pins, validation |
| `RelayRouting` | a configuration from validation to a connection | routes, allowlist, certificate check |
| `ProviderCredential` | `secrets.rs` as operators | strings by the kind of their bytes |
| `CredentialGate` | what the relay promises | abstract: one slot, one decision per request |
| `RelayServer` | `main`, store, admin and data handlers | extends the two operator modules, implements `CredentialGate` |
| `RelayServerProofs` | - | two inductive invariants, theorems and the refinement of `CredentialGate` |
| `RelayRoutingProofs` | - | theorems of `RelayRouting`, lemmas about `RelayConfig` |
| `Tunnel` | gateway and `connect_transport` | one connection, byte streams as items |
| `TunnelProofs` | - | theorems of `Tunnel` |
| `Clock` | `Instant::now()` | shared by the two caches |
| `JwksCache` | `fetch_json_cached` | extends `Clock`; concurrent handshakes |
| `JwksCacheProofs` | - | theorems of `JwksCache` |
| `CertCache` | `verify_report_signature`, `fetch_cert_bytes_cached` | extends `Clock`; rounds over the products, concurrent handshakes |
| `CertCacheProofs` | - | theorems of `CertCache` |
| `VerifierPolicy` | command lines of the local proxy and the online check, SDK builder, `select_attester`, as operators | from inputs to the checks of a handshake |
| `PinnedChannel` | what attested TLS promises | abstract: channels open to the pinned relay alone and end with it |
| `AttestedTls` | attested TLS server and client, the online check | extends both caches and `VerifierPolicy`, implements `PinnedChannel` |
| `AttestedTlsProofs` | - | theorems of `AttestedTls` and the refinement of `PinnedChannel`; extends the caches' proofs |
| `Attester` | `attest()` of both TEEs | launcher's answer, chunked body, certificate table |
| `AttesterProofs` | - | theorems of `Attester` |
| `ConfidentialRelay` | `proxy_request`, its connector and pool, over the two abstract specifications | composes `PinnedChannel` and `CredentialGate` |
| `ConfidentialRelayProofs` | - | theorems of `ConfidentialRelay` |
| `MC...` | - | constants for TLC |

Two chains of refinement meet in `ConfidentialRelay`: `RelayServer` implements
`CredentialGate`, `AttestedTls` implements `PinnedChannel`, and the composition is
written in terms of the two abstract specifications, so that it is small enough for
several prompts and for proofs.

### RelayServer

An action is what a task does between two awaits. `proxy_chat_completions` becomes
`Arrive` (body limit, routing, allowlist), `ReadCredential` (the read lock and all
up to `send()`), `Deliver`, `SendFails`, `Redirect`, `ReceiveHead`, then `ReadBody`
or `BodyFails` for a buffered body and `EndStream` for an event stream; `ClientGone`
drops the handler at any await. `inject_provider_credential` becomes `Inject`
(`validate`), `SetOnce` (under the write lock) and `AnswerInjection`, and its
connection may break (`LoseInjection`) on either side of the write. `main` becomes
`Launch`, `Configure`, `OpenAdmin`, `BindData`; `Die` stands for every way out of it.
`delivered` and `held` are history: what providers received, and what the store has
held in which run.

A credential's strings are kinds of bytes ("padded", "newline", ...), because
`validate` trims the scheme and `authorization_value` does not. A provider's status is
`auth_failed` (401 and 403), 413, 503 or `other`. The relay passes a provider's 413
and 503 on and gives the same numbers itself when it refuses a request, so that a
client cannot tell the two by the status; `OwnStatus` is the status of an answer
the relay gave itself, and `RefusedBeforeContact` and `InstalledMeansUsed` are about that one.
The body of an event stream is polled only while its client reads (`ClientPauses`,
`stalled`): neither its end nor the timeout is noticed while it does not. Header names
other than Authorization, logging and redaction are left out. `Redirect` is reqwest's
default policy and is marked external: the source does not configure it.

`CredentialGate` says the same without handlers and locks. `ImplementsGate` maps
`cell` to the slot, a handler's pc to a verdict and `delivered` to what was seen.

### RelayRouting

`RelayServer` always has an empty route table, as `main` builds it. Routes are a
feature of the library, which `RelayRouting` covers with its own state machine:
validation once, then requests. Two URLs may be two spellings of one origin; `rank`
is the position of the raw string in the `BTreeMap`. A host is what `host_str()`
returns, with brackets around an IPv6 literal; the name a TLS connection is verified
under has none (`ServerName`), so that pins of such a host are filed under one name
and looked up under another, as in the code. The module has no redirects: a request
goes where its route sends it, and what a provider does with it then is
`RelayServer`'s.

### Tunnel

The CONNECT exchange is a sequence of lines, the payload numbered TLS records. A
`BufReader` takes any non-empty prefix of what has arrived (`FillClient`,
`FillGateway`), so that every way of cutting the stream into reads is covered, and
`into_inner` drops what it holds. The client speaks first inside the tunnel because
TLS does; this is why nothing is lost (the mutant of `TunnelIsTransparent` lets
it write one record too early).

### The caches and AttestedTls

Time passes in ticks, only while nobody computes: a thread's own steps take no time,
a fetch at most its timeout. `JwksCache` and `CertCache` are each complete by
themselves. They differ where the code does: the key cache stamps an entry when the
answer has come and parses it when it is used; the certificate cache stamps it with
the time before the fetch. Both release their mutex during a fetch and let the last
answer win. In `CertCache` a check goes through the products in order: certificate of
the signer (from the evidence, or fetched for a VCEK), chain of the product, verdict
(`Endorses`: chain to a pinned root, and the report's signature under the
certificate's key); an error ends the round, not the check.

`AttestedTls` adds the relay's runs, the evidence of each, and clients that connect
to the relay or to another server, which can show any evidence it has seen and make
up some (`Selfmade`): a mock quote, a token under a key nobody publishes, a report in
the name of a chip that another key signed. Hashes are injective and signatures
unforgeable, except the mock's, whose signing key is in the source.

The online check decides after a handshake that accepts any certificate (`Capture`),
so that "RESULT: OK" speaks of a run that may be over by then: `CheckSpeaksTruth`
claims that it was a real run of the kind that was asked for, not that it runs.

A client is its command line or builder. `ClientPolicy` is what its start-up makes
of it: the verifier, what that verifier compares, and the pinned configuration, or
no client at all (`NoPolicy`). `Unpinned` is a pin that was not given, `Malformed`
one that does not parse. `enforce` is TRUE for `GcpConfidentialSpaceVerifier::new`
and FALSE for `new_audit`; `image` is a digest, a signature key or a launch
measurement. Cargo features are part of a client, because the choice of the verifier
depends on them. An explicit verifier of the SDK overrides its policy's own identity
pin: `StrictClientsGetTheirPins` is about clients that leave the choice to the SDK,
`ChannelEndsInPinnedRelay` about all.

### Attester

`TryConnect` is one turn of `connect_launcher_socket`; `DecodeChunk` one turn of
`decode_chunked_body`. `SizeOf` reads a size line as the code does: it refuses one
that is no UTF-8, cuts it at a `;`, trims it, and takes what `from_str_radix` takes:
hexadecimal digits of either case, leading zeros, a plus sign, a value up to
`usize::MAX`. That maximum is a constant, `MaxUsize`; in the run it is 31, so that two
digits reach it and the checked addition and the unchecked one both overflow. `Said`
is the reference: what a chunked body says, by the grammar, as a recursive function.
The whole body a cut answer belongs to is kept as history (`whole`). A body that is not
in chunks is taken as far as it came, cut or not, so that `CutsAreNoticed` is about
chunks. The certificate table is `cert_blob_used_len` on the relay's side against
`find_cert` on the client's.

### ConfidentialRelay

`proxy_request` is `Arrive`, then a channel from the pool (`Reuse`) or of its own
(`Connect`, the abstract `Open`), `Write`, and an answer or an error. hyper's pool is
external and modelled from its contract: a pooled channel may be closed without the
client's knowledge; a request that was not written yet is started over only if its
channel came from the pool (`Cancelled`); one that was written is never (`Lost`).
The relay's side is the gate's: a prompt that is received is refused or committed.
The operator starts the pinned build or any other, in any mode.

## 3. Runs

| Run | Shows | Bounds |
|---|---|---|
| `relay_server` | `FailClosed`, `OneCredentialPerRun`, `AnswersTellTheStore`, `RefusedBeforeContact`, `BufferedAuthFailuresSanitized`, `AllowlistSettledAtStartup`, `OnlyCliTokensBreakRequests`, and the refinement `ImplementsGate` | 2 runs of the process, 6 command lines, 2 admin calls, 3 credentials, 1 request, 1 redirect |
| `relay_race` | `InstalledMeansUsed`, `RequestsEnd`, `InjectionsEnd` | 2 requests against 1 injection, production and development mode |
| `relay_routing` | `LongestPrefixWins`, `ValidatedNeverBlocked`, `PlainHttpBaseIsLocal`, `PinnedHostsChecked`, `PinsLostOnlyToRespelling` | nested prefixes, 8 URLs, 9 pin tables, 4 certificates, a local route without a leading slash |
| `tunnel` | `TunnelIsTransparent`, `CleanEndDeliversAll`, `OnlyTokenHoldersReachRelay`, `OpenMeansDialled`, `ConnectEnds` | 9 requests, 2 records each way |
| `verifier_caches` | `WithdrawnKeysExpire`, `CertificatesExpire`, and `CacheInv` and `CertInv`, the invariants of the proofs | 2 handshakes on one of the caches, 6 ticks, lifetime 2, fetch 1, 2 rotations, a report and a forged one |
| `attested_tls` | `ChannelEndsInPinnedRelay`, `StrictClientsGetTheirPins`, `CheckSpeaksTruth`, `NeverMockUnasked`, the refinement `ImplementsChannel`, and `HandshakesEnd` | 2 runs of 10 builds on 4 hosts, 28 clients, 2 products, 1 handshake at a time |
| `attested_time` | `AcceptedWhileValid` | 2 handshakes of a client of each TEE, 1 run, 4 ticks, 1 rotation |
| `attester` | `DecodesWhatIsSaid`, `CutsAreNoticed`, `CertificateSurvives` | a `usize` of five bits, bodies of up to 3 of 17 pieces, every cut of two encodings of a token, tables of up to 2 cells in 8 units |
| `confidential_relay` | `PromptsStayPinned`, `ProcessedOnce`, `ProvidersSeeCredential`, and `RelayInv`, the invariant of the proofs | 3 prompts, 2 channels, 2 credentials, any number of restarts |

Why the bounds suffice: a race for the store needs two writers; a stale answer needs
one run after another; a request does not interact with another one except through
the store, so that two of them race one injection in `relay_race`. The cache runs
need a lifetime above one tick for the last tick of freshness to matter and a fetch
that spans a tick, so that an answer can be older than its entry. Two records show
loss and reordering in a tunnel. `attested_tls` has hardly any time, because identity
does not depend on it; `attested_time` has one identity. A third prompt in
`confidential_relay` finds a channel in the pool that two others have left. In
`attester`, three pieces make a chunk followed by the last one with its end, or a size
line, its data and whatever comes in place of the line end.

`CHECK_DEADLOCK FALSE` is set where the system may stop: requests, admin calls and
launches are finite in number, and a closed tunnel has nothing left to do.

### Where the documentation and the code disagree

Three runs expect a violation; each states a sentence of the documentation.

* `relay_stream`: the README says that 401 and 403 bodies are sanitized; an event
  stream is not.
* `relay_redirect`: the relay refuses to forward to an origin off the allowlist, but
  reqwest follows a redirect of the provider, with the body for 307 and 308. The
  Authorization header is dropped when the host or port changes.
* `relay_routing_glued`: the allowlist check looks at a route's base URL; a path
  without a leading slash makes another host of it. `main` builds no routes, so that
  this concerns users of the library.

Four more were met while modelling and have no run of their own:

* The online check's `--health` is described as a request "after attestation
  succeeds" (`tools/online-check/src/main.rs`, 154); it is sent, and its answer read,
  before the evidence is looked at (500-506). `Capture` and `HealthAnswered` have the
  code's order.
* The online check's audit mode is described as one that does "not pin workload
  identity/config" (40). With the Confidential Space backend and no
  `--expected-config-hash` it asks for a REPORTDATA whose configuration half is zero
  (`ZeroHash`), which no relay binds, so that it refuses every relay.
* `decode_chunked_body` returns errors for bad sizes, but panics for one within two
  of `usize::MAX` after the addition (`DecodeChunk`, pc `panicked`). Either ends
  start-up.
* Of pins: "When present for an origin, the relay only forwards after the provider
  certificate matches one of the configured pins" (`crates/relay-core/src/config.rs`,
  75-78). An origin whose host is an IPv6 literal is an exception: `upstream_tls_pin_hosts` (380-386)
  files its pins under `[::1]`, and `verify_server_cert` (`proxy.rs`, 312-313) looks
  for `::1`, finds nothing and leaves it at WebPKI. `ServerName` and `VerifyServerCert`
  have this, and `PinnedHostsChecked` leaves such hosts out. The local address `::1` of
  `is_local_http_url` never matches for the same reason (`LocalHosts`).

## 4. Fairness

* `RelayServer!Fairness`: tokio polls every ready task, and the upstream client's
  timeout covers connection, head and body, so that `SendFails`, `BodyFails` and, while
  the client reads, `EndStream` stay enabled until one of them, or an answer, happens.
  Nothing is assumed of the provider, the clients or the operator: a client that stops
  reading an event stream holds its request up for as long as it likes, and
  `RequestsEnd` says that nothing else does.
* `Tunnel!FairSpec`: both processes run. `ConnectEnds` says nothing of a
  request without an end of headers, which the gateway reads without a timeout.
* `AttestedTls!FairSpec`: the thread of a handshake runs; the HTTP client's timeout
  ends every fetch, of the issuer's keys and of AMD's certificates. Nothing is assumed
  of either server.

## 5. Proofs

Each theorem holds for every value of the constants that meets the assumptions below:
any numbers of requests, prompts, handshakes, channels, runs, restarts, routes and
records, any width of `usize` and bodies of any length below it. Every
invariant a run checks is proved, and so are the refinements and the other action
properties. The argument is the same everywhere: an inductive invariant that is
stronger than the properties, preserved action by action. TLC checks it first where
it is cheap to (`CacheInv`, `CertInv` and `RelayInv` are invariants of runs).

### The relay

`RelayServerProofs` has two invariants. `IndInv` (theorem `Invariance`) is about the
store. Neither `OneCredentialPerRun` nor `FailClosed` is inductive: the first needs
that in a live run the store still holds what it ever held, and that a run that has
not reached `--provider-token` has held nothing (`StoreInv`); the second that the
snapshot a handler took at its read lock is still the store's value when the request
leaves, that no handler outlives its process, and that a handler of a production relay
past the lock carries the relay's credential until a redirect drops it (`HandlerInv`).
`ServerInv`, on top of it, says what the record of a request (`RecordInv`) and of an
admin call (`CallInv`) tells at each await, and what a configuration that passed
`Configure` allows (`ConfigInv`). From it follow `AnswersTellTheStore`,
`InstalledMeansUsed`, `RefusedBeforeContact`, `BufferedAuthFailuresSanitized`,
`AllowlistSettledAtStartup` and the action property `OnlyCliTokensBreakRequests`.

`RelayImplementsGate` proves the refinement of `CredentialGate`. The step that matters
is `ReadCredential`: the abstract relay decides a request there, although the request
leaves, is redirected and fails later; all later steps stutter or show a provider what
was decided. `Die` maps to `Stop`, which closes the handlers that were open.

### The caches

`JwksCacheProofs`: a withdrawn key is trusted for at most `Ttl - 1 + FetchTimeout`
ticks, for any lifetime above zero and any timeout. The invariant follows a document
on its way: an answer lists what was published at or after its request; the request is
at most one fetch old when the answer is inserted; an entry that is used is younger than
the lifetime. The step that could break it is `Receive`, which overwrites a newer
entry; it holds because the new entry is itself at most one fetch old.

`CertCacheProofs`: for any lifetime longer than the fetch timeout (`KdsAssumption`; in
the code six hours and thirty seconds). The invariant says of an entry that its bytes
were written at or after its stamp, and of a check that bytes on their way were written
after its lookup began and that a fetched certificate was young when the lookup of its
chain began. `ReceiveCert` may put an older entry over a newer one; the older stamp
keeps that harmless. Stamping when the answer arrives, as the key cache does, would
break it: that is its mutant.

### Attested TLS

`AttestedTlsProofs` extends both cache modules' proofs and reuses their invariants for
the steps that touch a cache. `TlsInv` adds

* `IssuedInv`: a run has one piece of evidence, for a key of its own;
* `CertsNameTheirChip`: a certificate fetched from a URL belongs to the chip the URL
  names, or is junk, so that a report another key signed finds no certificate;
* `ConnInv`: what a client was shown was issued or is recognisably forged; what it
  accepted was issued for the key of the handshake and meets its policy (`Meets`); an
  open connection ends with the run.

`ChannelEndsInPinnedRelay`, `CheckSpeaksTruth`, `NeverMockUnasked` and
`AcceptedWhileValid` are read off it; `StrictClientsGetTheirPins` also needs what
`ClientPolicy` makes of a strict command line or builder, for every client.
`TlsImplementsChannel` proves the refinement of `PinnedChannel`: `Complete` maps to
the abstract `Open`, the end of a run to the end of its channels, everything else
stutters.

### Routing, tunnel, attester

`RelayRoutingProofs` first proves what the operators of `RelayConfig` compute. A pin
table is normalised in the order of its keys, so that the module proves that a finite
table has a sorted enumeration (of the sets without one, take a smallest), that what
the verifier compares with was written for that host, and that a pin is lost only to
another spelling of its origin that sorts behind it. `RoutingInv` then says that a
route that is in use is the one of a validated configuration and passed the allowlist,
and what the certificate check said of the last connection. `PlainHttpBasesAreLocal` is
about the base URL of a route under an allowlist that is not empty; where a path
glued to it or a redirect leads is what `relay_routing_glued` and `relay_redirect`
show. `PinsHold` and `PinsCount` leave IPv6 literals out.

`TunnelProofs`: `TunnelInv` says of each direction that what was read, what a
`BufReader` holds and what is in flight are together what was written (`UpInv`,
`DownInv`), where the CONNECT exchange comes before the records and ends with the
blank line; and of the request (`RequestInv`) that what the gateway believes of it is
what the lines it has read say: the last Authorization line decides, as each
overwrites the one before (`LastTokenIsRight`). `into_inner` drops nothing because at that moment the
other side has not written a record: this is a consequence, not an assumption.

`AttesterProofs`: the certificate table is a lemma about `CertBlobUsedLen` and
`FindCert`, for tables of any size. For the decoder, `Said` is a recursive function, and
that it satisfies its equation at all has to be proved: solutions up to any length
exist and agree, and of the bodies that spoil either a shortest one would not
(`SaidUnfolds`). `DecodeInv` then is: the body says what has come out, followed by what
the rest of it says. Of `SizeOf` the proofs need that it gives `None` or a number up to
`MaxUsize`, and that the decoder and the grammar apply it to the same line, however
it reads that line. `NoCutPasses` adds that what the beginning of a chunked body says
the whole says, and that a body says one thing at most; of a plain body that was cut it
says nothing, because the code takes it as it is.

### The composition

`ConfidentialRelayProofs`: none of the three properties is inductive.
`PromptsStayPinned` needs that a channel, or a prompt in work, implies that the pinned
relay runs; `ProcessedOnce` that a prompt that was received is never back before
`Write`, and is in work or has lost its channel for good; `ProvidersSeeCredential` that
what is committed is in work in the pinned run and has a credential (`Belongs`).
`ProxyRespectsChannel` and `RelayRespectsGate` prove that the composed system is a
behaviour of each abstract specification by itself, so that it adds nothing the two
components do not promise; `RelayImplementsGate` and `TlsImplementsChannel` prove that
the components keep these promises. `Gate!Spec` and `Channel!Spec` are conjunctions
of an initial condition and a step relation, without fairness.

### Assumptions

All are named in the module that declares the constants, and TLC evaluates them.

| Assumption | Says | Why |
|---|---|---|
| `BoundsAssumption`, `RecordsAssumption`, `WaitAssumption`, `UsizeAssumption`, `TlsAssumption` (numbers) | bounds and lifetimes are naturals | - |
| `CredentialAssumption`, `RelayAssumption`, `TlsAssumption` (pins) | "none", "not given" and "malformed" are not values | `Option` and parse errors |
| `OptionAssumption`, `LaunchAssumption`, `InputAssumption` | fields exist and flags are Boolean | Rust's types |
| `KdsAssumption` | certificates live longer than a fetch may take; platforms are records | two constants of `sev_snp.rs` |
| `BuildsAssumption` | a guest that reports through the SNP device has a platform | there is no report without a chip |
| `ClientsAssumption` | the command line and the builder have the types of the code: a strict SDK policy has a measurement, the check has no mock backend | `clap` and the enum |
| `ConfigsAssumption` | tables are finite, keys of the pin table are ordered | `BTreeMap` |
| `HeadsAssumption` | a request has a blank line at its end, or none | the first one ends the headers |
| `AnswerAssumption` | a body is shorter than `usize::MAX`; a cut one is the beginning of the whole | it is in memory; a stream socket keeps order |
| `TableAssumption` | sizes are naturals | `u32`, added in `usize` |

Signatures, hashes and X.509 are assumptions of the model itself (section 2).

### What the proofs found

* Two arms of the choice of a verifier overlapped in `VerifierPolicy`, and TLC took the
  first one: the guards are disjoint now, as Rust's `match` makes them.
* `PlainHttpBaseIsLocal` compared the last address with the route, also after the next
  request had been routed. It is stated for `phase = "ready"`, when the two belong
  together.
* The downstream half of `TunnelInv` did not hold of a client that had left while the
  gateway was still writing; the bytes in flight to it are now part of the statement.
* The launcher's cut answers carried the token they should give, which said nothing
  of answers outside the instance. They carry the whole body now, and what that says
  is computed.

### Only model-checked

The liveness properties `RequestsEnd`, `InjectionsEnd`, `ConnectEnds` and
`HandshakesEnd` (TLAPS does not support fairness), and the properties that expect a
violation.

## 6. Not modelled, and the plan

Done: every module of section 2 and the theorems of section 5. What is left:

1. The remaining claims of a Confidential Space token (service account, project,
   zone, secure boot): each is one comparison with a pin, made in sequence, and none
   depends on another or on time.
2. A statement of the whole: the theorems about the components are composed by the
   reader, because a constant of one specification (the policy of a client, the command
   line of the relay) is chosen by the state of another.

Left out for good:

* `config_hash`: whether two configurations that behave differently can have one hash
  is a question about SHA-256 over JSON text. The handshake models take the hash for
  the configuration. (The online check does not trim the credential scheme before it
  hashes, as the server does; a scheme with spaces makes two hashes of one setting.)
* byte layouts of X.509 and of attestation reports, cryptography: `Endorses` is one
  predicate over whose key signed what.
* TLS session resumption: `AttestedTlsServer::new` sends no tickets
  (`send_tls13_tickets = 0`, `crates/relay-tls/src/server.rs`, 106), so that under TLS 1.3,
  which both ends prefer, there is no session to resume; the model has full handshakes only.
* the few characters that only one of `str::trim` and `trim_ascii` removes, in a size
  line and around a token.
* the TDX stub, deployment scripts, logging and redaction, header names.
