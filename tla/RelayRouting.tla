---------------------------- MODULE RelayRouting ----------------------------
(***************************************************************************)
(* A relay-core embedding of RelayConfig: the configuration is validated   *)
(* once, at start-up, then every request is routed by its model name,      *)
(* checked against the allowlist and sent over a pinned TLS connection     *)
(* (proxy.rs, proxy_chat_completions and PinnedServerCertVerifier).        *)
(***************************************************************************)
EXTENDS RelayConfig

CONSTANTS
  Configs,   \* the configurations an operator may write
  Models,    \* model names of the requests; <<>> stands for "no model field"
  Certs      \* leaf certificates an upstream may present: [webpki, digest]

\* The routes are a Vec and the pins a BTreeMap: finite, keyed by strings, of which
\* no two have the same place in the order.
ASSUME ConfigsAssumption ==
  \A c \in Configs :
    /\ IsFiniteSet(DOMAIN c.routes) /\ \A p \in DOMAIN c.routes : p \in Seq(Range(p))
    /\ IsFiniteSet(DOMAIN c.pins) /\ \A u \in DOMAIN c.pins : u.rank \in Nat
    /\ \A u, v \in DOMAIN c.pins : u.rank = v.rank => u = v

VARIABLES
  cfg,       \* the configuration of this process
  phase,     \* "new", "rejected", "ready", "routed"
  model,     \* the request being routed
  route,     \* what resolve_upstream returned for it
  outcome    \* what became of it: [kind, url, cert]

vars == <<cfg, phase, model, route, outcome>>

NoCert == [webpki |-> FALSE, digest |-> "none"]
DefaultRoute(c) == [base_url |-> c.default_upstream, path |-> DefaultPath]
Outcome(kind, url, cert) == [kind |-> kind, url |-> url, cert |-> cert]

Init ==
  /\ cfg \in Configs
  /\ phase = "new"
  /\ model = <<>>
  /\ route = DefaultRoute(cfg)
  /\ outcome = Outcome("none", cfg.default_upstream, NoCert)

\* RelayConfig::validate at start-up; a refused configuration ends the process.
Start ==
  /\ phase = "new"
  /\ phase' = IF Validate(cfg) THEN "ready" ELSE "rejected"
  /\ UNCHANGED <<cfg, model, route, outcome>>

\* proxy_chat_completions up to the allowlist check, for one request.
Route(m) ==
  /\ phase = "ready"
  /\ model' = m
  /\ route' = ResolveUpstream(cfg, m)
  /\ IF CheckUpstreamAllowed(cfg, route'.base_url)
       THEN phase' = "routed" /\ UNCHANGED outcome
       ELSE /\ phase' = "ready"
            /\ outcome' = Outcome("blocked", route'.base_url, NoCert)
  /\ UNCHANGED cfg

\* The TLS connection of the upstream client: the certificate is checked
\* before any request byte is sent.
Connect(cert) ==
  LET url == UpstreamUrl(route) IN
  /\ phase = "routed"
  /\ url.valid /\ url.scheme = "https"
  /\ outcome' = Outcome(IF VerifyServerCert(cfg, ServerName(url.host), cert)
                          THEN "sent" ELSE "refused", url, cert)
  /\ phase' = "ready"
  /\ UNCHANGED <<cfg, model, route>>

\* An http:// upstream (or one reqwest cannot parse) meets no certificate.
ConnectPlain ==
  LET url == UpstreamUrl(route) IN
  /\ phase = "routed"
  /\ ~(url.valid /\ url.scheme = "https")
  /\ outcome' = Outcome(IF url.valid THEN "sent_plain" ELSE "refused", url, NoCert)
  /\ phase' = "ready"
  /\ UNCHANGED <<cfg, model, route>>

\* A process whose configuration was refused has exited.
Exited == phase = "rejected" /\ UNCHANGED vars

Next ==
  \/ Start
  \/ \E m \in Models : Route(m)
  \/ \E c \in Certs : Connect(c)
  \/ ConnectPlain
  \/ Exited

Spec == Init /\ [][Next]_vars

-----------------------------------------------------------------------------
\* The route taken for a model is that of the longest configured prefix of its
\* name, and the default upstream exactly when no prefix matches: sorting by
\* length and taking the first match (resolve_upstream) never lets a shorter
\* prefix shadow a longer one.
LongestPrefixWins ==
  phase = "routed" =>
    LET matching == {p \in DOMAIN cfg.routes : IsPrefix(p, model)}
    IN  IF matching = {}
          THEN route = DefaultRoute(cfg)
          ELSE \E p \in matching :
                 /\ \A q \in matching : Len(q) <= Len(p)
                 /\ route = cfg.routes[p]

\* What validate accepts at start-up is never refused at run time: the
\* allowlist check of proxy_chat_completions cannot block a request of a
\* process that passed RelayConfig::validate, whatever the model name.
ValidatedNeverBlocked == outcome.kind # "blocked"

\* check_upstream_allowed with a list that is not empty: a request leaves in the
\* clear only when the base URL its route names is the local machine, even if the
\* list itself has a plain http address elsewhere.  (It says nothing of where a path
\* glued to the base leads, which SentOnlyToAllowedOrigins is about, nor of redirects,
\* which RelayServer has.  While the next request is on its way, `route' is no longer
\* that of `outcome'.)
PlainHttpBaseIsLocal ==
  phase = "ready" /\ outcome.kind = "sent_plain" /\ cfg.allowed_upstreams # {} =>
    route.base_url.scheme = "http" /\ route.base_url.host \in LocalHosts

\* The spellings of addresses with this host that pins were written for.
PinnedSpellings(host) == {u \in DOMAIN cfg.pins : u.host = host}

\* A request is sent to a host with configured pins only over a certificate that
\* one of them names, whichever spelling of the origin and whichever port they were
\* written for.  Hosts that are IPv6 literals are left out: upstream_tls_pin_hosts
\* files their pins under "[::1]", the verifier looks for "::1" and finds none.
PinnedHostsChecked ==
  outcome.kind = "sent" /\ ~outcome.url.host.brackets =>
    LET written == PinnedSpellings(outcome.url.host)
    IN  written # {} => outcome.cert.digest \in
                          {p.digest : p \in UNION {cfg.pins[u] : u \in written}}

\* The other direction: a certificate that a written pin names, and that WebPKI
\* accepts, is refused only if the origin was written again in another spelling,
\* whose pins replaced these in normalize_upstream_tls_pins.  Pins for other ports
\* of the host never displace it.  (IPv6 literals again apart: nothing is refused there.)
PinsLostOnlyToRespelling ==
  outcome.kind = "refused" /\ outcome.cert.webpki /\ ~outcome.url.host.brackets =>
    \A u \in PinnedSpellings(outcome.url.host) :
      (\E p \in cfg.pins[u] : p.digest = outcome.cert.digest) =>
        \E v \in DOMAIN cfg.pins : UrlOrigin(v) = UrlOrigin(u) /\ v.rank > u.rank

\* The inductive invariant behind these five: the process got this far only with a
\* validated configuration, and `outcome' tells which checks the address passed.
RoutingInv ==
  /\ cfg \in Configs
  /\ phase \in {"ready", "routed"} => Validate(cfg)
  /\ phase \in {"new", "rejected"} => outcome.kind = "none"
  /\ phase = "routed" => /\ route = ResolveUpstream(cfg, model)
                         /\ CheckUpstreamAllowed(cfg, route.base_url)
  /\ outcome.kind \in {"none", "sent", "sent_plain", "refused"}
  /\ outcome.kind = "sent" =>
       Validate(cfg) /\ VerifyServerCert(cfg, ServerName(outcome.url.host), outcome.cert)
  /\ outcome.kind = "refused" /\ outcome.cert.webpki =>
       Validate(cfg) /\ ~VerifyServerCert(cfg, ServerName(outcome.url.host), outcome.cert)
  /\ phase = "ready" /\ outcome.kind = "sent_plain" =>
       /\ outcome.url = UpstreamUrl(route)
       /\ outcome.url.valid /\ outcome.url.scheme # "https"
       /\ CheckUpstreamAllowed(cfg, route.base_url)

\* config.rs: "If non-empty, the relay will refuse to forward to any upstream
\* whose origin (scheme + host + port) does not match one of these entries."
\* The check looks at the base URL; the address that is sent to is the base
\* followed by the route's path.
SentOnlyToAllowedOrigins ==
  outcome.kind \in {"sent", "sent_plain"} /\ cfg.allowed_upstreams # {} =>
    \E a \in cfg.allowed_upstreams : UrlOrigin(a) = UrlOrigin(outcome.url)

=============================================================================
