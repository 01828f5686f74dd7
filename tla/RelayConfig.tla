---------------------------- MODULE RelayConfig ----------------------------
(***************************************************************************)
(* The pure part of crates/relay-core/src/config.rs: origins, upstream     *)
(* routing, the upstream allowlist, the TLS pin table and the start-up     *)
(* validation.                                                             *)
(*                                                                         *)
(* A URL of the configuration is a record: what url::Url::parse finds in   *)
(* the string, plus `rank', the position of the raw string among the keys  *)
(* of a BTreeMap.  Two URLs that differ only in rank are two spellings of  *)
(* the same address ("https://a", "https://a:443/").  `port' is the port   *)
(* after port_or_known_default, `host' what host_str() returns: its text,  *)
(* in brackets if it is an IPv6 literal.  A model name and a route prefix  *)
(* are sequences of letters.                                               *)
(***************************************************************************)
EXTENDS Integers, Sequences, SequencesExt

Host(text) == [text |-> text, brackets |-> FALSE]
Ipv6Host(text) == [text |-> text, brackets |-> TRUE]

\* The TLS server name of a host: an IPv6 literal loses its brackets.
ServerName(host) == IF host.brackets THEN Host(host.text) ELSE host

Url(text, port, rank) ==
  [valid |-> TRUE, scheme |-> "https", host |-> Host(text), port |-> port,
   userinfo |-> FALSE, rank |-> rank]

\* url_origin's None.
NoOrigin == [scheme |-> "none", host |-> Host("none"), port |-> 0]

\* The literals of is_local_http_url; the last never matches, because
\* host_str() writes an IPv6 host with brackets.
LocalHosts == {Host("localhost"), Host("127.0.0.1"), Host("::1")}

IsLocalHttpUrl(u) == u.scheme = "http" /\ u.host \in LocalHosts

\* Slip: any http URL has an origin.
UrlOriginAnyHttp(u) ==
  IF u.valid /\ u.scheme \in {"https", "http"} /\ ~u.userinfo
    THEN [scheme |-> u.scheme, host |-> u.host, port |-> u.port]
    ELSE NoOrigin

UrlOrigin(u) ==
  IF u.valid /\ (u.scheme = "https" \/ IsLocalHttpUrl(u)) /\ ~u.userinfo
    THEN [scheme |-> u.scheme, host |-> u.host, port |-> u.port]
    ELSE NoOrigin

-----------------------------------------------------------------------------
(* Routing: cfg.routes maps prefixes to [base_url, path].                   *)

\* A route's path: "none", or a string starting with "/" ("rooted"), or one
\* that does not ("glued"); a glued path runs on from the host name, so that
\* the whole reads as another host.
DefaultPath == [kind |-> "none", host |-> Host("none")]

\* Slip: ascending length, as the BTreeMap iterates over nested prefixes.
SortedRoutesShortestFirst(cfg) ==
  CHOOSE s \in SetToSeqs(DOMAIN cfg.routes) :
    \A i, j \in DOMAIN s : i < j => Len(s[i]) <= Len(s[j])

\* The prefixes of the routes, sorted by descending length.
SortedRoutes(cfg) ==
  CHOOSE s \in SetToSeqs(DOMAIN cfg.routes) :
    \A i, j \in DOMAIN s : i < j => Len(s[i]) >= Len(s[j])

ResolveUpstream(cfg, model) ==
  LET order == SortedRoutes(cfg)
      first == SelectInSeq(order, LAMBDA p : IsPrefix(p, model))
  IN  IF first = 0
        THEN [base_url |-> cfg.default_upstream, path |-> DefaultPath]
        ELSE cfg.routes[order[first]]

\* upstream_url: the base without its trailing slashes, then the path.
UpstreamUrl(route) ==
  IF route.path.kind = "glued"
    THEN [route.base_url EXCEPT !.host = route.path.host]
    ELSE route.base_url

-----------------------------------------------------------------------------
(* The allowlist.                                                           *)

CheckUpstreamAllowed(cfg, url) ==
  \/ cfg.allowed_upstreams = {}
  \/ /\ UrlOrigin(url) # NoOrigin
     /\ \E a \in cfg.allowed_upstreams : UrlOrigin(a) = UrlOrigin(url)

-----------------------------------------------------------------------------
(* Upstream TLS pins: cfg.pins maps URLs (the raw BTreeMap keys, in rank    *)
(* order) to sets of pins; a pin is [valid, digest], valid when it is       *)
(* sha256:<64 hex> up to case, blanks and the optional prefix.              *)

NormalizeSha256Pin(p) == p.digest

PinsWellFormed(cfg) ==
  \A u \in DOMAIN cfg.pins :
    /\ u.scheme = "https"
    /\ UrlOrigin(u) # NoOrigin
    /\ cfg.pins[u] # {}
    /\ \A p \in cfg.pins[u] : p.valid

\* normalized.insert overwrites: of two keys with one origin the last in key
\* order keeps its pins, the pins of the other are dropped.
NormalizeUpstreamTlsPins(cfg) ==
  [o \in {UrlOrigin(u) : u \in DOMAIN cfg.pins} |->
     LET spellings == {u \in DOMAIN cfg.pins : UrlOrigin(u) = o}
         last == CHOOSE u \in spellings : \A v \in spellings : v.rank <= u.rank
     IN  {NormalizeSha256Pin(p) : p \in cfg.pins[last]}]

\* Slip: pins written for a port other than 443 do not count.
UpstreamTlsPinHostsDefaultPort(cfg) ==
  LET normalized == NormalizeUpstreamTlsPins(cfg)
  IN  [h \in {o.host : o \in {p \in DOMAIN normalized : p.port = 443}} |->
         UNION {normalized[o] : o \in {p \in DOMAIN normalized : p.host = h}}]

\* Slip: of two origins with one host the last keeps its pins.
UpstreamTlsPinHostsOverwrite(cfg) ==
  LET normalized == NormalizeUpstreamTlsPins(cfg)
  IN  [h \in {o.host : o \in DOMAIN normalized} |->
         normalized[CHOOSE o \in DOMAIN normalized :
                      o.host = h /\ \A p \in DOMAIN normalized : p.host = h => p.port <= o.port]]

\* The pins by host_str() of their origins: origins that share it share their pins.
UpstreamTlsPinHosts(cfg) ==
  LET normalized == NormalizeUpstreamTlsPins(cfg)
  IN  [h \in {o.host : o \in DOMAIN normalized} |->
         UNION {normalized[o] : o \in {p \in DOMAIN normalized : p.host = h}}]

\* PinnedServerCertVerifier: WebPKI first, then the pins under the server name, if any.
VerifyServerCert(cfg, name, cert) ==
  LET pins == UpstreamTlsPinHosts(cfg)
  IN  cert.webpki /\ (name \in DOMAIN pins => cert.digest \in pins[name])

-----------------------------------------------------------------------------
(* Start-up validation.                                                     *)

ValidateRuntime(cfg) ==
  cfg.provider_auth_scheme.form = "token" /\ cfg.body_log_policy = "metadata-only"

\* Slip: only the default upstream is checked at start-up.
ValidateDefaultOnly(cfg) ==
  /\ ValidateRuntime(cfg)
  /\ cfg.release_artifact_digest \in {"absent", "sha256"}
  /\ PinsWellFormed(cfg)
  /\ CheckUpstreamAllowed(cfg, cfg.default_upstream)

Validate(cfg) ==
  /\ ValidateRuntime(cfg)
  /\ cfg.release_artifact_digest \in {"absent", "sha256"}
  /\ PinsWellFormed(cfg)
  /\ cfg.allowed_upstreams # {} =>
       /\ CheckUpstreamAllowed(cfg, cfg.default_upstream)
       /\ \A p \in DOMAIN cfg.routes :
            CheckUpstreamAllowed(cfg, cfg.routes[p].base_url)

\* Slip: the empty allowlist stays empty.
AutoAllowNothing(cfg) == cfg

\* server main(): with no --allowed-upstream the default upstream is the list.
AutoAllow(cfg) ==
  IF cfg.allowed_upstreams = {}
    THEN [cfg EXCEPT !.allowed_upstreams = {cfg.default_upstream}]
    ELSE cfg
=============================================================================
