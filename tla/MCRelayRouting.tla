--------------------------- MODULE MCRelayRouting ---------------------------
(* A small instance of RelayRouting: two hosts, an IPv6 literal and the      *)
(* local machine, nested route prefixes, three pins.                        *)
EXTENDS RelayRouting

A      == Url("a", 443, 1)
AAgain == Url("a", 443, 2)     \* another spelling of A
A8443  == Url("a", 8443, 3)
B      == Url("b", 443, 4)
APlain == [Url("a", 80, 5) EXCEPT !.scheme = "http"]
Local  == [Url("localhost", 80, 6) EXCEPT !.scheme = "http"]
BUser  == [Url("b", 443, 7) EXCEPT !.userinfo = TRUE]
V6     == [Url("", 443, 9) EXCEPT !.host = Ipv6Host("::2")]
V6Plain == [Url("", 80, 10) EXCEPT !.scheme = "http", !.host = Ipv6Host("::1")]
Broken == [Url("b", 443, 8) EXCEPT !.valid = FALSE]

Rooted == [kind |-> "rooted", host |-> Host("none")]
Glued  == [kind |-> "glued", host |-> Host("c")]
To(url, path) == [base_url |-> url, path |-> path]

MCModels == {<<>>, <<"g">>, <<"g", "p">>, <<"g", "p", "t">>, <<"c">>}

RouteTargets == {To(A, DefaultPath), To(B, Rooted), To(APlain, Rooted)}
RouteTables ==
  UNION {[ps -> RouteTargets] : ps \in SUBSET {<<"g">>, <<"g", "p">>}}

Pin(d) == [valid |-> TRUE, digest |-> d]
PinTables ==
  {<<>>,
   (A :> {Pin("d1"), Pin("d2")}),
   (A :> {Pin("d1")}) @@ (AAgain :> {Pin("d2")}),
   (A8443 :> {Pin("d1")}),
   (A :> {Pin("d1")}) @@ (A8443 :> {Pin("d2")}),
   (B :> {[valid |-> FALSE, digest |-> "d1"]}),
   (A :> {}),
   (BUser :> {Pin("d1")}),
   (V6 :> {Pin("d1")}),
   (APlain :> {Pin("d1")})}

Bearer == [name |-> "Bearer", form |-> "token"]

Config(up, routes, allowed, pins) ==
  [default_upstream |-> up, routes |-> routes, allowed_upstreams |-> allowed,
   pins |-> pins, provider_auth_scheme |-> Bearer,
   body_log_policy |-> "metadata-only", release_artifact_digest |-> "absent"]

MCConfigs ==
  {Config(up, routes, allowed, pins) :
     up \in {A, APlain, Local, BUser, Broken}, routes \in RouteTables,
     allowed \in {{}, {A}, {AAgain, B}, {A, B, Local, APlain}}, pins \in {<<>>, A :> {Pin("d1"), Pin("d2")}}}
  \cup
  {Config(up, <<>>, {A, A8443, B, V6, V6Plain}, pins) :
     up \in {A, A8443, B, V6, V6Plain}, pins \in PinTables}
  \cup
  {Config(up, <<"g">> :> To(Local, Glued), {A, Local}, <<>>) : up \in {A, Local}}
  \cup
  {[Config(A, <<>>, {A}, <<>>) EXCEPT !.provider_auth_scheme.form = "padded"],
   [Config(A, <<>>, {A}, <<>>) EXCEPT !.body_log_policy = "full"],
   [Config(A, <<>>, {A}, <<>>) EXCEPT !.release_artifact_digest = "short"]}

\* A route whose path does not start with a slash.
GluedConfigs == {Config(A, <<"g">> :> To(A, Glued), {A}, <<>>)}

MCCerts == {[webpki |-> TRUE, digest |-> "d1"], [webpki |-> TRUE, digest |-> "d2"],
            [webpki |-> TRUE, digest |-> "d3"], [webpki |-> FALSE, digest |-> "d1"]}
=============================================================================
