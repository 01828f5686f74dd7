--------------------------- MODULE MCRelayServer ---------------------------
(* A small instance of RelayServer: one provider, one other origin, and       *)
(* credentials that cover the ways validation and header building disagree.  *)
EXTENDS RelayServer

CONSTANT None

Provider == Url("provider", 443, 1)
Other    == Url("other", 443, 2)
Bearer   == [name |-> "Bearer", form |-> "token"]

Cred(id, name, form, token) ==
  [id |-> id, scheme |-> [name |-> name, form |-> form], token |-> token]

GoodA   == Cred("a", "Bearer", "token", "clean")
GoodB   == Cred("b", "Bearer", "padded", "clean")
Newline == Cred("d", "Bearer", "newline", "clean")
CliGood == Cred("e", "Bearer", "token", "clean")
CliBad  == Cred("f", "Bearer", "token", "unprintable")

Config(allowClient, admin, allowed) ==
  [allow_client_provider_auth |-> allowClient, private_admin_enabled |-> admin,
   provider_auth_scheme |-> [Bearer EXCEPT !.form = "padded"],
   body_log_policy |-> "metadata-only", release_artifact_digest |-> "sha256",
   default_upstream |-> Provider, routes |-> <<>>, allowed_upstreams |-> allowed,
   pins |-> <<>>]

Line(config, token) == [config |-> config, provider_token |-> token]

\* The production command line.
Production == Line(Config(FALSE, TRUE, {}), None)
\* The development mode that forwards client headers, with the endpoint open.
Development == Line(Config(TRUE, TRUE, {Provider}), None)
\* Tokens on the command line, with and without the endpoint.
CliLines ==
  {Line(Config(FALSE, TRUE, {Provider, Other}), CliGood),
   Line(Config(FALSE, FALSE, {Provider}), CliBad),
   Line(Config(FALSE, FALSE, {}), None),
   Line(Config(FALSE, TRUE, {Other}), None)}       \* refused by validate

ProductionOnly == {Production}
\* Lines that serve: the two modes, and a credential that is there from the start.
RaceLines == {Production, Development, Line(Config(FALSE, TRUE, {Provider}), CliGood)}
AllLines == {Production, Development} \cup CliLines

MCOffered == {GoodA, GoodB, Newline}
TwoGood == {GoodA, GoodB}
OneGood == {GoodA}

In(large, auth) == [large |-> large, auth |-> auth, model |-> <<"m">>]
MCInputs == {In(FALSE, TRUE), In(FALSE, FALSE), In(TRUE, FALSE)}
OneInput == {In(FALSE, TRUE)}

ToOther == {UrlOrigin(Other)}
=============================================================================
