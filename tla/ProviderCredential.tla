------------------------ MODULE ProviderCredential -------------------------
(***************************************************************************)
(* crates/relay-core/src/secrets.rs: the provider credential.              *)
(*                                                                         *)
(* The two strings of a credential matter only by the kind of bytes they   *)
(* hold, so each is a form:                                                *)
(*   scheme: "token"        HTTP token characters only                     *)
(*           "visible"      other visible ASCII, no blanks                 *)
(*           "padded"       a token with spaces or tabs around it          *)
(*           "newline"      a token with a line break around it            *)
(*           "spaced"       blanks inside                                  *)
(*           "unprintable"  control or non-ASCII bytes inside              *)
(*           "empty"        nothing but blanks                             *)
(*   token:  "clean", "spaced", "unprintable", "empty"                     *)
(***************************************************************************)

SchemeForms ==
  {"token", "visible", "padded", "newline", "spaced", "unprintable", "empty"}
TokenForms == {"clean", "spaced", "unprintable", "empty"}

\* A scheme is [name, form]; id tells two tokens apart.
CredentialOf(ids, names) ==
  [id : ids, scheme : [name : names, form : SchemeForms], token : TokenForms]

\* str::trim on a scheme.
TrimScheme(s) == IF s.form \in {"padded", "newline"} THEN [s EXCEPT !.form = "token"] ELSE s

\* authorization_value: HeaderValue::from_str("{scheme} {token}"), untrimmed.
\* A header value takes visible ASCII, spaces and tabs.
AuthorizationValueOk(c) ==
  c.scheme.form \notin {"newline", "unprintable"} /\ c.token # "unprintable"

\* Slip: the header is not tried; the trimmed scheme and the token decide.
ValidateCredentialNoHeader(c) ==
  TrimScheme(c.scheme).form \in {"token", "visible"} /\ c.token = "clean"

\* ProviderCredential::validate.
ValidateCredential(c) ==
  /\ TrimScheme(c.scheme).form \notin {"empty", "spaced", "unprintable"}
  /\ c.token \notin {"empty", "spaced", "unprintable"}
  /\ AuthorizationValueOk(c)
=============================================================================
