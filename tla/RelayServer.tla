---------------------------- MODULE RelayServer ----------------------------
(***************************************************************************)
(* The relay process: server/src/main.rs, relay-core's proxy.rs and        *)
(* secrets.rs.  One process is launched, starts up, opens the private      *)
(* admin endpoint and then the data plane, and may die at any moment; the  *)
(* provider credential lives only in its memory.  Handlers are tokio       *)
(* tasks: what a handler does between two awaits is one action.            *)
(*                                                                         *)
(* A data-plane handler (proxy_chat_completions) awaits the credential     *)
(* lock, the upstream's response head and the upstream's body.  An admin   *)
(* handler (inject_provider_credential) awaits the credential lock.        *)
(***************************************************************************)
EXTENDS RelayConfig, ProviderCredential

CONSTANTS
  Requests,      \* data-plane requests
  Injections,    \* calls of POST /admin/provider-credential
  Launches,      \* command lines: [config, provider_token]
  Inputs,        \* client requests: [large, auth, model]
  Offered,       \* credentials the admin calls may carry
  NoCredential,  \* Option::None of the store and of --provider-token
  Elsewhere,     \* origins a provider may redirect to
  MaxRuns,       \* bound: launches of the process
  MaxRedirects   \* reqwest follows at most this many redirects (10)

\* The configuration main() builds from a command line: the scheme is trimmed,
\* there are no routes, and an empty allowlist becomes the default upstream.
ServerConfig(l) ==
  AutoAllow([l.config EXCEPT !.routes = <<>>,
                             !.provider_auth_scheme = TrimScheme(@)])

\* --provider-token gets the configured scheme.
CliCredential(l) ==
  IF l.provider_token = NoCredential
    THEN NoCredential
    ELSE [l.provider_token EXCEPT !.scheme = TrimScheme(l.config.provider_auth_scheme)]

Options(l) == [config |-> ServerConfig(l), provider_token |-> CliCredential(l)]
OptionSet == {Options(l) : l \in Launches}
Credentials == Offered \cup ({CliCredential(l) : l \in Launches} \ {NoCredential})

\* Where a request is sent first: the origin of the upstream URL for its model.
FirstOrigin(config, model) == UrlOrigin(UpstreamUrl(ResolveUpstream(config, model)))

Origins ==
  Elsewhere \cup {FirstOrigin(o.config, in.model) : o \in OptionSet, in \in Inputs}

ASSUME BoundsAssumption == MaxRuns \in Nat /\ MaxRedirects \in Nat
ASSUME CredentialAssumption == NoCredential \notin Offered
ASSUME OptionAssumption ==
  \A o \in OptionSet : /\ o.config.private_admin_enabled \in BOOLEAN
                       /\ o.config.allow_client_provider_auth \in BOOLEAN
ASSUME LaunchAssumption ==
  \A l \in Launches :
    {"routes", "provider_auth_scheme", "allowed_upstreams", "default_upstream"} \subseteq DOMAIN l.config
ASSUME InputAssumption == \A in \in Inputs : in.large \in BOOLEAN /\ in.auth \in BOOLEAN

VARIABLES
  phase,      \* of main(): "down", "starting", "admin", "bind", "serving"
  run,        \* number of the current (or last) run of the process
  opts,       \* the command line of this run
  adminUp,    \* the admin listener accepts calls
  cell,       \* ProviderCredentialStore.inner
  inj,        \* admin handlers: [pc, cred, run, reply]
  req,        \* data-plane handlers, see NewRequest
  delivered,  \* history: what providers received
  held        \* history: <<run, credential>> pairs the store has held

procVars == <<phase, run, opts, adminUp>>
vars == <<phase, run, opts, adminUp, cell, inj, req, delivered, held>>

-----------------------------------------------------------------------------
(* Handler records.                                                         *)

\* The Authorization header of an outgoing request.
NoAuth == [by |-> "nobody", cred |-> NoCredential]
ClientAuth == [by |-> "client", cred |-> NoCredential]
InjectedAuth(c) == [by |-> "relay", cred |-> c]
Auths == [by : {"nobody", "client", "relay"}, cred : Credentials \cup {NoCredential}]

\* A reply: who produced its body ("stream": the provider, passed through as it
\* comes; "provider": the provider, buffered), its status class and, for a status 500,
\* which error path (the client sees the same text for all of them).
Reply(status, body, why) == [status |-> status, body |-> body, why |-> why]
NoReply == Reply("none", "none", "none")
RelayError(status, why) == Reply(status, "relay", why)
Lost == Reply("lost", "none", "none")

\* The status of an answer the relay gives itself; a provider's answer has the
\* provider's status, which may be the same number.
OwnStatus(reply) == IF reply.body = "relay" THEN reply.status ELSE "none"

NewRequest ==
  [pc |-> "idle",        \* idle, locking, sending, awaiting, reading, streaming, done
   client |-> FALSE,     \* the client sent an Authorization header
   auth |-> NoAuth,      \* Authorization header of the outgoing request
   origin |-> NoOrigin,  \* where the outgoing request is addressed to
   body |-> TRUE,        \* the outgoing request carries the client's body
   hop |-> 0,            \* redirects followed so far
   status |-> "none",    \* status class of the provider's response
   injected |-> FALSE,   \* using_injected_provider_credential
   primed |-> FALSE,     \* history: the store was loaded when it arrived
   stalled |-> FALSE,    \* the client has stopped reading the event stream
   reply |-> NoReply]

InFlight(r) == req[r].pc \notin {"idle", "done"}

\* The record of a finished request keeps what the properties speak of.
Closed(q, reply) ==
  [NewRequest EXCEPT !.pc = "done", !.reply = reply,
                     !.injected = q.injected, !.primed = q.primed]

NewInjection == [pc |-> "idle", cred |-> NoCredential, run |-> 0, reply |-> "none"]

\* TRUE in production: --allow-client-provider-auth is off.
RequireProviderCredential == ~opts.config.allow_client_provider_auth
-----------------------------------------------------------------------------
Init ==
  /\ phase = "down" /\ run = 0 /\ adminUp = FALSE
  /\ opts \in OptionSet
  /\ cell = NoCredential
  /\ inj = [i \in Injections |-> NewInjection]
  /\ req = [r \in Requests |-> NewRequest]
  /\ delivered = {}
  /\ held = {}

Launch(l) ==
  /\ phase = "down" /\ run < MaxRuns
  /\ phase' = "starting"
  /\ run' = run + 1
  /\ opts' = Options(l)
  /\ cell' = NoCredential
  /\ UNCHANGED <<adminUp, inj, req, delivered, held>>

\* config.validate, attested TLS set-up (which may fail: Die), then
\* --provider-token is stored with `set', unvalidated.
Configure ==
  /\ phase = "starting"
  /\ Validate(opts.config)
  /\ phase' = "admin"
  /\ cell' = opts.provider_token
  /\ held' = IF opts.provider_token = NoCredential
               THEN held ELSE held \cup {<<run, opts.provider_token>>}
  /\ UNCHANGED <<run, opts, adminUp, inj, req, delivered>>

\* The admin listener is bound and served by a task of its own before the
\* data plane exists.
OpenAdmin ==
  /\ phase = "admin"
  /\ phase' = "bind"
  /\ adminUp' = opts.config.private_admin_enabled
  /\ UNCHANGED <<run, opts, cell, inj, req, delivered, held>>

BindData ==
  /\ phase = "bind"
  /\ phase' = "serving"
  /\ UNCHANGED <<run, opts, adminUp, cell, inj, req, delivered, held>>

\* The process ends: a refused configuration, a failed attestation or bind, an
\* error of listener.accept() in the serving loop, or a crash.  Memory is
\* gone and every connection is cut.
Die ==
  /\ phase # "down"
  /\ phase' = "down" /\ adminUp' = FALSE
  /\ cell' = NoCredential
  /\ inj' = [i \in Injections |->
               IF inj[i].pc \in {"locking", "stored"}
                 THEN [inj[i] EXCEPT !.pc = "done", !.reply = "lost"] ELSE inj[i]]
  /\ req' = [r \in Requests |->
               IF InFlight(r)
                 THEN Closed(req[r], Lost) ELSE req[r]]
  /\ UNCHANGED <<run, opts, delivered, held>>
-----------------------------------------------------------------------------
(* The private admin endpoint: inject_provider_credential.                  *)

Inject(i, c) ==
  /\ adminUp /\ inj[i].pc = "idle"
  /\ inj' = [inj EXCEPT ![i] =
               IF ValidateCredential(c)
                 THEN [pc |-> "locking", cred |-> c, run |-> run, reply |-> "none"]
                 ELSE [pc |-> "done", cred |-> c, run |-> run, reply |-> "400"]]
  /\ UNCHANGED <<procVars, cell, req, delivered, held>>

\* Slip: `set' instead of `set_once'.
SetAlways(i) ==
  /\ inj[i].pc = "locking"
  /\ cell' = inj[i].cred
  /\ held' = held \cup {<<run, inj[i].cred>>}
  /\ inj' = [inj EXCEPT ![i].pc = "stored", ![i].reply = "204"]
  /\ UNCHANGED <<procVars, req, delivered>>

\* Slip: the result of set_once is ignored.
SetOnceUnchecked(i) ==
  /\ inj[i].pc = "locking"
  /\ cell' = IF cell = NoCredential THEN inj[i].cred ELSE cell
  /\ held' = IF cell = NoCredential THEN held \cup {<<run, inj[i].cred>>} ELSE held
  /\ inj' = [inj EXCEPT ![i].pc = "stored", ![i].reply = "204"]
  /\ UNCHANGED <<procVars, req, delivered>>

\* Slip: the write lock is kept by the first call.
SetOnceKeepsLock(i) ==
  /\ inj[i].pc = "locking" /\ cell = NoCredential
  /\ cell' = inj[i].cred
  /\ held' = held \cup {<<run, inj[i].cred>>}
  /\ inj' = [inj EXCEPT ![i].pc = "stored", ![i].reply = "204"]
  /\ UNCHANGED <<procVars, req, delivered>>

\* set_once, under the write lock.
SetOnce(i) ==
  /\ inj[i].pc = "locking"
  /\ IF cell = NoCredential
       THEN /\ cell' = inj[i].cred
            /\ held' = held \cup {<<run, inj[i].cred>>}
            /\ inj' = [inj EXCEPT ![i].pc = "stored", ![i].reply = "204"]
       ELSE /\ inj' = [inj EXCEPT ![i].pc = "stored", ![i].reply = "409"]
            /\ UNCHANGED <<cell, held>>
  /\ UNCHANGED <<procVars, req, delivered>>

\* The status line reaches the operator.
AnswerInjection(i) ==
  /\ inj[i].pc = "stored"
  /\ inj' = [inj EXCEPT ![i].pc = "done"]
  /\ UNCHANGED <<procVars, cell, req, delivered, held>>

\* The operator's connection breaks: before the lock the handler is dropped,
\* after it only the answer is lost.
LoseInjection(i) ==
  /\ inj[i].pc \in {"locking", "stored"}
  /\ inj' = [inj EXCEPT ![i].pc = "done", ![i].reply = "lost"]
  /\ UNCHANGED <<procVars, cell, req, delivered, held>>

-----------------------------------------------------------------------------
(* The data plane: proxy_chat_completions.                                  *)

\* Up to the first await: body limit, routing, allowlist.
Arrive(r, in) ==
  LET route == ResolveUpstream(opts.config, in.model)
      entry == [NewRequest EXCEPT !.primed = cell # NoCredential]
  IN
  /\ phase = "serving" /\ req[r].pc = "idle"
  /\ req' = [req EXCEPT ![r] =
       CASE in.large -> Closed(entry, RelayError("413", "large"))
         [] ~in.large /\ ~CheckUpstreamAllowed(opts.config, route.base_url) ->
              Closed(entry, RelayError("500", "not_allowed"))
         [] OTHER -> [entry EXCEPT !.pc = "locking", !.client = in.auth,
                                   !.origin = FirstOrigin(opts.config, in.model)]]
  /\ UNCHANGED <<procVars, cell, inj, delivered, held>>

\* Slip: no early return when the credential is missing.
ReadCredentialOpen(r) ==
  LET q == [req[r] EXCEPT !.injected = cell # NoCredential] IN
  /\ req[r].pc = "locking"
  /\ req' = [req EXCEPT ![r] = [q EXCEPT !.pc = "sending",
       !.auth = IF cell # NoCredential THEN InjectedAuth(cell)
                ELSE IF q.client THEN ClientAuth ELSE NoAuth]]
  /\ UNCHANGED <<procVars, cell, inj, delivered, held>>

\* Slip: a client header wins over the injected credential.
ReadCredentialClientFirst(r) ==
  LET q == [req[r] EXCEPT !.injected = cell # NoCredential] IN
  /\ req[r].pc = "locking"
  /\ req' = [req EXCEPT ![r] =
       IF cell = NoCredential /\ RequireProviderCredential
         THEN Closed(q, RelayError("503", "no_credential"))
         ELSE [q EXCEPT !.pc = "sending",
                 !.auth = IF q.client THEN ClientAuth
                          ELSE IF cell # NoCredential THEN InjectedAuth(cell) ELSE NoAuth]]
  /\ UNCHANGED <<procVars, cell, inj, delivered, held>>

\* provider_credentials.get() and all that follows up to send(): the store
\* is read once; its value replaces a client Authorization header.
ReadCredential(r) ==
  LET q == [req[r] EXCEPT !.injected = cell # NoCredential] IN
  /\ req[r].pc = "locking"
  /\ req' = [req EXCEPT ![r] =
       CASE cell = NoCredential /\ RequireProviderCredential ->
              Closed(q, RelayError("503", "no_credential"))
         [] cell = NoCredential /\ ~RequireProviderCredential ->
              [q EXCEPT !.pc = "sending",
                        !.auth = IF q.client THEN ClientAuth ELSE NoAuth]
         [] cell # NoCredential /\ ~AuthorizationValueOk(cell) ->
              Closed(q, RelayError("500", "bad_credential"))
         [] OTHER -> [q EXCEPT !.pc = "sending", !.auth = InjectedAuth(cell)]]
  /\ UNCHANGED <<procVars, cell, inj, delivered, held>>

\* The request reaches the provider it is addressed to.
Deliver(r) ==
  /\ req[r].pc = "sending"
  /\ req' = [req EXCEPT ![r].pc = "awaiting"]
  /\ delivered' = delivered \cup
       {[req |-> r, run |-> run, require |-> RequireProviderCredential,
         origin |-> req[r].origin, hop |-> req[r].hop, body |-> req[r].body,
         auth |-> req[r].auth]}
  /\ UNCHANGED <<procVars, cell, inj, held>>

\* Slip: a failed exchange is answered 503.
SendFailsUnavailable(r) ==
  /\ req[r].pc \in {"sending", "awaiting"}
  /\ req' = [req EXCEPT ![r] = Closed(@, RelayError("503", "send"))]
  /\ UNCHANGED <<procVars, cell, inj, delivered, held>>

\* Slip: the timeout covers the connection only.
SendFailsConnectOnly(r) ==
  /\ req[r].pc = "sending"
  /\ req' = [req EXCEPT ![r] = Closed(@, RelayError("500", "send"))]
  /\ UNCHANGED <<procVars, cell, inj, delivered, held>>

\* Connection refused, certificate refused, too many redirects, or the
\* client's timeout: send() fails.
SendFails(r) ==
  /\ req[r].pc \in {"sending", "awaiting"}
  /\ req' = [req EXCEPT ![r] = Closed(@, RelayError("500", "send"))]
  /\ UNCHANGED <<procVars, cell, inj, delivered, held>>

\* reqwest's default policy follows a redirect by itself.  307 and 308 keep
\* the body, 301, 302 and 303 become a GET; Authorization is dropped when host
\* or port differ from the previous hop's.
Redirect(r, o, keepsBody) ==
  /\ req[r].pc = "awaiting" /\ req[r].hop < MaxRedirects
  /\ req' = [req EXCEPT ![r].pc = "sending", ![r].origin = o,
                        ![r].hop = @ + 1, ![r].body = @ /\ keepsBody,
                        ![r].auth = IF o.host = req[r].origin.host
                                       /\ o.port = req[r].origin.port
                                      THEN @ ELSE NoAuth]
  /\ UNCHANGED <<procVars, cell, inj, delivered, held>>

\* The provider's status: 401 or 403, the two numbers the relay itself refuses
\* requests with, or another.
Statuses == {"auth_failed", "413", "503", "other"}

\* The response head arrives.  An event stream is passed through as it comes;
\* any other body is read to its end first.
ReceiveHead(r, status, streams) ==
  /\ req[r].pc = "awaiting"
  /\ req' = [req EXCEPT ![r].pc = IF streams THEN "streaming" ELSE "reading",
                        ![r].status = status,
                        ![r].reply = IF streams THEN Reply(status, "stream", "none") ELSE @]
  /\ UNCHANGED <<procVars, cell, inj, delivered, held>>

\* Slip: asks for the header of the last hop instead of the credential used.
ReadBodyByHeader(r) ==
  LET body == IF req[r].auth.by = "relay" /\ req[r].status = "auth_failed"
                THEN "relay" ELSE "provider" IN
  /\ req[r].pc = "reading"
  /\ req' = [req EXCEPT ![r] = Closed(@, Reply(req[r].status, body, "none"))]
  /\ UNCHANGED <<procVars, cell, inj, delivered, held>>

\* The buffered body is complete: a 401 or 403 of a request that used the
\* injected credential is answered with the relay's own text.
ReadBody(r) ==
  LET body == IF req[r].injected /\ req[r].status = "auth_failed"
                THEN "relay" ELSE "provider" IN
  /\ req[r].pc = "reading"
  /\ req' = [req EXCEPT ![r] = Closed(@, Reply(req[r].status, body, "none"))]
  /\ UNCHANGED <<procVars, cell, inj, delivered, held>>

BodyFails(r) ==
  /\ req[r].pc = "reading"
  /\ req' = [req EXCEPT ![r] = Closed(@, RelayError("500", "body"))]
  /\ UNCHANGED <<procVars, cell, inj, delivered, held>>

\* The client of an event stream stops reading, or goes on.
ClientPauses(r) ==
  /\ req[r].pc = "streaming"
  /\ req' = [req EXCEPT ![r].stalled = ~@]
  /\ UNCHANGED <<procVars, cell, inj, delivered, held>>

\* The stream ends: by itself, or cut by the timeout, which covers the body.  Both
\* are noticed only when the stream is polled, that is, while the client reads.
EndStream(r, why) ==
  /\ req[r].pc = "streaming" /\ ~req[r].stalled
  /\ req' = [req EXCEPT ![r] = Closed(@, Reply(req[r].status, "stream", why))]
  /\ UNCHANGED <<procVars, cell, inj, delivered, held>>

\* The client goes away; hyper drops the handler wherever it awaits.
ClientGone(r) ==
  /\ InFlight(r)
  /\ req' = [req EXCEPT ![r] = Closed(@, Lost)]
  /\ UNCHANGED <<procVars, cell, inj, delivered, held>>

-----------------------------------------------------------------------------
HandlerStep(r) ==
  \/ ReadCredential(r) \/ Deliver(r) \/ SendFails(r)
  \/ ReadBody(r) \/ BodyFails(r)
  \/ \E why \in {"none", "cut"} : EndStream(r, why)

ProviderStep(r) ==
  \/ \E o \in Elsewhere, keeps \in BOOLEAN : Redirect(r, o, keeps)
  \/ \E status \in Statuses, streams \in BOOLEAN : ReceiveHead(r, status, streams)

InjectionStep(i) == SetOnce(i) \/ AnswerInjection(i)

Next ==
  \/ \E l \in Launches : Launch(l)
  \/ Configure \/ OpenAdmin \/ BindData \/ Die
  \/ \E i \in Injections :
       \/ \E c \in Offered : Inject(i, c)
       \/ InjectionStep(i) \/ LoseInjection(i)
  \/ \E r \in Requests :
       \/ \E in \in Inputs : Arrive(r, in)
       \/ HandlerStep(r) \/ ProviderStep(r) \/ ClientGone(r) \/ ClientPauses(r)

Spec == Init /\ [][Next]_vars

\* tokio runs every ready task, and the upstream client's timeout covers the
\* whole exchange (SendFails, BodyFails and, while the client reads, EndStream stay
\* enabled until it fires).  Of clients and providers nothing is assumed.
Fairness ==
  /\ \A r \in Requests : WF_vars(HandlerStep(r))
  /\ \A i \in Injections : WF_vars(InjectionStep(i))

FairSpec == Spec /\ Fairness
-----------------------------------------------------------------------------
PCs == {"idle", "locking", "sending", "awaiting", "reading", "streaming", "done"}

Replies ==
  [status : Statuses \cup {"none", "500", "lost"},
   body : {"none", "relay", "provider", "stream"},
   why : {"none", "large", "not_allowed", "no_credential", "bad_credential",
          "send", "body", "cut"}]

RequestRecords ==
  [pc : PCs, client : BOOLEAN, auth : Auths, origin : Origins \cup {NoOrigin},
   body : BOOLEAN, hop : 0 .. MaxRedirects, status : Statuses \cup {"none"},
   injected : BOOLEAN, primed : BOOLEAN, stalled : BOOLEAN, reply : Replies]

InjectionRecords ==
  [pc : {"idle", "locking", "stored", "done"}, cred : Offered \cup {NoCredential},
   run : 0 .. MaxRuns, reply : {"none", "204", "400", "409", "lost"}]

Deliveries ==
  [req : Requests, run : 0 .. MaxRuns, require : BOOLEAN,
   origin : Origins \cup {NoOrigin}, hop : 0 .. MaxRedirects, body : BOOLEAN,
   auth : Auths]

\* Every variable has its type; the numbers stay within their bounds.
TypeOK ==
  /\ phase \in {"down", "starting", "admin", "bind", "serving"}
  /\ run \in 0 .. MaxRuns
  /\ opts \in OptionSet
  /\ adminUp \in BOOLEAN
  /\ cell \in Credentials \cup {NoCredential}
  /\ inj \in [Injections -> InjectionRecords]
  /\ req \in [Requests -> RequestRecords]
  /\ delivered \subseteq Deliveries
  /\ held \subseteq (0 .. MaxRuns) \X Credentials

\* The store against its history: a stored credential is recorded for this run,
\* a run that has not reached --provider-token has held nothing, and in a live
\* run the store still holds whatever it ever held.
StoreInv ==
  /\ phase \in {"down", "starting"} => cell = NoCredential
  /\ cell # NoCredential => <<run, cell>> \in held
  /\ \A h \in held : h[1] <= run
  /\ phase = "starting" => \A h \in held : h[1] # run
  /\ phase # "down" => \A h \in held : h[1] = run => h[2] = cell

\* The snapshot a handler works with is the store of its own run, and handlers
\* do not outlive the process.
HandlerInv ==
  /\ adminUp => phase \in {"bind", "serving"}
  /\ \A i \in Injections : inj[i].pc \in {"locking", "stored"} =>
       phase \in {"bind", "serving"} /\ inj[i].cred \in Offered
  /\ \A r \in Requests : InFlight(r) => phase = "serving"
  /\ \A r \in Requests : req[r].pc \in {"sending", "awaiting", "reading", "streaming"} =>
       /\ req[r].auth.by = "relay" => cell # NoCredential /\ req[r].auth.cred = cell
       /\ RequireProviderCredential => req[r].auth.by # "client"
       /\ RequireProviderCredential /\ req[r].hop = 0 => req[r].auth.by = "relay"

\* proxy.rs, lines 115-144: in production mode nothing reaches a provider under
\* a client's Authorization header, the first hop of every request carries the
\* relay's credential, and that credential is one the store held in that run.
FailClosed ==
  \A d \in delivered :
    /\ d.require => d.auth.by # "client"
    /\ d.require /\ d.hop = 0 => d.auth.by = "relay"
    /\ d.auth.by = "relay" => <<d.run, d.auth.cred>> \in held

\* secrets.rs set_once and main(): one run of the process has one credential,
\* however the command line and concurrent admin calls race for the store.
OneCredentialPerRun ==
  \A g, h \in held : g[1] = h[1] => g[2] = h[2]

\* The inductive invariant behind FailClosed and OneCredentialPerRun: store,
\* history and the snapshots of the handlers agree at every await.
IndInv == TypeOK /\ StoreInv /\ HandlerInv /\ OneCredentialPerRun /\ FailClosed

\* inject_provider_credential: at most one call of a run is answered 204, the
\* credential it carried is the one installed, and a call answered 409 met
\* an installed credential.
AnswersTellTheStore ==
  \A i \in Injections :
    /\ inj[i].reply = "204" =>
         /\ <<inj[i].run, inj[i].cred>> \in held
         /\ \A j \in Injections \ {i} :
              inj[j].reply = "204" => inj[j].run # inj[i].run
    /\ inj[i].reply = "409" => \E h \in held : h[1] = inj[i].run

\* A request that arrives when the credential is already installed is never
\* refused for the lack of one and never leaves the relay without it, even in
\* the development mode that forwards client headers.
InstalledMeansUsed ==
  \A r \in Requests : req[r].primed =>
    /\ OwnStatus(req[r].reply) # "503"
    /\ \A d \in delivered : d.req = r /\ d.hop = 0 => d.auth.by = "relay"

\* When the relay itself answers 413 or 503, no provider has seen the request, so
\* that it may be repeated.  (A provider's own 413 or 503 is passed on, and says no
\* such thing.)
RefusedBeforeContact ==
  \A d \in delivered : OwnStatus(req[d.req].reply) \notin {"413", "503"}

\* README: "Injected-provider `401/403` bodies are sanitized before returning
\* to local users", for the replies that are buffered.
BufferedAuthFailuresSanitized ==
  \A r \in Requests :
    req[r].injected /\ req[r].reply.status = "auth_failed" => req[r].reply.body # "provider"

\* The same statement for every reply, event streams included.
AuthFailuresSanitized ==
  \A r \in Requests :
    req[r].injected /\ req[r].reply.status = "auth_failed" => req[r].reply.body = "relay"

OriginAllowed(o) ==
  \E a \in opts.config.allowed_upstreams : UrlOrigin(a) = o

\* main() validates the configuration before it serves: the run-time check of
\* the allowlist never fires, and the first address of every outgoing request is
\* on the list.
AllowlistSettledAtStartup ==
  \A r \in Requests :
    /\ req[r].reply.why # "not_allowed"
    /\ req[r].pc \in {"sending", "awaiting"} /\ req[r].hop = 0 => OriginAllowed(req[r].origin)

\* config.rs, lines 6-8: "the relay will refuse to forward to any URL whose
\* origin (scheme + host + port) does not match one of the entries", for every
\* hop of a request that still carries the client's body.
ForwardsOnlyToAllowedOrigins ==
  \A r \in Requests :
    req[r].pc = "awaiting" /\ req[r].body => OriginAllowed(req[r].origin)

\* A request fails on an unusable credential only in a run whose credential
\* came from --provider-token, which is stored without validate().
OnlyCliTokensBreakRequests ==
  [][\A r \in Requests :
       InFlight(r) /\ req'[r].reply.why = "bad_credential" =>
         opts.provider_token # NoCredential]_vars

\* A provider has received request r.
Contacted(r) == \E d \in delivered : d.req = r

\* What admin calls know: a call that holds or awaits the lock belongs to this run
\* and has been validated, and so has every stored credential of a run whose
\* command line brings none.
CallInv ==
  /\ \A i \in Injections : inj[i].pc \in {"locking", "stored"} =>
       inj[i].run = run /\ AuthorizationValueOk(inj[i].cred)
  /\ cell # NoCredential /\ opts.provider_token = NoCredential => AuthorizationValueOk(cell)

\* What the record q of request r says at each await: which reply it has, whether a
\* provider has seen the request, and past the lock, which header follows from
\* what the handler found in the store.
RecordInv(r, q) ==
  /\ q.pc \in {"idle", "locking", "sending", "awaiting", "reading"} => q.reply = NoReply
  /\ q.pc = "streaming" =>
       q.reply.status \in Statuses /\ q.reply.body = "stream" /\ q.reply.why = "none"
  /\ q.pc \in {"idle", "locking"} => ~Contacted(r) /\ q.hop = 0
  /\ q.pc \in {"awaiting", "reading", "streaming"} \/ q.hop # 0 => Contacted(r)
  /\ q.pc \notin {"idle", "done"} /\ q.primed => cell # NoCredential
  /\ q.pc = "locking" \/ (q.pc \in {"sending", "awaiting"} /\ q.hop = 0) => OriginAllowed(q.origin)
  /\ q.pc \in {"sending", "awaiting", "reading", "streaming"} =>
       /\ q.injected => cell # NoCredential
       /\ q.primed \/ RequireProviderCredential => q.injected
       /\ q.injected /\ q.hop = 0 => q.auth.by = "relay"
       /\ q.auth.by = "relay" => q.injected
       /\ q.auth.by # "relay" => q.auth.cred = NoCredential

\* The configuration of a relay that got past its start-up was accepted.
ConfigInv == phase \notin {"down", "starting"} => Validate(opts.config)

\* The inductive invariant behind every safety property of the relay and behind
\* the refinement of CredentialGate.
ServerInv ==
  /\ IndInv /\ CallInv /\ ConfigInv /\ \A r \in Requests : RecordInv(r, req[r])
  /\ AnswersTellTheStore /\ InstalledMeansUsed /\ RefusedBeforeContact
  /\ BufferedAuthFailuresSanitized /\ AllowlistSettledAtStartup

\* Every accepted request ends, whatever the provider does: the upstream client's
\* timeout covers connection, head and body.  Only the client of an event stream
\* can hold it up, by not reading.
RequestsEnd == \A r \in Requests : InFlight(r) ~> ~InFlight(r) \/ req[r].stalled

\* Every admin call that passed validation is answered or cut off.
InjectionsEnd ==
  \A i \in Injections : inj[i].pc \in {"locking", "stored"} ~> inj[i].pc = "done"

-----------------------------------------------------------------------------
(* The relay implements CredentialGate.                                     *)

GateVerdict(r) ==
  CASE req[r].pc \in {"idle", "locking"} -> [kind |-> "open", cred |-> NoCredential]
    [] req[r].pc \in {"sending", "awaiting", "reading", "streaming"} ->
         [kind |-> "committed", cred |-> IF req[r].injected THEN cell ELSE NoCredential]
    [] OTHER -> [kind |-> IF OwnStatus(req[r].reply) = "503" THEN "refused" ELSE "closed",
                 cred |-> NoCredential]

Gate == INSTANCE CredentialGate WITH
  require <- RequireProviderCredential,
  slot <- cell,
  verdict <- [r \in Requests |-> GateVerdict(r)],
  seen <- {[req |-> d.req, cred |-> d.auth.cred] : d \in delivered}

\* Requests and injections, interleaved at their awaits, behave as if each
\* request were decided in one step against a slot that is filled once.
ImplementsGate == Gate!Spec
=============================================================================
