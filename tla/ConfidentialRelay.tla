------------------------- MODULE ConfidentialRelay -------------------------
(***************************************************************************)
(* The way of a prompt from an application through trusted-relay-local to  *)
(* a provider: local-proxy's lib.rs over what attested TLS promises        *)
(* (PinnedChannel, implemented by AttestedTls) and what the relay promises *)
(* about its credential (CredentialGate, implemented by RelayServer).  The *)
(* relay is restarted, with the pinned build or another one; the proxy's   *)
(* HTTP client keeps channels in a pool and may learn late that one is     *)
(* closed.                                                                 *)
(***************************************************************************)
EXTENDS Naturals

CONSTANTS
  Channels,        \* connections of the proxy's HTTP client
  Requests,        \* prompts of local applications
  Credentials, NoCredential,
  Production       \* the pinned configuration: client credentials are not forwarded

ASSUME RelayAssumption == Production \in BOOLEAN /\ NoCredential \notin Credentials

VARIABLES
  relay, chan,                    \* PinnedChannel
  require, slot, verdict, seen,   \* CredentialGate
  pool,     \* channels idle in the client's pool, as far as the client knows
  job,      \* per prompt: [pc, conn, reused], its proxy_request
  inside,   \* prompts the running relay is processing
  reads     \* history: how often a relay of a kind received a prompt

Channel == INSTANCE PinnedChannel
Gate == INSTANCE CredentialGate

proxyVars == <<pool, job>>
relayVars == <<inside, reads>>
vars == <<relay, chan, require, slot, verdict, seen, pool, job, inside, reads>>

Kinds == {"pinned", "other"}
NoChannel == "none"
Jobs ==
  [pc : {"idle", "ready", "holding", "written", "answered", "failed"},
   conn : Channels \cup {NoChannel}, reused : BOOLEAN]
Job(pc, h, reused) == [pc |-> pc, conn |-> h, reused |-> reused]

Init ==
  /\ Channel!Init /\ Gate!Init /\ require = Production
  /\ pool = {} /\ job = [r \in Requests |-> Job("idle", NoChannel, FALSE)]
  /\ inside = {} /\ reads = [r \in Requests |-> [k \in Kinds |-> 0]]
-----------------------------------------------------------------------------
(* The operator.                                                            *)

\* A run starts.  The pinned configuration decides whether it requires a credential.
StartRelay(kind) ==
  /\ Channel!Start(kind) /\ Gate!NewRun
  /\ kind = "pinned" => require' = Production
  /\ UNCHANGED <<proxyVars, relayVars>>

\* The process ends, its handlers with it.
StopRelay ==
  /\ Channel!Stop /\ Gate!Stop
  /\ \A r \in Requests : verdict'[r] # verdict[r] => r \in inside
  /\ \A r \in inside : verdict'[r].kind # "open"
  /\ inside' = {} /\ UNCHANGED <<proxyVars, reads>>

Inject == relay # "down" /\ Gate!Install /\ UNCHANGED <<relay, chan, proxyVars, relayVars>>
-----------------------------------------------------------------------------
(* The proxy: proxy_request and its pooling HTTP client.                    *)

proxySteps == <<require, slot, verdict, seen, relayVars>>
Goes(r, j) == job' = [job EXCEPT ![r] = j]

\* The request is rewritten for the relay and given to the client.
Arrive(r) ==
  /\ job[r].pc = "idle" /\ Goes(r, Job("ready", NoChannel, FALSE))
  /\ UNCHANGED <<relay, chan, pool, proxySteps>>

\* An idle channel is taken from the pool.
Reuse(r, h) ==
  /\ job[r].pc = "ready" /\ h \in pool
  /\ pool' = pool \ {h} /\ Goes(r, Job("holding", h, TRUE))
  /\ UNCHANGED <<relay, chan, proxySteps>>

\* The client knows no channel by that name.
Unknown(h) == h \notin pool \cup chan /\ \A q \in Requests : job[q].conn # h

\* Slip: the connector accepts whatever relay answers.
ConnectUnverified(r, h) ==
  /\ job[r].pc = "ready" /\ Unknown(h)
  /\ relay # "down" /\ chan' = chan \cup {h} /\ UNCHANGED relay
  /\ Goes(r, Job("holding", h, FALSE))
  /\ UNCHANGED <<pool, proxySteps>>

\* AttestedConnector::call: a channel of its own.
Connect(r, h) ==
  /\ job[r].pc = "ready" /\ Unknown(h)
  /\ Channel!Open(h) /\ Goes(r, Job("holding", h, FALSE))
  /\ UNCHANGED <<pool, proxySteps>>

\* No route, no tunnel, or a handshake that is refused: 502.
ConnectFails(r) ==
  /\ job[r].pc = "ready" /\ Goes(r, Job("failed", NoChannel, FALSE))
  /\ UNCHANGED <<relay, chan, pool, proxySteps>>

\* The request is written; what is written to a closed channel is lost.
Write(r) ==
  /\ job[r].pc = "holding" /\ Goes(r, [job[r] EXCEPT !.pc = "written"])
  /\ UNCHANGED <<relay, chan, pool, proxySteps>>

\* The client finds the channel closed before it has written: with a channel from
\* the pool it starts over, with a new one it gives up.
Cancelled(r) ==
  /\ job[r].pc = "holding" /\ job[r].conn \notin chan
  /\ Goes(r, Job(IF job[r].reused THEN "ready" ELSE "failed", NoChannel, FALSE))
  /\ UNCHANGED <<relay, chan, pool, proxySteps>>

\* Slip: a request whose answer does not come is started over.
LostRetried(r) ==
  /\ job[r].pc = "written" /\ job[r].conn \notin chan
  /\ Goes(r, Job("ready", NoChannel, FALSE))
  /\ UNCHANGED <<relay, chan, pool, proxySteps>>

\* The channel ends before the answer: 502.
Lost(r) ==
  /\ job[r].pc = "written" /\ job[r].conn \notin chan
  /\ Goes(r, Job("failed", NoChannel, FALSE))
  /\ UNCHANGED <<relay, chan, pool, proxySteps>>

\* The pool forgets a channel.
Forget(h) ==
  /\ h \in pool /\ pool' = pool \ {h}
  /\ chan' = chan \ {h} /\ UNCHANGED <<relay, job, proxySteps>>

\* A channel breaks, or the relay closes it; the client may not notice.
Break(h) == Channel!Close(h) /\ UNCHANGED <<proxyVars, proxySteps>>
-----------------------------------------------------------------------------
(* The relay's side of a prompt.                                            *)

Receive(r) ==
  /\ job[r].pc = "written" /\ job[r].conn \in chan /\ r \notin inside
  /\ inside' = inside \cup {r} /\ reads' = [reads EXCEPT ![r][relay] = @ + 1]
  /\ UNCHANGED <<relay, chan, require, slot, verdict, seen, proxyVars>>

\* Slip: the prompt is forwarded before the credential is looked at.
HandleEarly(r) ==
  /\ r \in inside
  /\ \/ Gate!Refuse(r) \/ Gate!Commit(r)
     \/ seen' = seen \cup {[req |-> r, cred |-> slot]} /\ UNCHANGED <<require, slot, verdict>>
  /\ UNCHANGED <<relay, chan, proxyVars, relayVars>>

\* The handler's steps, as the gate allows them.
Handle(r) ==
  /\ r \in inside
  /\ Gate!Refuse(r) \/ Gate!Commit(r) \/ Gate!Contact(r)
  /\ UNCHANGED <<relay, chan, proxyVars, relayVars>>

\* The answer arrives: an error before the gate, its refusal, or what the provider
\* or its failure made.  The channel goes back to the pool.
Answer(r) ==
  /\ r \in inside /\ job[r].pc = "written" /\ job[r].conn \in chan
  /\ inside' = inside \ {r}
  /\ verdict' = [verdict EXCEPT ![r] = IF @.kind \in {"open", "committed"} THEN Gate!Done ELSE @]
  /\ pool' = pool \cup {job[r].conn} /\ Goes(r, Job("answered", NoChannel, FALSE))
  /\ UNCHANGED <<relay, chan, require, slot, seen, reads>>

\* The handler of a client that is gone is dropped.
Drop(r) ==
  /\ r \in inside /\ job[r].conn \notin chan
  /\ inside' = inside \ {r}
  /\ verdict' = [verdict EXCEPT ![r] = IF @.kind \in {"open", "committed"} THEN Gate!Done ELSE @]
  /\ UNCHANGED <<relay, chan, require, slot, seen, reads, proxyVars>>
-----------------------------------------------------------------------------
Next ==
  \/ \E kind \in Kinds : StartRelay(kind)
  \/ StopRelay \/ Inject
  \/ \E h \in Channels : Forget(h) \/ Break(h)
  \/ \E r \in Requests :
       \/ Arrive(r) \/ ConnectFails(r) \/ Write(r) \/ Cancelled(r) \/ Lost(r)
       \/ \E h \in Channels : Reuse(r, h) \/ Connect(r, h)
       \/ Receive(r) \/ Handle(r) \/ Answer(r) \/ Drop(r)

Spec == Init /\ [][Next]_vars
-----------------------------------------------------------------------------
\* Every variable has its type.
TypeOK ==
  /\ relay \in Kinds \cup {"down"} /\ chan \subseteq Channels
  /\ require \in BOOLEAN /\ slot \in Credentials \cup {NoCredential}
  /\ verdict \in [Requests -> [kind : {"open", "refused", "committed", "closed"},
                               cred : Credentials \cup {NoCredential}]]
  /\ seen \subseteq [req : Requests, cred : Credentials \cup {NoCredential}]
  /\ pool \subseteq Channels
  /\ job \in [Requests -> Jobs]
  /\ inside \subseteq Requests /\ reads \in [Requests -> [Kinds -> Nat]]

\* lib.rs, run and AttestedConnector: no relay but the pinned one receives a prompt,
\* also when the relay is replaced while the pool holds channels to the old one.
PromptsStayPinned == \A r \in Requests : reads[r]["other"] = 0

\* client.request(request): a prompt is processed once at most.  What is started over
\* after a channel was found closed was never received, whatever runs came between.
ProcessedOnce == \A r \in Requests : reads[r]["pinned"] <= 1

\* A provider sees a prompt only through the pinned relay and, when the pinned
\* configuration is a production one, never before it has seen it under a
\* credential that was injected, whatever mode other runs have.
ProvidersSeeCredential ==
  \A s \in seen :
    /\ reads[s.req]["pinned"] = 1
    /\ Production => \E t \in seen : t.req = s.req /\ t.cred \in Credentials

\* Channels and prompts belong to the pinned run; a prompt that was received is in
\* work, or its channel is gone for good; what is committed has a credential.
Belongs ==
  /\ chan # {} \/ inside # {} => relay = "pinned"
  /\ relay = "pinned" => require = Production
  /\ relay = "down" => slot = NoCredential
  /\ \A r \in Requests :
       /\ verdict[r].kind = "committed" =>
            r \in inside /\ (Production => verdict[r].cred \in Credentials)
       /\ r \in inside => reads[r]["pinned"] = 1
       /\ reads[r]["pinned"] = 1 =>
            /\ job[r].pc \in {"written", "answered", "failed"}
            /\ job[r].pc = "written" => r \in inside \/ job[r].conn \notin chan

\* The inductive invariant behind the three properties.
RelayInv == TypeOK /\ Belongs /\ PromptsStayPinned /\ ProcessedOnce /\ ProvidersSeeCredential
=============================================================================
