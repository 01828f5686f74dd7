---------------------- MODULE ConfidentialRelayProofs ----------------------
(***************************************************************************)
(* For any number of prompts, channels and credentials: RelayInv is        *)
(* inductive, so that prompts stay with the pinned relay, are processed    *)
(* once at most, and reach providers under an injected credential.         *)
(***************************************************************************)
EXTENDS ConfidentialRelay, TLAPS

\* The initial state satisfies the invariant.
LEMMA InitInv == Init => RelayInv
BY RelayAssumption
DEF Init, RelayInv, TypeOK, Belongs, PromptsStayPinned, ProcessedOnce, ProvidersSeeCredential,
    Channel!Init, Gate!Init, Gate!Open, Gate!Verdict, Job, Jobs, Kinds, NoChannel

\* A prompt's record changes within its type.
LEMMA JobType ==
  ASSUME NEW j \in Jobs, NEW r \in Requests, job \in [Requests -> Jobs], Goes(r, j)
  PROVE  job' \in [Requests -> Jobs]
BY DEF Goes

\* The records the proxy makes.
LEMMA JobValues ==
  ASSUME TypeOK, NEW r \in Requests
  PROVE  /\ Job("ready", NoChannel, FALSE) \in Jobs /\ Job("failed", NoChannel, FALSE) \in Jobs
         /\ Job("answered", NoChannel, FALSE) \in Jobs
         /\ [job[r] EXCEPT !.pc = "written"] \in Jobs
         /\ \A h \in Channels, b \in BOOLEAN : Job("holding", h, b) \in Jobs
BY DEF TypeOK, Jobs, Job

\* What is outside the relay: the proxy's own steps with its pool.
ProxyStep(r) ==
  \/ Arrive(r) \/ ConnectFails(r) \/ Write(r) \/ Cancelled(r) \/ Lost(r)
  \/ \E h \in Channels : Reuse(r, h) \/ Connect(r, h)

\* The proxy's steps leave the relay and its history alone.
LEMMA ProxyInv == ASSUME RelayInv, NEW r \in Requests, ProxyStep(r) PROVE RelayInv'
<1> USE DEF RelayInv, proxySteps, relayVars, Kinds
<1>1. ASSUME Arrive(r) \/ ConnectFails(r) \/ Write(r) \/ Cancelled(r) \/ Lost(r) PROVE RelayInv'
  <2>1. TypeOK'
    <3>1. job' \in [Requests -> Jobs]
      BY <1>1, JobType, JobValues DEF TypeOK, Arrive, ConnectFails, Write, Cancelled, Lost
    <3> QED BY <1>1, <3>1 DEF TypeOK, Arrive, ConnectFails, Write, Cancelled, Lost
  <2>2. Belongs'
    BY <1>1 DEF TypeOK, Jobs, Goes, Job, NoChannel, Belongs, Arrive, ConnectFails, Write, Cancelled, Lost
  <2>3. PromptsStayPinned' /\ ProcessedOnce' /\ ProvidersSeeCredential'
    BY <1>1 DEF PromptsStayPinned, ProcessedOnce, ProvidersSeeCredential,
                Arrive, ConnectFails, Write, Cancelled, Lost
  <2> QED BY <2>1, <2>2, <2>3
<1>2. ASSUME NEW h \in Channels, Reuse(r, h) \/ Connect(r, h) PROVE RelayInv'
  <2>1. TypeOK'
    <3>1. job' \in [Requests -> Jobs]
      BY <1>2, JobType, JobValues DEF TypeOK, Reuse, Connect
    <3> QED BY <1>2, <3>1 DEF TypeOK, Reuse, Connect, Channel!Open
  <2>2. Belongs'
    BY <1>2 DEF TypeOK, Jobs, Goes, Job, NoChannel, Belongs, Reuse, Connect, Unknown, Channel!Open
  <2>3. PromptsStayPinned' /\ ProcessedOnce' /\ ProvidersSeeCredential'
    BY <1>2 DEF PromptsStayPinned, ProcessedOnce, ProvidersSeeCredential, Reuse, Connect
  <2> QED BY <2>1, <2>2, <2>3
<1> QED BY <1>1, <1>2 DEF ProxyStep

\* A channel that goes takes nothing with it.
LEMMA ChannelInv ==
  ASSUME RelayInv, NEW h \in Channels, Forget(h) \/ Break(h) PROVE RelayInv'
<1> USE DEF RelayInv, proxySteps, relayVars, proxyVars, Kinds, Forget, Break, Channel!Close
<1>1. TypeOK'
  BY DEF TypeOK
<1>2. Belongs'
  BY DEF TypeOK, Belongs
<1>3. PromptsStayPinned' /\ ProcessedOnce' /\ ProvidersSeeCredential'
  BY DEF PromptsStayPinned, ProcessedOnce, ProvidersSeeCredential
<1> QED BY <1>1, <1>2, <1>3

\* The operator's steps: a run begins without a credential and takes everything in
\* work with it when it ends.
LEMMA OperatorInv ==
  ASSUME RelayInv, (\E kind \in Kinds : StartRelay(kind)) \/ StopRelay \/ Inject PROVE RelayInv'
<1> USE RelayAssumption DEF RelayInv, relayVars, proxyVars, Kinds
<1>1. ASSUME NEW kind \in Kinds, StartRelay(kind) PROVE RelayInv'
  <2>1. TypeOK'
    BY <1>1 DEF TypeOK, StartRelay, Channel!Start, Gate!NewRun
  <2>2. Belongs'
    BY <1>1 DEF TypeOK, Belongs, StartRelay, Channel!Start, Gate!NewRun
  <2>3. PromptsStayPinned' /\ ProcessedOnce' /\ ProvidersSeeCredential'
    BY <1>1 DEF PromptsStayPinned, ProcessedOnce, ProvidersSeeCredential, StartRelay,
                Channel!Start, Gate!NewRun
  <2> QED BY <2>1, <2>2, <2>3
<1>2. ASSUME StopRelay PROVE RelayInv'
  <2>1. PICK R \in SUBSET Requests :
          /\ \A r \in Requests : verdict[r].kind = "committed" => r \in R
          /\ verdict' = [r \in Requests |-> IF r \in R THEN Gate!Done ELSE verdict[r]]
    BY <1>2 DEF StopRelay, Gate!Stop
  <2>2. TypeOK'
    BY <1>2, <2>1 DEF TypeOK, StopRelay, Channel!Stop, Gate!Stop, Gate!Done, Gate!Verdict
  <2>3. \A r \in Requests : verdict'[r].kind # "committed"
    BY <2>1 DEF TypeOK, Gate!Done, Gate!Verdict
  <2>4. Belongs'
    BY <1>2, <2>3 DEF TypeOK, Belongs, StopRelay, Channel!Stop, Gate!Stop
  <2>5. PromptsStayPinned' /\ ProcessedOnce' /\ ProvidersSeeCredential'
    BY <1>2 DEF PromptsStayPinned, ProcessedOnce, ProvidersSeeCredential, StopRelay, Gate!Stop
  <2> QED BY <2>2, <2>4, <2>5
<1>3. ASSUME Inject PROVE RelayInv'
  <2>1. TypeOK'
    BY <1>3 DEF TypeOK, Inject, Gate!Install
  <2>2. Belongs'
    BY <1>3 DEF TypeOK, Belongs, Inject, Gate!Install
  <2>3. PromptsStayPinned' /\ ProcessedOnce' /\ ProvidersSeeCredential'
    BY <1>3 DEF PromptsStayPinned, ProcessedOnce, ProvidersSeeCredential, Inject, Gate!Install
  <2> QED BY <2>1, <2>2, <2>3
<1> QED BY <1>1, <1>2, <1>3

\* A prompt is received over a channel, hence by the pinned relay, for the first time.
LEMMA ReceiveInv == ASSUME RelayInv, NEW r \in Requests, Receive(r) PROVE RelayInv'
<1> USE DEF RelayInv, proxyVars, Kinds, Receive
<1>1. relay = "pinned" /\ reads[r]["pinned"] = 0
  <2>1. relay = "pinned" BY DEF Belongs
  <2>2. reads[r]["pinned"] # 1 BY DEF Belongs
  <2>3. reads[r]["pinned"] \in Nat /\ reads[r]["pinned"] <= 1 BY DEF TypeOK, ProcessedOnce
  <2> QED BY <2>1, <2>2, <2>3
<1>2. reads' = [reads EXCEPT ![r]["pinned"] = 1]
  BY <1>1 DEF TypeOK
<1>3. TypeOK'
  <2>1. [reads[r] EXCEPT !["pinned"] = 1] \in [Kinds -> Nat] BY DEF TypeOK
  <2>2. reads' \in [Requests -> [Kinds -> Nat]] BY <1>2, <2>1 DEF TypeOK
  <2> QED BY <2>2 DEF TypeOK
<1>4. Belongs'
  BY <1>1, <1>2 DEF TypeOK, Belongs
<1>5. PromptsStayPinned' /\ ProcessedOnce'
  BY <1>2 DEF TypeOK, PromptsStayPinned, ProcessedOnce
<1>6. ProvidersSeeCredential'
  BY <1>2 DEF TypeOK, ProvidersSeeCredential
<1> QED BY <1>3, <1>4, <1>5, <1>6

\* A handler that has no credential in a production run refuses.
LEMMA HandleInv == ASSUME RelayInv, NEW r \in Requests, Handle(r) PROVE RelayInv'
<1> USE RelayAssumption DEF RelayInv, proxyVars, relayVars, Kinds
<1>0. relay = "pinned" /\ require = Production /\ reads[r]["pinned"] = 1 /\ r \in inside
  BY DEF Handle, Belongs
<1>1. ASSUME Gate!Refuse(r) \/ Gate!Commit(r) PROVE RelayInv'
  <2>1. TypeOK'
    BY <1>1 DEF TypeOK, Handle, Gate!Refuse, Gate!Commit, Gate!Refused, Gate!Verdict
  <2>2. Belongs'
    BY <1>0, <1>1 DEF TypeOK, Belongs, Handle, Gate!Refuse, Gate!Commit, Gate!Refused, Gate!Verdict
  <2>3. PromptsStayPinned' /\ ProcessedOnce' /\ ProvidersSeeCredential'
    BY <1>1 DEF PromptsStayPinned, ProcessedOnce, ProvidersSeeCredential, Handle,
                Gate!Refuse, Gate!Commit
  <2> QED BY <2>1, <2>2, <2>3
<1>2. ASSUME Gate!Contact(r) PROVE RelayInv'
  <2>1. TypeOK'
    BY <1>2 DEF TypeOK, Handle, Gate!Contact
  <2>2. Belongs'
    BY <1>2 DEF TypeOK, Belongs, Handle, Gate!Contact
  <2>3. PromptsStayPinned' /\ ProcessedOnce'
    BY <1>2 DEF PromptsStayPinned, ProcessedOnce, Handle
  <2>4. ProvidersSeeCredential'
    BY <1>0, <1>2 DEF TypeOK, Belongs, ProvidersSeeCredential, Handle, Gate!Contact
  <2> QED BY <2>1, <2>2, <2>3, <2>4
<1> QED BY <1>1, <1>2 DEF Handle

\* A prompt leaves the relay answered or with its channel gone.
LEMMA LeaveInv == ASSUME RelayInv, NEW r \in Requests, Answer(r) \/ Drop(r) PROVE RelayInv'
<1> USE DEF RelayInv, proxyVars, Kinds, Answer, Drop
<1>1. TypeOK'
  <2>1. job' \in [Requests -> Jobs]
    BY JobType, JobValues DEF TypeOK
  <2>2. verdict' \in [Requests -> [kind : {"open", "refused", "committed", "closed"},
                                   cred : Credentials \cup {NoCredential}]]
    <3>1. \E v \in {verdict[r], Gate!Done} : verdict' = [verdict EXCEPT ![r] = v]
      BY DEF TypeOK
    <3> QED BY <3>1 DEF TypeOK, Gate!Done, Gate!Verdict
  <2>3. pool' \subseteq Channels
    BY DEF TypeOK
  <2> QED BY <2>1, <2>2, <2>3 DEF TypeOK
<1>2. Belongs'
  BY DEF TypeOK, Belongs, Goes, Job, NoChannel, Jobs, Gate!Done, Gate!Verdict
<1>3. PromptsStayPinned' /\ ProcessedOnce' /\ ProvidersSeeCredential'
  BY DEF PromptsStayPinned, ProcessedOnce, ProvidersSeeCredential
<1> QED BY <1>1, <1>2, <1>3

\* The invariant is inductive.
LEMMA NextInv == RelayInv /\ [Next]_vars => RelayInv'
<1> SUFFICES ASSUME RelayInv, [Next]_vars PROVE RelayInv' OBVIOUS
<1>1. CASE UNCHANGED vars
  BY <1>1 DEF vars, RelayInv, TypeOK, Belongs, PromptsStayPinned, ProcessedOnce, ProvidersSeeCredential
<1>2. CASE Next
  BY <1>2, ProxyInv, ChannelInv, OperatorInv, ReceiveInv, HandleInv, LeaveInv DEF Next, ProxyStep
<1> QED BY <1>1, <1>2

\* The inductive invariant holds in every run of the composed system.
THEOREM EndToEndInvariant == Spec => []RelayInv
BY InitInv, NextInv, PTL DEF Spec

\* AttestedConnector and the pool of trusted-relay-local: for any number of prompts,
\* channels and restarts, only the pinned relay receives a prompt.
THEOREM OnlyPinnedRelayReads == Spec => []PromptsStayPinned
<1>1. RelayInv => PromptsStayPinned BY DEF RelayInv
<1> QED BY <1>1, EndToEndInvariant, PTL

\* client.request(request): retries of the pooling client never have a prompt
\* processed twice.
THEOREM AtMostOnce == Spec => []ProcessedOnce
<1>1. RelayInv => ProcessedOnce BY DEF RelayInv
<1> QED BY <1>1, EndToEndInvariant, PTL

\* What providers see comes through the pinned relay and, with a production
\* configuration, under a credential that was injected into it.
THEOREM ProvidersSeeInjected == Spec => []ProvidersSeeCredential
<1>1. RelayInv => ProvidersSeeCredential BY DEF RelayInv
<1> QED BY <1>1, EndToEndInvariant, PTL

-----------------------------------------------------------------------------
(* The composition adds a proxy to the two abstract specifications and      *)
(* nothing to what they allow.                                              *)

\* Pool and proxy take no liberties with the channels.
LEMMA ChannelStep ==
  ASSUME RelayInv, [Next]_vars PROVE [Channel!Next]_(Channel!channelVars)
<1> USE DEF Channel!channelVars
<1>1. ASSUME NEW kind \in Kinds, StartRelay(kind) PROVE Channel!Next
  BY <1>1 DEF StartRelay, Channel!Next, Kinds
<1>2. ASSUME StopRelay PROVE Channel!Next
  BY <1>2 DEF StopRelay, Channel!Next
<1>3. ASSUME NEW h \in Channels, Forget(h) \/ Break(h)
      PROVE  Channel!Next \/ UNCHANGED <<relay, chan>>
  BY <1>3 DEF Forget, Break, Channel!Next, Channel!Close
<1>4. ASSUME NEW r \in Requests, NEW h \in Channels, Connect(r, h) PROVE Channel!Next
  BY <1>4 DEF Connect, Channel!Next
<1>5. ASSUME NEW r \in Requests,
             \/ Arrive(r) \/ ConnectFails(r) \/ Write(r) \/ Cancelled(r) \/ Lost(r)
             \/ \E h \in Channels : Reuse(r, h)
             \/ Receive(r) \/ Handle(r) \/ Answer(r) \/ Drop(r)
      PROVE  UNCHANGED <<relay, chan>>
  BY <1>5 DEF Arrive, ConnectFails, Write, Cancelled, Lost, Reuse, Receive, Handle, Answer, Drop
<1>6. ASSUME Inject \/ UNCHANGED vars PROVE UNCHANGED <<relay, chan>>
  BY <1>6 DEF Inject, vars
<1> QED BY <1>1, <1>2, <1>3, <1>4, <1>5, <1>6 DEF Next

\* local-proxy's connector: the channels of the composed system behave as attested
\* TLS promises, whatever the pool does with them.
THEOREM ProxyRespectsChannel == Spec => Channel!Spec
<1>1. Init => Channel!Init BY DEF Init
<1>2. RelayInv /\ [Next]_vars => [Channel!Next]_(Channel!channelVars) BY ChannelStep
<1> QED BY <1>1, <1>2, EndToEndInvariant, PTL DEF Spec, Channel!Spec

\* An answered or abandoned prompt closes its verdict, unless it was refused.
LEMMA LeaveGate ==
  ASSUME RelayInv, NEW r \in Requests, Answer(r) \/ Drop(r)
  PROVE  Gate!Close(r) \/ UNCHANGED <<require, slot, verdict, seen>>
<1>1. /\ verdict' = [verdict EXCEPT ![r] = IF @.kind \in {"open", "committed"} THEN Gate!Done ELSE @]
      /\ UNCHANGED <<require, slot, seen>>
  BY DEF Answer, Drop
<1>2. CASE verdict[r].kind \in {"open", "committed"}
  BY <1>1, <1>2 DEF Gate!Close
<1>3. CASE verdict[r].kind \notin {"open", "committed"}
  BY <1>1, <1>3 DEF RelayInv, TypeOK
<1> QED BY <1>2, <1>3

\* Restarts and the proxy take no liberties with the credential.
LEMMA GateStep ==
  ASSUME RelayInv, [Next]_vars PROVE [Gate!Next]_(Gate!gateVars)
<1> USE DEF Gate!gateVars
<1>1. ASSUME NEW kind \in Kinds, StartRelay(kind) PROVE Gate!Next
  BY <1>1 DEF StartRelay, Gate!Next
<1>2. ASSUME StopRelay \/ Inject PROVE Gate!Next
  BY <1>2 DEF StopRelay, Inject, Gate!Next
<1>3. ASSUME NEW r \in Requests, Handle(r) PROVE Gate!Next
  BY <1>3 DEF Handle, Gate!Next
<1>4. ASSUME NEW r \in Requests, Answer(r) \/ Drop(r)
      PROVE  Gate!Next \/ UNCHANGED <<require, slot, verdict, seen>>
  BY <1>4, LeaveGate DEF Gate!Next
<1>5. ASSUME NEW r \in Requests, ProxyStep(r) \/ Receive(r)
      PROVE  UNCHANGED <<require, slot, verdict, seen>>
  BY <1>5 DEF ProxyStep, Arrive, ConnectFails, Write, Cancelled, Lost, Reuse, Connect, Receive, proxySteps
<1>6. ASSUME NEW h \in Channels, Forget(h) \/ Break(h)
      PROVE  UNCHANGED <<require, slot, verdict, seen>>
  BY <1>6 DEF Forget, Break, proxySteps
<1>7. ASSUME UNCHANGED vars PROVE UNCHANGED <<require, slot, verdict, seen>>
  BY <1>7 DEF vars
<1> QED BY <1>1, <1>2, <1>3, <1>4, <1>5, <1>6, <1>7 DEF Next, ProxyStep

\* proxy_chat_completions behind the proxy: a credential is installed once in a run,
\* and prompts are refused, committed and seen as the gate says, also when they
\* arrive through pooled channels, are answered, or lose their client.
THEOREM RelayRespectsGate == Spec => Gate!Spec
<1>1. Init => Gate!Init BY DEF Init
<1>2. RelayInv /\ [Next]_vars => [Gate!Next]_(Gate!gateVars) BY GateStep
<1> QED BY <1>1, <1>2, EndToEndInvariant, PTL DEF Spec, Gate!Spec
=============================================================================
