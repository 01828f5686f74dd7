------------------------- MODULE RelayServerProofs -------------------------
(***************************************************************************)
(* Proofs about RelayServer for every value of its constants: any number   *)
(* of requests, admin calls, command lines and credentials, any upstream   *)
(* configuration and any bound on runs and redirects.  IndInv carries      *)
(* OneCredentialPerRun and FailClosed; ServerInv, on top of it, says what  *)
(* the record of a request and of an admin call tells at each await, and   *)
(* carries the other properties and the refinement of CredentialGate.      *)
(***************************************************************************)
EXTENDS RelayServer, TLAPS, FiniteSets, FiniteSetTheorems

-----------------------------------------------------------------------------
(* The records handlers are made of.                                        *)

\* The four replies the relay builds are replies.
LEMMA ReplyTypes ==
  /\ NoReply \in Replies /\ Lost \in Replies
  /\ \A status \in {"413", "500", "503"},
        why \in {"large", "not_allowed", "no_credential", "bad_credential", "send", "body"} :
       RelayError(status, why) \in Replies
  /\ \A status \in Statuses \cup {"none"}, body \in {"relay", "provider", "stream"}, why \in {"none", "cut"} :
       Reply(status, body, why) \in Replies
  BY DEF NoReply, Lost, RelayError, Reply, Replies, Statuses

\* Which replies are the relay's own.
LEMMA OwnStatuses ==
  /\ OwnStatus(NoReply) = "none" /\ OwnStatus(Lost) = "none"
  /\ \A status, why : OwnStatus(RelayError(status, why)) = status
  /\ \A status, why : OwnStatus(Reply(status, "stream", why)) = "none"
  /\ \A status, why : OwnStatus(Reply(status, "provider", why)) = "none"
  /\ \A status, why : OwnStatus(Reply(status, "relay", why)) = status
  BY DEF OwnStatus, NoReply, Lost, RelayError, Reply

\* The header values of an outgoing request are header values.
LEMMA AuthTypes ==
  /\ NoAuth \in Auths /\ ClientAuth \in Auths
  /\ \A c \in Credentials : InjectedAuth(c) \in Auths
  BY DEF NoAuth, ClientAuth, InjectedAuth, Auths

\* A fresh handler record is a handler record.
LEMMA NewRequestType == NewRequest \in RequestRecords
  BY ReplyTypes, AuthTypes, BoundsAssumption DEF NewRequest, RequestRecords, PCs

\* Closing a handler record leaves one, with the given reply.
LEMMA ClosedType ==
  ASSUME NEW q \in RequestRecords, NEW reply \in Replies
  PROVE  /\ Closed(q, reply) \in RequestRecords
         /\ Closed(q, reply).pc = "done"
  <1>1. q.injected \in BOOLEAN /\ q.primed \in BOOLEAN
    BY DEF RequestRecords
  <1> QED
    BY <1>1, NewRequestType DEF Closed, RequestRecords, PCs

-----------------------------------------------------------------------------
(* The inductive invariant holds initially.                                 *)

LEMMA InitIndInv == Init => IndInv
  <1> SUFFICES ASSUME Init PROVE IndInv
    OBVIOUS
  <1>1. TypeOK
    <2>1. 0 \in 0 .. MaxRuns
      BY BoundsAssumption
    <2>2. NewInjection \in InjectionRecords
      BY <2>1 DEF NewInjection, InjectionRecords
    <2>3. inj \in [Injections -> InjectionRecords] /\ req \in [Requests -> RequestRecords]
      BY <2>2, NewRequestType DEF Init
    <2>4. delivered \subseteq Deliveries /\ held \subseteq (0 .. MaxRuns) \X Credentials
      BY DEF Init
    <2> QED
      BY <2>1, <2>3, <2>4 DEF Init, TypeOK
  <1>2. StoreInv
    BY DEF Init, StoreInv
  <1>3. HandlerInv
    BY DEF Init, HandlerInv, InFlight, NewInjection, NewRequest
  <1>4. OneCredentialPerRun /\ FailClosed
    BY DEF Init, OneCredentialPerRun, FailClosed
  <1> QED
    BY <1>1, <1>2, <1>3, <1>4 DEF IndInv

-----------------------------------------------------------------------------
(* The steps of main().                                                     *)

LEMMA CliCredentialType ==
  ASSUME NEW o \in OptionSet
  PROVE  o.provider_token \in Credentials \cup {NoCredential}
  BY DEF OptionSet, Options, Credentials

\* A new run starts with an empty store and a number no history mentions.
LEMMA LaunchIndInv ==
  ASSUME IndInv, NEW l \in Launches, Launch(l)
  PROVE  IndInv'
  <1> USE DEF IndInv
  <1>1. TypeOK'
    <2>1. run' \in 0 .. MaxRuns
      BY BoundsAssumption DEF Launch, TypeOK
    <2>2. opts' \in OptionSet
      BY DEF Launch, OptionSet
    <2> QED
      BY <2>1, <2>2 DEF Launch, TypeOK
  <1>2. \A h \in held : h[1] \in Int /\ h[1] <= run
    BY DEF TypeOK, StoreInv
  <1>3. run \in Int /\ run' = run + 1
    BY DEF Launch, TypeOK
  <1>4. StoreInv'
    BY <1>2, <1>3 DEF Launch, StoreInv
  <1>5. HandlerInv'
    BY DEF Launch, HandlerInv, InFlight
  <1>6. OneCredentialPerRun' /\ FailClosed'
    BY DEF Launch, OneCredentialPerRun, FailClosed
  <1> QED
    BY <1>1, <1>4, <1>5, <1>6

\* The command line's token is the first credential of its run.
LEMMA ConfigureIndInv ==
  ASSUME IndInv, Configure
  PROVE  IndInv'
  <1> USE DEF IndInv
  <1>1. opts.provider_token \in Credentials \cup {NoCredential}
    BY CliCredentialType DEF TypeOK
  <1>2. held \subseteq held' /\ \A h \in held' : h \in held \/ h = <<run, opts.provider_token>>
    BY DEF Configure
  <1>3. TypeOK'
    <2>1. held' \subseteq (0 .. MaxRuns) \X Credentials
      BY <1>1 DEF Configure, TypeOK
    <2>2. phase' \in {"down", "starting", "admin", "bind", "serving"}
      BY DEF Configure
    <2> QED
      BY <1>1, <2>1, <2>2 DEF Configure, TypeOK
  <1>4. StoreInv'
    BY <1>2 DEF Configure, StoreInv, TypeOK
  <1>5. HandlerInv'
    BY DEF Configure, HandlerInv, InFlight
  <1>6. OneCredentialPerRun'
    BY <1>2 DEF Configure, StoreInv, OneCredentialPerRun
  <1>7. FailClosed'
    BY <1>2 DEF Configure, FailClosed
  <1> QED
    BY <1>3, <1>4, <1>5, <1>6, <1>7

\* Opening the listeners touches no credential.
LEMMA ListenIndInv ==
  ASSUME IndInv, OpenAdmin \/ BindData
  PROVE  IndInv'
  <1> USE DEF IndInv
  <1>1. TypeOK'
    BY OptionAssumption DEF OpenAdmin, BindData, TypeOK
  <1>2. StoreInv'
    BY DEF OpenAdmin, BindData, StoreInv
  <1>3. HandlerInv'
    BY DEF OpenAdmin, BindData, HandlerInv, InFlight, RequireProviderCredential
  <1>4. OneCredentialPerRun' /\ FailClosed'
    BY DEF OpenAdmin, BindData, OneCredentialPerRun, FailClosed
  <1> QED
    BY <1>1, <1>2, <1>3, <1>4

\* When the process ends its handlers end with it.
LEMMA DieIndInv ==
  ASSUME IndInv, Die
  PROVE  IndInv'
  <1> USE DEF IndInv
  <1>1. /\ inj' \in [Injections -> InjectionRecords]
        /\ \A i \in Injections : inj'[i].pc \notin {"locking", "stored"}
    BY DEF Die, TypeOK, InjectionRecords
  <1>2. \A r \in Requests :
         /\ Closed(req[r], Lost) \in RequestRecords
         /\ Closed(req[r], Lost).pc = "done"
    BY ClosedType, ReplyTypes DEF TypeOK
  <1>3. req' \in [Requests -> RequestRecords]
       /\ \A r \in Requests : req'[r].pc \in {"idle", "done"}
    BY <1>2 DEF Die, TypeOK, InFlight
  <1>4. TypeOK'
    BY <1>1, <1>3 DEF Die, TypeOK
  <1>5. StoreInv'
    BY DEF Die, StoreInv
  <1>6. HandlerInv'
    BY <1>1, <1>3 DEF Die, HandlerInv, InFlight
  <1>7. OneCredentialPerRun' /\ FailClosed'
    BY DEF Die, OneCredentialPerRun, FailClosed
  <1> QED
    BY <1>4, <1>5, <1>6, <1>7

-----------------------------------------------------------------------------
(* The admin handler.                                                       *)

\* A validated call waits for the lock with a credential it was offered.
LEMMA InjectIndInv ==
  ASSUME IndInv, NEW i \in Injections, NEW c \in Offered, Inject(i, c)
  PROVE  IndInv'
  <1> USE DEF IndInv
  <1> DEFINE entry == IF ValidateCredential(c)
                 THEN [pc |-> "locking", cred |-> c, run |-> run, reply |-> "none"]
                 ELSE [pc |-> "done", cred |-> c, run |-> run, reply |-> "400"]
  <1>1. entry \in InjectionRecords /\ entry.cred \in Offered
    BY DEF TypeOK, InjectionRecords
  <1>2. inj' = [inj EXCEPT ![i] = entry]
    BY DEF Inject
  <1> HIDE DEF entry
  <1>3. TypeOK'
    BY <1>1, <1>2 DEF Inject, procVars, TypeOK
  <1>4. StoreInv'
    BY DEF Inject, procVars, StoreInv
  <1>5. HandlerInv'
    <2>1. \A j \in Injections : inj'[j].pc \in {"locking", "stored"} =>
            phase \in {"bind", "serving"} /\ inj'[j].cred \in Offered
      BY <1>1, <1>2 DEF Inject, HandlerInv, TypeOK
    <2> QED
      BY <2>1 DEF Inject, procVars, HandlerInv, InFlight, RequireProviderCredential
  <1>6. OneCredentialPerRun' /\ FailClosed'
    BY DEF Inject, OneCredentialPerRun, FailClosed
  <1> QED
    BY <1>3, <1>4, <1>5, <1>6

\* set_once fills an empty store only: the history of this run was empty.
LEMMA SetOnceIndInv ==
  ASSUME IndInv, NEW i \in Injections, SetOnce(i)
  PROVE  IndInv'
  <1> USE DEF IndInv
  <1>1. inj[i].cred \in Offered /\ phase \in {"bind", "serving"}
    BY DEF SetOnce, HandlerInv
  <1>2. /\ inj' \in [Injections -> InjectionRecords]
        /\ \A j \in Injections : inj'[j].cred = inj[j].cred
        /\ \A j \in Injections : inj'[j].pc = inj[j].pc \/ j = i
    BY DEF SetOnce, TypeOK, InjectionRecords
  <1>3. CASE cell = NoCredential
    <2>1. cell' = inj[i].cred /\ held' = held \cup {<<run, inj[i].cred>>}
         /\ UNCHANGED <<procVars, req, delivered>>
      BY <1>3 DEF SetOnce
    <2>2. \A h \in held : h[1] # run
      BY <1>1, <1>3, CredentialAssumption DEF StoreInv, TypeOK, Credentials
    <2>3. TypeOK'
      BY <1>1, <1>2, <2>1 DEF TypeOK, procVars, Credentials
    <2>4. StoreInv'
      BY <1>1, <2>1, <2>2 DEF StoreInv, procVars, TypeOK
    <2>5. HandlerInv'
      <3>1. \A r \in Requests : req[r].pc \in {"sending", "awaiting", "reading", "streaming"} =>
              req[r].auth.by # "relay"
        BY <1>3 DEF HandlerInv
      <3> QED
        BY <1>1, <1>2, <2>1, <3>1 DEF HandlerInv, procVars, InFlight, RequireProviderCredential
    <2>6. OneCredentialPerRun'
      BY <2>1, <2>2 DEF OneCredentialPerRun
    <2>7. FailClosed'
      BY <2>1 DEF FailClosed
    <2> QED
      BY <2>3, <2>4, <2>5, <2>6, <2>7
  <1>4. CASE cell # NoCredential
    <2>1. UNCHANGED <<procVars, cell, held, req, delivered>>
      BY <1>4 DEF SetOnce
    <2>2. TypeOK' /\ StoreInv'
      BY <1>2, <2>1 DEF TypeOK, StoreInv, procVars
    <2>3. HandlerInv'
      BY <1>1, <1>2, <2>1 DEF procVars, HandlerInv, InFlight, RequireProviderCredential
    <2>4. OneCredentialPerRun' /\ FailClosed'
      BY <2>1 DEF OneCredentialPerRun, FailClosed
    <2> QED
      BY <2>2, <2>3, <2>4
  <1> QED
    BY <1>3, <1>4

\* An answer, or the loss of it, changes the record of the call alone.
LEMMA AnswerIndInv ==
  ASSUME IndInv, NEW i \in Injections, AnswerInjection(i) \/ LoseInjection(i)
  PROVE  IndInv'
  <1> USE DEF IndInv
  <1>1. /\ inj' \in [Injections -> InjectionRecords]
        /\ \A j \in Injections : inj'[j].cred = inj[j].cred
        /\ \A j \in Injections : inj'[j].pc = inj[j].pc \/ inj'[j].pc = "done"
    BY DEF AnswerInjection, LoseInjection, TypeOK, InjectionRecords
  <1>2. UNCHANGED <<procVars, cell, req, delivered, held>>
    BY DEF AnswerInjection, LoseInjection
  <1>3. TypeOK' /\ StoreInv'
    BY <1>1, <1>2 DEF TypeOK, StoreInv, procVars
  <1>4. HandlerInv'
    BY <1>1, <1>2 DEF HandlerInv, InFlight, RequireProviderCredential, procVars
  <1>5. OneCredentialPerRun' /\ FailClosed'
    BY <1>2 DEF OneCredentialPerRun, FailClosed
  <1> QED
    BY <1>3, <1>4, <1>5

-----------------------------------------------------------------------------
(* The data-plane handler.  A step that delivers nothing replaces one handler *)
(* record by another; what is left to show is that the new record agrees    *)
(* with the store.                                                          *)

\* What HandlerInv asks of a single handler record.
SnapshotOk(q) ==
  /\ q.pc \notin {"idle", "done"} => phase = "serving"
  /\ q.pc \in {"sending", "awaiting", "reading", "streaming"} =>
       /\ q.auth.by = "relay" => cell # NoCredential /\ q.auth.cred = cell
       /\ RequireProviderCredential => q.auth.by # "client"
       /\ RequireProviderCredential /\ q.hop = 0 => q.auth.by = "relay"

LEMMA HandlerSnapshots ==
  ASSUME HandlerInv, NEW r \in Requests
  PROVE  SnapshotOk(req[r])
  BY DEF HandlerInv, SnapshotOk, InFlight

LEMMA RequestStepHandlerInv ==
  ASSUME IndInv, NEW r \in Requests, NEW q \in RequestRecords, SnapshotOk(q),
         req' = [req EXCEPT ![r] = q], UNCHANGED <<procVars, cell, inj>>
  PROVE  HandlerInv' /\ req' \in [Requests -> RequestRecords]
  <1>1. req' \in [Requests -> RequestRecords]
       /\ \A s \in Requests : req'[s] = req[s] \/ req'[s] = q
    BY DEF IndInv, TypeOK
  <1>2. \A s \in Requests : SnapshotOk(req'[s])
    BY <1>1, HandlerSnapshots DEF IndInv
  <1>3. \A s \in Requests :
         /\ req'[s].pc \notin {"idle", "done"} => phase = "serving"
         /\ req'[s].pc \in {"sending", "awaiting", "reading", "streaming"} =>
              /\ req'[s].auth.by = "relay" => cell # NoCredential /\ req'[s].auth.cred = cell
              /\ RequireProviderCredential => req'[s].auth.by # "client"
              /\ RequireProviderCredential /\ req'[s].hop = 0 => req'[s].auth.by = "relay"
    BY <1>2 DEF SnapshotOk
  <1>4. HandlerInv'
    BY <1>3 DEF IndInv, HandlerInv, InFlight, procVars, RequireProviderCredential
  <1> QED
    BY <1>1, <1>4

LEMMA RequestStepIndInv ==
  ASSUME IndInv, NEW r \in Requests, NEW q \in RequestRecords, SnapshotOk(q),
         req' = [req EXCEPT ![r] = q], UNCHANGED <<procVars, cell, inj, delivered, held>>
  PROVE  IndInv'
  <1>1. HandlerInv' /\ req' \in [Requests -> RequestRecords]
    BY RequestStepHandlerInv
  <1>2. TypeOK' /\ StoreInv'
    BY <1>1 DEF IndInv, TypeOK, StoreInv, procVars
  <1>3. OneCredentialPerRun' /\ FailClosed'
    BY DEF IndInv, OneCredentialPerRun, FailClosed
  <1> QED
    BY <1>1, <1>2, <1>3 DEF IndInv

\* A closed record asks nothing of the store.
LEMMA CloseIndInv ==
  ASSUME IndInv, NEW r \in Requests, NEW q \in RequestRecords, NEW reply \in Replies,
         req' = [req EXCEPT ![r] = Closed(q, reply)],
         UNCHANGED <<procVars, cell, inj, delivered, held>>
  PROVE  IndInv'
  <1>1. Closed(q, reply) \in RequestRecords /\ SnapshotOk(Closed(q, reply))
    BY ClosedType DEF SnapshotOk
  <1> QED
    BY <1>1, RequestStepIndInv

\* The steps that finish a request.
LEMMA FinishIndInv ==
  ASSUME IndInv, NEW r \in Requests,
         \/ SendFails(r) \/ ReadBody(r) \/ BodyFails(r) \/ ClientGone(r)
         \/ \E why \in {"none", "cut"} : EndStream(r, why)
  PROVE  IndInv'
  <1>1. req[r] \in RequestRecords /\ req[r].status \in Statuses \cup {"none"}
    BY DEF IndInv, TypeOK, RequestRecords
  <1>2. CASE SendFails(r)
    BY <1>1, <1>2, ReplyTypes, CloseIndInv DEF SendFails
  <1>3. CASE BodyFails(r)
    BY <1>1, <1>3, ReplyTypes, CloseIndInv DEF BodyFails
  <1>4. CASE ClientGone(r)
    BY <1>1, <1>4, ReplyTypes, CloseIndInv DEF ClientGone
  <1>5. CASE ReadBody(r)
    BY <1>1, <1>5, ReplyTypes, CloseIndInv DEF ReadBody
  <1>6. CASE \E why \in {"none", "cut"} : EndStream(r, why)
    BY <1>1, <1>6, ReplyTypes, CloseIndInv DEF EndStream
  <1> QED
    BY <1>2, <1>3, <1>4, <1>5, <1>6

\* Refused for its size or its route, or waiting for the credential lock.
LEMMA ArriveIndInv ==
  ASSUME IndInv, NEW r \in Requests, NEW in \in Inputs, Arrive(r, in)
  PROVE  IndInv'
  <1> DEFINE entry == [NewRequest EXCEPT !.primed = cell # NoCredential]
             origin == FirstOrigin(opts.config, in.model)
             waiting == [entry EXCEPT !.pc = "locking", !.client = in.auth,
                                      !.origin = origin]
  <1>1. entry \in RequestRecords
    BY NewRequestType DEF RequestRecords
  <1>2. origin \in Origins /\ in.auth \in BOOLEAN
    BY InputAssumption DEF Origins, IndInv, TypeOK
  <1>3. waiting \in RequestRecords /\ waiting.pc = "locking"
    <2> HIDE DEF entry, origin
    <2> QED
      BY <1>1, <1>2 DEF RequestRecords, PCs
  <1>4. \/ req' = [req EXCEPT ![r] = Closed(entry, RelayError("413", "large"))]
        \/ req' = [req EXCEPT ![r] = Closed(entry, RelayError("500", "not_allowed"))]
        \/ req' = [req EXCEPT ![r] = waiting]
    BY InputAssumption DEF Arrive
  <1>5. UNCHANGED <<procVars, cell, inj, delivered, held>> /\ phase = "serving"
    BY DEF Arrive
  <1> HIDE DEF entry, waiting
  <1>6. SnapshotOk(waiting)
    BY <1>3, <1>5 DEF SnapshotOk
  <1> QED
    BY <1>1, <1>3, <1>4, <1>5, <1>6, ReplyTypes, CloseIndInv, RequestStepIndInv

\* The store is read once; what the handler keeps is what it read.
LEMMA ReadCredentialIndInv ==
  ASSUME IndInv, NEW r \in Requests, ReadCredential(r)
  PROVE  IndInv'
  <1> DEFINE q == [req[r] EXCEPT !.injected = cell # NoCredential]
             auth == IF q.client THEN ClientAuth ELSE NoAuth
             plain == [q EXCEPT !.pc = "sending", !.auth = auth]
             primed == [q EXCEPT !.pc = "sending", !.auth = InjectedAuth(cell)]
  <1>1. req[r] \in RequestRecords /\ cell \in Credentials \cup {NoCredential}
    BY DEF IndInv, TypeOK
  <1>2. q \in RequestRecords
    BY <1>1 DEF RequestRecords
  <1>3. phase = "serving" /\ UNCHANGED <<procVars, cell, inj, delivered, held>>
    BY DEF ReadCredential, IndInv, HandlerInv, InFlight
  <1>4. CASE cell = NoCredential /\ RequireProviderCredential
    <2>1. req' = [req EXCEPT ![r] = Closed(q, RelayError("503", "no_credential"))]
      BY <1>4 DEF ReadCredential
    <2> QED
      BY <1>2, <1>3, <2>1, ReplyTypes, CloseIndInv
  <1>5. CASE cell = NoCredential /\ ~RequireProviderCredential
    <2>1. req' = [req EXCEPT ![r] = plain]
      BY <1>5 DEF ReadCredential
    <2>2. auth \in Auths /\ auth.by # "relay"
      BY AuthTypes DEF ClientAuth, NoAuth
    <2> HIDE DEF q, auth
    <2>3. plain \in RequestRecords /\ plain.auth = auth
      BY <1>2, <2>2 DEF RequestRecords, PCs
    <2>4. SnapshotOk(plain)
      BY <1>3, <1>5, <2>2, <2>3 DEF SnapshotOk
    <2> HIDE DEF plain
    <2> QED
      BY <1>3, <2>1, <2>3, <2>4, RequestStepIndInv
  <1>6. CASE cell # NoCredential /\ ~AuthorizationValueOk(cell)
    <2>1. req' = [req EXCEPT ![r] = Closed(q, RelayError("500", "bad_credential"))]
      BY <1>6 DEF ReadCredential
    <2> QED
      BY <1>2, <1>3, <2>1, ReplyTypes, CloseIndInv
  <1>7. CASE cell # NoCredential /\ AuthorizationValueOk(cell)
    <2>1. req' = [req EXCEPT ![r] = primed]
      BY <1>7 DEF ReadCredential
    <2>2. primed \in RequestRecords /\ primed.auth = InjectedAuth(cell)
      BY <1>1, <1>2, <1>7, AuthTypes, ZenonT(60) DEF RequestRecords, PCs
    <2>3. SnapshotOk(primed)
      BY <1>3, <1>7, <2>2 DEF SnapshotOk, InjectedAuth
    <2> HIDE DEF primed
    <2> QED
      BY <1>3, <2>1, <2>2, <2>3, RequestStepIndInv
  <1> QED
    BY <1>4, <1>5, <1>6, <1>7

\* What a provider receives is the handler's snapshot, hence the store's value.
LEMMA DeliverIndInv ==
  ASSUME IndInv, NEW r \in Requests, Deliver(r)
  PROVE  IndInv'
  <1> USE DEF IndInv
  <1> DEFINE q == [req[r] EXCEPT !.pc = "awaiting"]
             d == [req |-> r, run |-> run, require |-> RequireProviderCredential,
                   origin |-> req[r].origin, hop |-> req[r].hop, body |-> req[r].body,
                   auth |-> req[r].auth]
  <1>1. req[r] \in RequestRecords /\ SnapshotOk(req[r]) /\ req[r].pc = "sending"
    BY HandlerSnapshots DEF Deliver, TypeOK
  <1>2. q \in RequestRecords /\ SnapshotOk(q)
    BY <1>1 DEF RequestRecords, PCs, SnapshotOk
  <1>3. req' = [req EXCEPT ![r] = q] /\ UNCHANGED <<procVars, cell, inj, held>>
    BY DEF Deliver
  <1>4. HandlerInv' /\ req' \in [Requests -> RequestRecords]
    BY <1>2, <1>3, RequestStepHandlerInv
  <1>5. d \in Deliveries
    BY <1>1 DEF RequestRecords, Deliveries, TypeOK, RequireProviderCredential
  <1>6. delivered' = delivered \cup {d}
    BY DEF Deliver
  <1>7. /\ d.require => d.auth.by # "client"
        /\ d.require /\ d.hop = 0 => d.auth.by = "relay"
        /\ d.auth.by = "relay" => <<d.run, d.auth.cred>> \in held
    BY <1>1 DEF SnapshotOk, StoreInv
  <1> HIDE DEF q, d
  <1>8. TypeOK' /\ StoreInv'
    BY <1>3, <1>4, <1>5, <1>6 DEF TypeOK, StoreInv, procVars
  <1>9. OneCredentialPerRun' /\ FailClosed'
    BY <1>3, <1>6, <1>7 DEF OneCredentialPerRun, FailClosed
  <1> QED
    BY <1>4, <1>8, <1>9

\* A redirect keeps the header or drops it; it never adds one.
LEMMA RedirectIndInv ==
  ASSUME IndInv, NEW r \in Requests, NEW o \in Elsewhere, NEW keeps \in BOOLEAN,
         Redirect(r, o, keeps)
  PROVE  IndInv'
  <1> DEFINE auth == IF o.host = req[r].origin.host /\ o.port = req[r].origin.port
                       THEN req[r].auth ELSE NoAuth
             hop == req[r].hop + 1
             body == req[r].body /\ keeps
             q == [req[r] EXCEPT !.pc = "sending", !.origin = o, !.hop = hop,
                                 !.body = body, !.auth = auth]
  <1>1. req[r] \in RequestRecords /\ SnapshotOk(req[r])
       /\ req[r].pc = "awaiting" /\ req[r].hop < MaxRedirects
    BY HandlerSnapshots DEF Redirect, IndInv, TypeOK
  <1>2. auth \in Auths /\ auth \in {req[r].auth, NoAuth}
    BY <1>1, AuthTypes DEF RequestRecords
  <1>3. req' = [req EXCEPT ![r] = q] /\ UNCHANGED <<procVars, cell, inj, delivered, held>>
    BY DEF Redirect
  <1>4. hop \in 0 .. MaxRedirects /\ hop # 0
    BY <1>1, BoundsAssumption DEF RequestRecords
  <1>5. body \in BOOLEAN /\ o \in Origins
    BY DEF Origins
  <1> HIDE DEF auth, hop, body
  <1>6. q \in RequestRecords /\ q.auth = auth /\ q.hop = hop /\ q.pc = "sending"
    BY <1>1, <1>2, <1>4, <1>5 DEF RequestRecords, PCs
  <1>7. SnapshotOk(q)
    BY <1>1, <1>2, <1>4, <1>6 DEF SnapshotOk, NoAuth
  <1> HIDE DEF q
  <1> QED
    BY <1>3, <1>6, <1>7, RequestStepIndInv

\* The response head changes what the handler waits for.
LEMMA ReceiveHeadIndInv ==
  ASSUME IndInv, NEW r \in Requests, NEW status \in Statuses, NEW streams \in BOOLEAN,
         ReceiveHead(r, status, streams)
  PROVE  IndInv'
  <1> DEFINE pc == IF streams THEN "streaming" ELSE "reading"
             reply == IF streams THEN Reply(status, "stream", "none") ELSE req[r].reply
             q == [req[r] EXCEPT !.pc = pc, !.status = status, !.reply = reply]
  <1>1. req[r] \in RequestRecords /\ SnapshotOk(req[r]) /\ req[r].pc = "awaiting"
    BY HandlerSnapshots DEF ReceiveHead, IndInv, TypeOK
  <1>2. reply \in Replies /\ pc \in {"streaming", "reading"}
    BY <1>1, ReplyTypes DEF RequestRecords
  <1>3. req' = [req EXCEPT ![r] = q] /\ UNCHANGED <<procVars, cell, inj, delivered, held>>
    BY DEF ReceiveHead
  <1> HIDE DEF pc, reply
  <1>4. q \in RequestRecords /\ SnapshotOk(q)
    BY <1>1, <1>2 DEF RequestRecords, PCs, SnapshotOk
  <1> HIDE DEF q
  <1> QED
    BY <1>3, <1>4, RequestStepIndInv

\* A client that pauses changes nothing but the flow of the stream.
LEMMA PauseIndInv ==
  ASSUME IndInv, NEW r \in Requests, ClientPauses(r)
  PROVE  IndInv'
  <1> DEFINE stalled == ~req[r].stalled
             q == [req[r] EXCEPT !.stalled = stalled]
  <1>1. req[r] \in RequestRecords /\ SnapshotOk(req[r])
    BY HandlerSnapshots DEF IndInv, TypeOK
  <1>2. req' = [req EXCEPT ![r] = q] /\ UNCHANGED <<procVars, cell, inj, delivered, held>>
    BY DEF ClientPauses
  <1>3. stalled \in BOOLEAN
    OBVIOUS
  <1> HIDE DEF stalled
  <1>4. q \in RequestRecords /\ SnapshotOk(q)
    BY <1>1, <1>3 DEF RequestRecords, SnapshotOk
  <1> HIDE DEF q
  <1> QED
    BY <1>2, <1>4, RequestStepIndInv

-----------------------------------------------------------------------------
(* The theorems.                                                            *)

\* Every step of the relay preserves the inductive invariant.
LEMMA NextIndInv == IndInv /\ [Next]_vars => IndInv'
  <1> SUFFICES ASSUME IndInv, [Next]_vars PROVE IndInv'
    OBVIOUS
  <1>1. CASE \E l \in Launches : Launch(l)
    BY <1>1, LaunchIndInv
  <1>2. CASE Configure \/ OpenAdmin \/ BindData \/ Die
    BY <1>2, ConfigureIndInv, ListenIndInv, DieIndInv
  <1>3. CASE \E i \in Injections :
               \/ \E c \in Offered : Inject(i, c)
               \/ InjectionStep(i) \/ LoseInjection(i)
    BY <1>3, InjectIndInv, SetOnceIndInv, AnswerIndInv DEF InjectionStep
  <1>4. ASSUME NEW r \in Requests,
               \/ \E in \in Inputs : Arrive(r, in)
               \/ HandlerStep(r) \/ ProviderStep(r) \/ ClientGone(r) \/ ClientPauses(r)
        PROVE  IndInv'
    <2>1. CASE \E in \in Inputs : Arrive(r, in)
      BY <2>1, ArriveIndInv
    <2>2. CASE HandlerStep(r) \/ ClientGone(r)
      BY <2>2, ReadCredentialIndInv, DeliverIndInv, FinishIndInv DEF HandlerStep
    <2>3. CASE ProviderStep(r)
      BY <2>3, RedirectIndInv, ReceiveHeadIndInv DEF ProviderStep
    <2>4. CASE ClientPauses(r)
      BY <2>4, PauseIndInv
    <2> QED
      BY <1>4, <2>1, <2>2, <2>3, <2>4
  <1>5. CASE UNCHANGED vars
    BY <1>5 DEF vars, IndInv, TypeOK, StoreInv, HandlerInv, InFlight,
                RequireProviderCredential, OneCredentialPerRun, FailClosed
  <1> QED
    BY <1>1, <1>2, <1>3, <1>4, <1>5 DEF Next

\* The store, its history and the handlers' snapshots agree in every state.
THEOREM Invariance == Spec => []IndInv
  BY InitIndInv, NextIndInv, PTL DEF Spec

\* Every variable of the relay keeps its type, and redirects their bound.
THEOREM TypeCorrect == Spec => []TypeOK
  <1>1. IndInv => TypeOK
    BY DEF IndInv
  <1> QED
    BY Invariance, <1>1, PTL

\* set_once: a run of the process has one credential, however many admin
\* calls race with each other and with the command line.
THEOREM CredentialIsUnique == Spec => []OneCredentialPerRun
  <1>1. IndInv => OneCredentialPerRun
    BY DEF IndInv
  <1> QED
    BY Invariance, <1>1, PTL

\* proxy_chat_completions fails closed: in production mode no provider ever
\* sees a client's Authorization header or an unauthenticated first request,
\* and the credential it sees is one the store held in that run.
THEOREM RelayFailsClosed == Spec => []FailClosed
  <1>1. IndInv => FailClosed
    BY DEF IndInv
  <1> QED
    BY Invariance, <1>1, PTL

-----------------------------------------------------------------------------
(* main() has no routes: every request goes to the default upstream.        *)

\* Without routes the sorted list of prefixes is empty and nothing matches.
LEMMA NoRoutes ==
  ASSUME NEW cfg, NEW model, DOMAIN cfg.routes = {}
  PROVE  ResolveUpstream(cfg, model) = [base_url |-> cfg.default_upstream, path |-> DefaultPath]
  <1>1. SetToSeqs({}) = {<<>>}
    <2>1. Cardinality({}) = 0
      BY FS_EmptySet
    <2>2. SetToSeqs({}) = {f \in [1 .. 0 -> {}] : \A i, j \in 1 .. 0 : i # j => f[i] # f[j]}
      BY <2>1 DEF SetToSeqs
    <2>3. \A f \in [1 .. 0 -> {}] : f = <<>>
      OBVIOUS
    <2>4. <<>> \in [1 .. 0 -> {}]
      OBVIOUS
    <2> QED
      BY <2>2, <2>3, <2>4
  <1>2. SortedRoutes(cfg) = <<>>
    BY <1>1 DEF SortedRoutes
  <1> QED
    BY <1>2 DEF ResolveUpstream, SelectInSeq

\* A validated command line allows the upstream it routes to, and the address
\* a request is first sent to is the origin of an allowed upstream.
LEMMA ValidatedRoute ==
  ASSUME NEW o \in OptionSet, NEW model, Validate(o.config)
  PROVE  /\ CheckUpstreamAllowed(o.config, ResolveUpstream(o.config, model).base_url)
         /\ \E a \in o.config.allowed_upstreams :
              UrlOrigin(a) = FirstOrigin(o.config, model)
  <1>1. PICK l \in Launches : o = Options(l)
    BY DEF OptionSet
  <1> DEFINE c == [l.config EXCEPT !.routes = <<>>,
                                   !.provider_auth_scheme = TrimScheme(@)]
  <1>2. c.routes = <<>> /\ DOMAIN c = DOMAIN l.config
    BY LaunchAssumption
  <1>3. o.config = AutoAllow(c)
    BY <1>1 DEF Options, ServerConfig
  <1> HIDE DEF c
  <1>4. o.config.routes = <<>> /\ o.config.allowed_upstreams # {}
    BY <1>2, <1>3, LaunchAssumption DEF AutoAllow
  <1>5. ResolveUpstream(o.config, model)
          = [base_url |-> o.config.default_upstream, path |-> DefaultPath]
    BY <1>4, NoRoutes
  <1>6. CheckUpstreamAllowed(o.config, o.config.default_upstream)
    BY <1>4 DEF Validate
  <1>7. FirstOrigin(o.config, model) = UrlOrigin(o.config.default_upstream)
    BY <1>5 DEF FirstOrigin, UpstreamUrl, DefaultPath
  <1> QED
    BY <1>4, <1>5, <1>6, <1>7 DEF CheckUpstreamAllowed

-----------------------------------------------------------------------------
(* The invariant, request by request.                                       *)

\* Everything ServerInv says about the record q of request r.
RequestOk(r, q) ==
  /\ RecordInv(r, q)
  /\ q.primed =>
       /\ OwnStatus(q.reply) # "503"
       /\ \A d \in delivered : d.req = r /\ d.hop = 0 => d.auth.by = "relay"
  /\ OwnStatus(q.reply) \in {"413", "503"} => ~Contacted(r)
  /\ q.injected /\ q.reply.status = "auth_failed" => q.reply.body # "provider"
  /\ q.reply.why # "not_allowed"

LEMMA RequestParts ==
  ASSUME ServerInv, NEW r \in Requests
  PROVE  RequestOk(r, req[r])
  <1> USE DEF ServerInv
  <1>1. RecordInv(r, req[r])
    OBVIOUS
  <1>2. req[r].primed =>
         /\ OwnStatus(req[r].reply) # "503"
         /\ \A d \in delivered : d.req = r /\ d.hop = 0 => d.auth.by = "relay"
    BY DEF InstalledMeansUsed
  <1>3. OwnStatus(req[r].reply) \in {"413", "503"} => ~Contacted(r)
    BY DEF RefusedBeforeContact, Contacted
  <1>4. /\ req[r].injected /\ req[r].reply.status = "auth_failed" => req[r].reply.body # "provider"
        /\ req[r].reply.why # "not_allowed"
    BY DEF BufferedAuthFailuresSanitized, AllowlistSettledAtStartup
  <1> QED
    BY <1>1, <1>2, <1>3, <1>4 DEF RequestOk

LEMMA ServerParts ==
  ASSUME IndInv', CallInv', ConfigInv', AnswersTellTheStore',
         \A r \in Requests : RequestOk(r, req[r])'
  PROVE  ServerInv'
  <1> USE DEF RequestOk
  <1>1. InstalledMeansUsed'
    BY DEF InstalledMeansUsed
  <1>2. RefusedBeforeContact'
    <2>1. \A d \in delivered' : d.req \in Requests
      BY DEF IndInv, TypeOK, Deliveries
    <2> QED
      BY <2>1 DEF RefusedBeforeContact, Contacted
  <1>3. BufferedAuthFailuresSanitized'
    BY DEF BufferedAuthFailuresSanitized
  <1>4. AllowlistSettledAtStartup'
    BY DEF AllowlistSettledAtStartup, RecordInv
  <1>5. \A r \in Requests : RecordInv(r, req[r])'
    OBVIOUS
  <1> QED
    BY <1>1, <1>2, <1>3, <1>4, <1>5 DEF ServerInv

\* A step that replaces one record and touches nothing else.
LEMMA RequestStep ==
  ASSUME ServerInv, IndInv', NEW r \in Requests, NEW q, RequestOk(r, q),
         req' = [req EXCEPT ![r] = q],
         UNCHANGED <<procVars, cell, inj, delivered, held>>
  PROVE  ServerInv'
  <1>1. CallInv' /\ ConfigInv' /\ AnswersTellTheStore'
    BY DEF ServerInv, CallInv, ConfigInv, AnswersTellTheStore, procVars
  <1>2. \A s \in Requests : req'[s] = IF s = r THEN q ELSE req[s]
    BY DEF ServerInv, IndInv, TypeOK
  <1>3. \A s \in Requests : RequestOk(s, req'[s])
    BY <1>2, RequestParts
  <1>4. ASSUME NEW s \in Requests PROVE RequestOk(s, req[s])'
    <2>1. RequestOk(s, req'[s])
      BY <1>3
    <2> QED
      BY <2>1 DEF RequestOk, RecordInv, Contacted, OriginAllowed, RequireProviderCredential, procVars
  <1> QED
    BY <1>1, <1>4, ServerParts

\* A request may be closed with any reply that tells the truth about it.
LEMMA CloseStep ==
  ASSUME ServerInv, IndInv', NEW r \in Requests, NEW q, NEW reply,
         q.primed => /\ OwnStatus(reply) # "503"
                     /\ \A d \in delivered : d.req = r /\ d.hop = 0 => d.auth.by = "relay",
         OwnStatus(reply) \in {"413", "503"} => ~Contacted(r),
         q.injected /\ reply.status = "auth_failed" => reply.body # "provider",
         reply.why # "not_allowed",
         req' = [req EXCEPT ![r] = Closed(q, reply)],
         UNCHANGED <<procVars, cell, inj, delivered, held>>
  PROVE  ServerInv'
  <1> DEFINE c == Closed(q, reply)
  <1>1. /\ c.pc = "done" /\ c.hop = 0 /\ c.reply = reply
        /\ c.injected = q.injected /\ c.primed = q.primed
    BY DEF Closed, NewRequest
  <1> HIDE DEF c
  <1>2. RequestOk(r, c)
    BY <1>1 DEF RequestOk, RecordInv
  <1> QED
    BY <1>2, RequestStep DEF c

-----------------------------------------------------------------------------
(* The steps of a request.                                                  *)

\* The steps that finish a request.
LEMMA FinishServer ==
  ASSUME ServerInv, IndInv', NEW r \in Requests,
         \/ SendFails(r) \/ ReadBody(r) \/ BodyFails(r) \/ ClientGone(r)
         \/ \E why \in {"none", "cut"} : EndStream(r, why)
  PROVE  ServerInv'
  <1>1. /\ RequestOk(r, req[r])
        /\ req[r].status \in Statuses \cup {"none"}
    BY RequestParts DEF ServerInv, IndInv, TypeOK, RequestRecords
  <1>2. CASE SendFails(r)
    <2> DEFINE reply == RelayError("500", "send")
    <2>1. reply.status = "500" /\ reply.why = "send" /\ OwnStatus(reply) = "500"
      BY OwnStatuses DEF RelayError, Reply
    <2>2. /\ req' = [req EXCEPT ![r] = Closed(req[r], reply)]
          /\ UNCHANGED <<procVars, cell, inj, delivered, held>>
      BY <1>2 DEF SendFails
    <2> HIDE DEF reply
    <2> QED
      BY <1>1, <2>1, <2>2, CloseStep DEF RequestOk
  <1>3. CASE BodyFails(r)
    <2> DEFINE reply == RelayError("500", "body")
    <2>1. reply.status = "500" /\ reply.why = "body" /\ OwnStatus(reply) = "500"
      BY OwnStatuses DEF RelayError, Reply
    <2>2. /\ req' = [req EXCEPT ![r] = Closed(req[r], reply)]
          /\ UNCHANGED <<procVars, cell, inj, delivered, held>>
      BY <1>3 DEF BodyFails
    <2> HIDE DEF reply
    <2> QED
      BY <1>1, <2>1, <2>2, CloseStep DEF RequestOk
  <1>4. CASE ClientGone(r)
    <2>1. Lost.status = "lost" /\ Lost.why = "none" /\ OwnStatus(Lost) = "none"
      BY OwnStatuses DEF Lost, Reply
    <2>2. /\ req' = [req EXCEPT ![r] = Closed(req[r], Lost)]
          /\ UNCHANGED <<procVars, cell, inj, delivered, held>>
      BY <1>4 DEF ClientGone
    <2> QED
      BY <1>1, <2>1, <2>2, CloseStep DEF RequestOk
  <1>5. CASE ReadBody(r)
    <2> DEFINE body == IF req[r].injected /\ req[r].status = "auth_failed"
                         THEN "relay" ELSE "provider"
               reply == Reply(req[r].status, body, "none")
    <2>1. /\ OwnStatus(reply) \notin {"413", "503"} /\ reply.why # "not_allowed"
          /\ req[r].injected /\ reply.status = "auth_failed" => reply.body # "provider"
      BY OwnStatuses DEF Reply
    <2>2. /\ req' = [req EXCEPT ![r] = Closed(req[r], reply)]
          /\ UNCHANGED <<procVars, cell, inj, delivered, held>>
      BY <1>5 DEF ReadBody
    <2> HIDE DEF reply
    <2> QED
      BY <1>1, <2>1, <2>2, CloseStep DEF RequestOk
  <1>6. ASSUME NEW why \in {"none", "cut"}, EndStream(r, why) PROVE ServerInv'
    <2> DEFINE reply == Reply(req[r].status, "stream", why)
    <2>1. /\ OwnStatus(reply) = "none" /\ reply.why # "not_allowed"
          /\ reply.body # "provider"
      BY OwnStatuses DEF Reply
    <2>2. /\ req' = [req EXCEPT ![r] = Closed(req[r], reply)]
          /\ UNCHANGED <<procVars, cell, inj, delivered, held>>
      BY <1>6 DEF EndStream
    <2> HIDE DEF reply
    <2> QED
      BY <1>1, <2>1, <2>2, CloseStep DEF RequestOk
  <1> QED
    BY <1>2, <1>3, <1>4, <1>5, <1>6

LEMMA NoReplyFields ==
  /\ NoReply.status = "none" /\ NoReply.body = "none" /\ NoReply.why = "none"
  /\ OwnStatus(NoReply) = "none"
  BY OwnStatuses DEF NoReply, Reply

\* A request is refused for its size before any provider saw it; the allowlist
\* lets every other one pass, because the configuration was validated.
LEMMA ArriveServer ==
  ASSUME ServerInv, IndInv', NEW r \in Requests, NEW in \in Inputs, Arrive(r, in)
  PROVE  ServerInv'
  <1> DEFINE entry == [NewRequest EXCEPT !.primed = cell # NoCredential]
             origin == FirstOrigin(opts.config, in.model)
             q == [entry EXCEPT !.pc = "locking", !.client = in.auth, !.origin = origin]
  <1>1. RequestOk(r, req[r]) /\ req[r].pc = "idle" /\ phase = "serving"
       /\ UNCHANGED <<procVars, cell, inj, delivered, held>>
    BY RequestParts DEF Arrive
  <1>2. ~Contacted(r)
    BY <1>1 DEF RequestOk, RecordInv
  <1>3. \A d \in delivered : d.req # r
    BY <1>2 DEF Contacted
  <1>4. /\ CheckUpstreamAllowed(opts.config, ResolveUpstream(opts.config, in.model).base_url)
        /\ OriginAllowed(origin)
    BY <1>1, ValidatedRoute DEF ServerInv, ConfigInv, IndInv, TypeOK, OriginAllowed
  <1>5. CASE in.large
    <2> DEFINE reply == RelayError("413", "large")
    <2>1. req' = [req EXCEPT ![r] = Closed(entry, reply)]
      BY <1>5 DEF Arrive
    <2>2. reply.status = "413" /\ reply.why = "large" /\ OwnStatus(reply) = "413"
      BY OwnStatuses DEF RelayError, Reply
    <2> HIDE DEF entry, reply
    <2> QED
      BY <1>1, <1>2, <1>3, <2>1, <2>2, CloseStep
  <1>6. CASE ~in.large
    <2>1. req' = [req EXCEPT ![r] = q]
      BY <1>4, <1>6 DEF Arrive
    <2>2. /\ q.pc = "locking" /\ q.origin = origin /\ q.hop = 0 /\ q.reply = NoReply
          /\ (q.primed => cell # NoCredential) /\ ~q.injected
      BY DEF NewRequest
    <2> HIDE DEF q, origin
    <2>3. RequestOk(r, q)
      BY <1>2, <1>3, <1>4, <2>2, NoReplyFields DEF RequestOk, RecordInv
    <2> QED
      BY <1>1, <2>1, <2>3, RequestStep
  <1> QED
    BY <1>5, <1>6, InputAssumption

\* The handler finds the store loaded if the request found it loaded on arrival,
\* and nothing has left the relay when it is refused.
LEMMA ReadCredentialServer ==
  ASSUME ServerInv, IndInv', NEW r \in Requests, ReadCredential(r)
  PROVE  ServerInv'
  <1> DEFINE q == [req[r] EXCEPT !.injected = cell # NoCredential]
             auth == IF q.client THEN ClientAuth ELSE NoAuth
             plain == [q EXCEPT !.pc = "sending", !.auth = auth]
             loaded == [q EXCEPT !.pc = "sending", !.auth = InjectedAuth(cell)]
  <1>1. /\ RequestOk(r, req[r]) /\ req[r].pc = "locking" /\ req[r] \in RequestRecords
        /\ UNCHANGED <<procVars, cell, inj, delivered, held>>
    BY RequestParts DEF ReadCredential, ServerInv, IndInv, TypeOK
  <1>2. /\ ~Contacted(r) /\ req[r].hop = 0 /\ req[r].reply = NoReply
        /\ OriginAllowed(req[r].origin) /\ (req[r].primed => cell # NoCredential)
    BY <1>1 DEF RequestOk, RecordInv
  <1>3. \A d \in delivered : d.req # r
    BY <1>2 DEF Contacted
  <1>4. /\ q \in RequestRecords /\ q.primed = req[r].primed /\ (q.injected <=> cell # NoCredential)
        /\ q.hop = 0 /\ q.reply = NoReply /\ q.origin = req[r].origin
    BY <1>1, <1>2 DEF RequestRecords
  <1>5. CASE cell = NoCredential /\ RequireProviderCredential
    <2> DEFINE reply == RelayError("503", "no_credential")
    <2>1. req' = [req EXCEPT ![r] = Closed(q, reply)]
      BY <1>5 DEF ReadCredential
    <2>2. reply.status = "503" /\ reply.why = "no_credential" /\ OwnStatus(reply) = "503"
      BY OwnStatuses DEF RelayError, Reply
    <2> HIDE DEF q, reply
    <2> QED
      BY <1>1, <1>2, <1>3, <1>4, <1>5, <2>1, <2>2, CloseStep
  <1>6. CASE cell = NoCredential /\ ~RequireProviderCredential
    <2>1. req' = [req EXCEPT ![r] = plain]
      BY <1>6 DEF ReadCredential
    <2>2. auth.by # "relay" /\ auth.cred = NoCredential
      BY DEF ClientAuth, NoAuth
    <2> HIDE DEF q, auth
    <2>3. /\ plain.pc = "sending" /\ plain.auth = auth /\ plain.primed = q.primed
          /\ plain.injected = q.injected /\ plain.hop = q.hop /\ plain.reply = q.reply
          /\ plain.origin = q.origin
      BY <1>4 DEF RequestRecords
    <2> HIDE DEF plain
    <2>4. RequestOk(r, plain)
      BY <1>2, <1>3, <1>4, <1>6, <2>2, <2>3, NoReplyFields DEF RequestOk, RecordInv
    <2> QED
      BY <1>1, <2>1, <2>4, RequestStep
  <1>7. CASE cell # NoCredential /\ ~AuthorizationValueOk(cell)
    <2> DEFINE reply == RelayError("500", "bad_credential")
    <2>1. req' = [req EXCEPT ![r] = Closed(q, reply)]
      BY <1>7 DEF ReadCredential
    <2>2. reply.status = "500" /\ reply.why = "bad_credential" /\ OwnStatus(reply) = "500"
      BY OwnStatuses DEF RelayError, Reply
    <2> HIDE DEF q, reply
    <2> QED
      BY <1>1, <1>2, <1>3, <1>4, <2>1, <2>2, CloseStep
  <1>8. CASE cell # NoCredential /\ AuthorizationValueOk(cell)
    <2>1. req' = [req EXCEPT ![r] = loaded]
      BY <1>8 DEF ReadCredential
    <2> HIDE DEF q
    <2>2. /\ loaded.pc = "sending" /\ loaded.auth.by = "relay" /\ loaded.primed = q.primed
          /\ loaded.injected = q.injected /\ loaded.hop = q.hop /\ loaded.reply = q.reply
          /\ loaded.origin = q.origin
      BY <1>4 DEF RequestRecords, InjectedAuth
    <2> HIDE DEF loaded
    <2>3. RequestOk(r, loaded)
      BY <1>2, <1>3, <1>4, <1>8, <2>2, NoReplyFields DEF RequestOk, RecordInv
    <2> QED
      BY <1>1, <2>1, <2>3, RequestStep
  <1> QED
    BY <1>5, <1>6, <1>7, <1>8

\* A redirect is followed by a request that a provider has seen already.
LEMMA RedirectServer ==
  ASSUME ServerInv, IndInv', NEW r \in Requests, NEW o \in Elsewhere, NEW keeps \in BOOLEAN,
         Redirect(r, o, keeps)
  PROVE  ServerInv'
  <1> DEFINE auth == IF o.host = req[r].origin.host /\ o.port = req[r].origin.port
                       THEN req[r].auth ELSE NoAuth
             hop == req[r].hop + 1
             body == req[r].body /\ keeps
             q == [req[r] EXCEPT !.pc = "sending", !.origin = o, !.hop = hop,
                                 !.body = body, !.auth = auth]
  <1>1. /\ RequestOk(r, req[r]) /\ req[r].pc = "awaiting" /\ req[r] \in RequestRecords
        /\ UNCHANGED <<procVars, cell, inj, delivered, held>>
    BY RequestParts DEF Redirect, ServerInv, IndInv, TypeOK
  <1>2. req' = [req EXCEPT ![r] = q]
    BY DEF Redirect
  <1>3. hop # 0
    BY <1>1, BoundsAssumption DEF RequestRecords
  <1>4. auth \in {req[r].auth, NoAuth} /\ NoAuth.by = "nobody" /\ NoAuth.cred = NoCredential
    BY DEF NoAuth
  <1> HIDE DEF auth, hop, body
  <1>5. /\ q.pc = "sending" /\ q.hop = hop /\ q.auth = auth /\ q.injected = req[r].injected
        /\ q.primed = req[r].primed /\ q.reply = req[r].reply
    BY <1>1 DEF RequestRecords
  <1> HIDE DEF q
  <1>6. RequestOk(r, q)
    BY <1>1, <1>3, <1>4, <1>5 DEF RequestOk, RecordInv
  <1> QED
    BY <1>1, <1>2, <1>6, RequestStep

\* The response head: an event stream is answered with the provider's status.
LEMMA ReceiveHeadServer ==
  ASSUME ServerInv, IndInv', NEW r \in Requests, NEW status \in Statuses,
         NEW streams \in BOOLEAN, ReceiveHead(r, status, streams)
  PROVE  ServerInv'
  <1> DEFINE pc == IF streams THEN "streaming" ELSE "reading"
             reply == IF streams THEN Reply(status, "stream", "none") ELSE req[r].reply
             q == [req[r] EXCEPT !.pc = pc, !.status = status, !.reply = reply]
  <1>1. /\ RequestOk(r, req[r]) /\ req[r].pc = "awaiting" /\ req[r] \in RequestRecords
        /\ UNCHANGED <<procVars, cell, inj, delivered, held>>
    BY RequestParts DEF ReceiveHead, ServerInv, IndInv, TypeOK
  <1>2. req[r].reply = NoReply /\ Contacted(r)
    BY <1>1 DEF RequestOk, RecordInv
  <1>3. req' = [req EXCEPT ![r] = q]
    BY DEF ReceiveHead
  <1>4. \/ pc = "reading" /\ reply = NoReply
        \/ /\ pc = "streaming" /\ reply.status \in Statuses
           /\ reply.body = "stream" /\ reply.why = "none" /\ OwnStatus(reply) = "none"
    BY <1>2, OwnStatuses DEF Reply
  <1> HIDE DEF pc, reply
  <1>5. /\ q.pc = pc /\ q.hop = req[r].hop /\ q.auth = req[r].auth /\ q.injected = req[r].injected
        /\ q.primed = req[r].primed /\ q.reply = reply
    BY <1>1 DEF RequestRecords
  <1> HIDE DEF q
  <1>6. RequestOk(r, q)
    BY <1>1, <1>2, <1>4, <1>5, NoReplyFields DEF RequestOk, RecordInv
  <1> QED
    BY <1>1, <1>3, <1>6, RequestStep

\* A client that pauses, or goes on.
LEMMA PauseServer ==
  ASSUME ServerInv, IndInv', NEW r \in Requests, ClientPauses(r)
  PROVE  ServerInv'
  <1> DEFINE stalled == ~req[r].stalled
             q == [req[r] EXCEPT !.stalled = stalled]
  <1>1. /\ RequestOk(r, req[r]) /\ req[r] \in RequestRecords
        /\ req' = [req EXCEPT ![r] = q]
        /\ UNCHANGED <<procVars, cell, inj, delivered, held>>
    BY RequestParts DEF ClientPauses, ServerInv, IndInv, TypeOK
  <1> HIDE DEF stalled
  <1>2. /\ q.pc = req[r].pc /\ q.hop = req[r].hop /\ q.auth = req[r].auth
        /\ q.injected = req[r].injected /\ q.primed = req[r].primed
        /\ q.reply = req[r].reply /\ q.origin = req[r].origin
    BY <1>1 DEF RequestRecords
  <1> HIDE DEF q
  <1>3. RequestOk(r, q)
    BY <1>1, <1>2 DEF RequestOk, RecordInv
  <1> QED
    BY <1>1, <1>3, RequestStep

\* A delivery of r concerns no other request; the first hop of a request that
\* found the store loaded carries the credential.
LEMMA DeliverServer ==
  ASSUME ServerInv, IndInv', NEW r \in Requests, Deliver(r)
  PROVE  ServerInv'
  <1> DEFINE q == [req[r] EXCEPT !.pc = "awaiting"]
             d == [req |-> r, run |-> run, require |-> RequireProviderCredential,
                   origin |-> req[r].origin, hop |-> req[r].hop, body |-> req[r].body,
                   auth |-> req[r].auth]
  <1>1. /\ RequestOk(r, req[r]) /\ req[r].pc = "sending" /\ req[r] \in RequestRecords
        /\ req' = [req EXCEPT ![r] = q] /\ delivered' = delivered \cup {d}
        /\ UNCHANGED <<procVars, cell, inj, held>>
    BY RequestParts DEF Deliver, ServerInv, IndInv, TypeOK
  <1>2. d.req = r /\ d.hop = req[r].hop /\ d.auth = req[r].auth
    OBVIOUS
  <1>3. /\ q.pc = "awaiting" /\ q.hop = req[r].hop /\ q.auth = req[r].auth
        /\ q.injected = req[r].injected /\ q.primed = req[r].primed
        /\ q.reply = req[r].reply /\ q.origin = req[r].origin
    BY <1>1 DEF RequestRecords
  <1> HIDE DEF q, d
  <1>4. CallInv' /\ ConfigInv' /\ AnswersTellTheStore'
    BY <1>1 DEF ServerInv, CallInv, ConfigInv, AnswersTellTheStore, procVars
  <1>5. ASSUME NEW s \in Requests PROVE RequestOk(s, req[s])'
    <2>1. CASE s = r
      <3>1. req'[s] = q /\ Contacted(s)'
        BY <1>1, <1>2, <2>1 DEF ServerInv, IndInv, TypeOK, Contacted
      <3>2. RequestOk(r, req[r]) /\ req[r].reply = NoReply
        BY <1>1 DEF RequestOk, RecordInv
      <3>3. req[r].primed /\ req[r].hop = 0 => req[r].auth.by = "relay"
        BY <1>1 DEF RequestOk, RecordInv
      <3>4. RecordInv(s, req[s])'
        BY <1>1, <1>3, <2>1, <3>1, <3>2
        DEF RequestOk, RecordInv, OriginAllowed, RequireProviderCredential, procVars
      <3> QED
        BY <1>1, <1>2, <1>3, <2>1, <3>1, <3>2, <3>3, <3>4, NoReplyFields DEF RequestOk
    <2>2. CASE s # r
      <3>1. req'[s] = req[s] /\ (Contacted(s)' <=> Contacted(s))
        BY <1>1, <1>2, <2>2 DEF ServerInv, IndInv, TypeOK, Contacted
      <3>2. RequestOk(s, req[s])
        BY RequestParts
      <3>3. RecordInv(s, req[s])'
        BY <1>1, <3>1, <3>2
        DEF RequestOk, RecordInv, OriginAllowed, RequireProviderCredential, procVars
      <3> QED
        BY <1>1, <1>2, <2>2, <3>1, <3>2, <3>3 DEF RequestOk
    <2> QED
      BY <2>1, <2>2
  <1> QED
    BY <1>4, <1>5, ServerParts

-----------------------------------------------------------------------------
(* The steps that leave requests alone: RequestOk only has to survive a      *)
(* change of the store or of the command line.                              *)

\* While no request is in flight, neither matters.
LEMMA RestingRequests ==
  ASSUME ServerInv, \A r \in Requests : ~InFlight(r), UNCHANGED <<req, delivered>>
  PROVE  \A r \in Requests : RequestOk(r, req[r])'
  <1> SUFFICES ASSUME NEW r \in Requests PROVE RequestOk(r, req[r])'
    OBVIOUS
  <1>1. RequestOk(r, req[r]) /\ req[r].pc \in {"idle", "done"}
    BY RequestParts DEF InFlight
  <1> QED
    BY <1>1 DEF RequestOk, RecordInv, Contacted

\* A store that is filled, or left alone, agrees with every record.
LEMMA FilledStore ==
  ASSUME ServerInv, UNCHANGED <<req, delivered, opts>>,
         cell' = cell \/ cell' # NoCredential
  PROVE  \A r \in Requests : RequestOk(r, req[r])'
  <1> SUFFICES ASSUME NEW r \in Requests PROVE RequestOk(r, req[r])'
    OBVIOUS
  <1>1. RequestOk(r, req[r])
    BY RequestParts
  <1> QED
    BY <1>1 DEF RequestOk, RecordInv, Contacted, OriginAllowed, RequireProviderCredential

\* The steps of main().
LEMMA MainServer ==
  ASSUME ServerInv, IndInv',
         (\E l \in Launches : Launch(l)) \/ Configure \/ OpenAdmin \/ BindData
  PROVE  ServerInv'
  <1> USE DEF ServerInv
  <1>1. ASSUME NEW l \in Launches, Launch(l) PROVE ServerInv'
    <2>1. /\ \A r \in Requests : ~InFlight(r)
          /\ \A i \in Injections : inj[i].pc \notin {"locking", "stored"}
      BY <1>1 DEF Launch, IndInv, HandlerInv
    <2>2. CallInv' /\ ConfigInv' /\ AnswersTellTheStore'
      BY <1>1, <2>1 DEF Launch, CallInv, ConfigInv, AnswersTellTheStore
    <2> QED
      BY <1>1, <2>1, <2>2, RestingRequests, ServerParts DEF Launch
  <1>2. CASE Configure
    <2>1. /\ \A r \in Requests : ~InFlight(r)
          /\ \A i \in Injections : inj[i].pc \notin {"locking", "stored"}
      BY <1>2 DEF Configure, IndInv, HandlerInv
    <2>2. held \subseteq held'
      BY <1>2 DEF Configure
    <2>3. CallInv' /\ ConfigInv' /\ AnswersTellTheStore'
      BY <1>2, <2>1, <2>2 DEF Configure, CallInv, ConfigInv, AnswersTellTheStore
    <2> QED
      BY <1>2, <2>1, <2>3, RestingRequests, ServerParts DEF Configure
  <1>3. CASE OpenAdmin \/ BindData
    <2>1. /\ UNCHANGED <<run, opts, cell, inj, req, delivered, held>>
          /\ phase \notin {"down", "starting"}
      BY <1>3 DEF OpenAdmin, BindData
    <2>2. CallInv' /\ ConfigInv' /\ AnswersTellTheStore'
      BY <2>1 DEF CallInv, ConfigInv, AnswersTellTheStore
    <2> QED
      BY <2>1, <2>2, FilledStore, ServerParts
  <1> QED
    BY <1>1, <1>2, <1>3

\* The end of the process closes what is in flight and cuts every call.
LEMMA DieServer ==
  ASSUME ServerInv, IndInv', Die
  PROVE  ServerInv'
  <1>1. /\ \A i \in Injections : inj'[i].pc \notin {"locking", "stored"}
        /\ \A i \in Injections : /\ inj'[i].run = inj[i].run /\ inj'[i].cred = inj[i].cred
                                 /\ inj'[i].reply = inj[i].reply \/ inj'[i].reply = "lost"
    BY DEF Die, ServerInv, IndInv, TypeOK, InjectionRecords
  <1>2. CallInv' /\ ConfigInv'
    BY <1>1 DEF Die, CallInv, ConfigInv
  <1>3. AnswersTellTheStore'
    <2>1. held' = held
      BY DEF Die
    <2> QED
      BY <1>1, <2>1 DEF ServerInv, AnswersTellTheStore
  <1>4. ASSUME NEW r \in Requests PROVE RequestOk(r, req[r])'
    <2>1. RequestOk(r, req[r])
      BY RequestParts
    <2>2. CASE InFlight(r)
      <3> DEFINE c == Closed(req[r], Lost)
      <3>1. req'[r] = c
        BY <2>2 DEF Die
      <3>2. /\ c.pc = "done" /\ c.hop = 0 /\ c.reply.status = "lost" /\ c.reply.why = "none"
            /\ c.primed = req[r].primed /\ OwnStatus(c.reply) = "none"
        BY OwnStatuses DEF Closed, NewRequest, Lost, Reply
      <3> HIDE DEF c
      <3> QED
        BY <2>1, <3>1, <3>2 DEF Die, RequestOk, RecordInv, Contacted
    <2>3. CASE ~InFlight(r)
      <3>1. req'[r] = req[r]
        BY <2>3 DEF Die
      <3> QED
        BY <2>1, <2>3, <3>1 DEF Die, RequestOk, RecordInv, Contacted, InFlight
    <2> QED
      BY <2>2, <2>3
  <1> QED
    BY <1>2, <1>3, <1>4, ServerParts

\* A call that is answered 204 is the first of its run, because set_once found
\* the store empty and a store of this run that was filled is filled still.
LEMMA CallServer ==
  ASSUME ServerInv, IndInv', NEW i \in Injections,
         (\E c \in Offered : Inject(i, c)) \/ InjectionStep(i) \/ LoseInjection(i)
  PROVE  ServerInv'
  <1> USE DEF ServerInv
  <1>1. ASSUME NEW c \in Offered, Inject(i, c) PROVE ServerInv'
    <2> DEFINE entry == IF ValidateCredential(c)
                   THEN [pc |-> "locking", cred |-> c, run |-> run, reply |-> "none"]
                   ELSE [pc |-> "done", cred |-> c, run |-> run, reply |-> "400"]
    <2>1. /\ entry.pc = "locking" => entry.run = run /\ AuthorizationValueOk(entry.cred)
          /\ entry.pc # "stored" /\ entry.reply \notin {"204", "409"}
      BY DEF ValidateCredential
    <2>2. inj' = [inj EXCEPT ![i] = entry] /\ UNCHANGED <<procVars, cell, req, delivered, held>>
      BY <1>1 DEF Inject
    <2> HIDE DEF entry
    <2>3. \A j \in Injections : inj'[j] = IF j = i THEN entry ELSE inj[j]
      BY <2>2 DEF IndInv, TypeOK
    <2>4. CallInv' /\ ConfigInv' /\ AnswersTellTheStore'
      BY <2>1, <2>2, <2>3 DEF CallInv, ConfigInv, AnswersTellTheStore, procVars
    <2> QED
      BY <2>2, <2>4, FilledStore, ServerParts DEF procVars
  <1>2. CASE SetOnce(i)
    <2>1. /\ inj[i].run = run /\ AuthorizationValueOk(inj[i].cred) /\ inj[i].cred \in Offered
          /\ phase \in {"bind", "serving"}
      BY <1>2 DEF SetOnce, CallInv, IndInv, HandlerInv
    <2>2. /\ \A j \in Injections : /\ inj'[j].run = inj[j].run /\ inj'[j].cred = inj[j].cred
                                   /\ j # i => inj'[j] = inj[j]
          /\ inj'[i].pc = "stored"
      BY <1>2 DEF SetOnce, IndInv, TypeOK, InjectionRecords
    <2>3. CASE cell = NoCredential
      <3>1. /\ cell' = inj[i].cred /\ held' = held \cup {<<run, inj[i].cred>>}
            /\ UNCHANGED <<procVars, req, delivered>> /\ inj'[i].reply = "204"
        BY <1>2, <2>3 DEF SetOnce, IndInv, TypeOK, InjectionRecords
      <3>2. \A h \in held : h[1] # run
        BY <2>1, <2>3, CredentialAssumption DEF IndInv, StoreInv, TypeOK, Credentials
      <3>3. \A j \in Injections : inj[j].reply = "204" => inj[j].run # run
        BY <3>2 DEF AnswersTellTheStore
      <3>4. AnswersTellTheStore'
        BY <2>1, <2>2, <3>1, <3>3 DEF AnswersTellTheStore
      <3>5. CallInv' /\ ConfigInv'
        BY <2>1, <2>2, <3>1 DEF CallInv, ConfigInv, procVars
      <3>6. cell' # NoCredential
        BY <2>1, <3>1, CredentialAssumption
      <3> QED
        BY <3>1, <3>4, <3>5, <3>6, FilledStore, ServerParts DEF procVars
    <2>4. CASE cell # NoCredential
      <3>1. UNCHANGED <<procVars, cell, held, req, delivered>> /\ inj'[i].reply = "409"
        BY <1>2, <2>4 DEF SetOnce, IndInv, TypeOK, InjectionRecords
      <3>2. <<run, cell>> \in held
        BY <2>4 DEF IndInv, StoreInv
      <3>3. AnswersTellTheStore'
        BY <2>1, <2>2, <3>1, <3>2 DEF AnswersTellTheStore
      <3>4. CallInv' /\ ConfigInv'
        BY <2>1, <2>2, <3>1 DEF CallInv, ConfigInv, procVars
      <3> QED
        BY <3>1, <3>3, <3>4, FilledStore, ServerParts DEF procVars
    <2> QED
      BY <2>3, <2>4
  <1>3. CASE AnswerInjection(i) \/ LoseInjection(i)
    <2>1. /\ \A j \in Injections : /\ inj'[j].run = inj[j].run /\ inj'[j].cred = inj[j].cred
                                   /\ inj'[j].pc = inj[j].pc \/ inj'[j].pc = "done"
                                   /\ inj'[j].reply = inj[j].reply \/ inj'[j].reply = "lost"
          /\ UNCHANGED <<procVars, cell, req, delivered, held>>
      BY <1>3 DEF AnswerInjection, LoseInjection, IndInv, TypeOK, InjectionRecords
    <2>2. AnswersTellTheStore'
      BY <2>1 DEF AnswersTellTheStore
    <2>3. CallInv' /\ ConfigInv'
      BY <2>1 DEF CallInv, ConfigInv, procVars
    <2> QED
      BY <2>1, <2>2, <2>3, FilledStore, ServerParts DEF procVars
  <1> QED
    BY <1>1, <1>2, <1>3 DEF InjectionStep

-----------------------------------------------------------------------------
(* The safety properties.                                                   *)

LEMMA InitServerInv == Init => ServerInv
  <1> SUFFICES ASSUME Init PROVE ServerInv
    OBVIOUS
  <1>1. IndInv
    BY InitIndInv
  <1>2. /\ \A r \in Requests : req[r] = NewRequest
        /\ \A i \in Injections : inj[i] = NewInjection
    BY DEF Init
  <1>3. /\ NewRequest.pc = "idle" /\ NewRequest.reply = NoReply /\ NewRequest.hop = 0
        /\ ~NewRequest.primed /\ ~NewRequest.injected
        /\ NewInjection.pc = "idle" /\ NewInjection.reply = "none"
    BY DEF NewRequest, NewInjection
  <1>4. CallInv /\ ConfigInv /\ AnswersTellTheStore
    BY <1>2, <1>3 DEF Init, CallInv, ConfigInv, AnswersTellTheStore
  <1>5. \A r \in Requests : RecordInv(r, req[r])
    BY <1>2, <1>3 DEF Init, RecordInv, Contacted
  <1>6. InstalledMeansUsed /\ RefusedBeforeContact
    BY <1>2, <1>3, NoReplyFields DEF Init, InstalledMeansUsed, RefusedBeforeContact
  <1>7. BufferedAuthFailuresSanitized /\ AllowlistSettledAtStartup
    BY <1>2, <1>3, NoReplyFields DEF BufferedAuthFailuresSanitized, AllowlistSettledAtStartup
  <1> QED
    BY <1>1, <1>4, <1>5, <1>6, <1>7 DEF ServerInv

LEMMA NextServerInv == ServerInv /\ [Next]_vars => ServerInv'
  <1> SUFFICES ASSUME ServerInv, [Next]_vars PROVE ServerInv'
    OBVIOUS
  <1>1. IndInv'
    BY NextIndInv DEF ServerInv
  <1>2. CASE (\E l \in Launches : Launch(l)) \/ Configure \/ OpenAdmin \/ BindData \/ Die
    BY <1>1, <1>2, MainServer, DieServer
  <1>3. CASE \E i \in Injections :
               \/ \E c \in Offered : Inject(i, c)
               \/ InjectionStep(i) \/ LoseInjection(i)
    BY <1>1, <1>3, CallServer
  <1>4. ASSUME NEW r \in Requests,
               \/ \E in \in Inputs : Arrive(r, in)
               \/ HandlerStep(r) \/ ProviderStep(r) \/ ClientGone(r) \/ ClientPauses(r)
        PROVE  ServerInv'
    <2>1. CASE \E in \in Inputs : Arrive(r, in)
      BY <1>1, <2>1, ArriveServer
    <2>2. CASE HandlerStep(r) \/ ClientGone(r)
      BY <1>1, <2>2, ReadCredentialServer, DeliverServer, FinishServer DEF HandlerStep
    <2>3. CASE ProviderStep(r)
      BY <1>1, <2>3, RedirectServer, ReceiveHeadServer DEF ProviderStep
    <2>4. CASE ClientPauses(r)
      BY <1>1, <2>4, PauseServer
    <2> QED
      BY <1>4, <2>1, <2>2, <2>3, <2>4
  <1>5. CASE UNCHANGED vars
    <2>1. CallInv' /\ ConfigInv' /\ AnswersTellTheStore'
      BY <1>5 DEF vars, ServerInv, CallInv, ConfigInv, AnswersTellTheStore
    <2> QED
      BY <1>1, <1>5, <2>1, FilledStore, ServerParts DEF vars
  <1> QED
    BY <1>2, <1>3, <1>4, <1>5 DEF Next

\* What every record of a request and of an admin call tells at each await
\* (proxy_chat_completions, inject_provider_credential) is true.
THEOREM ServerInvariance == Spec => []ServerInv
  BY InitServerInv, NextServerInv, PTL DEF Spec

\* inject_provider_credential: one call of a run is answered 204, what it carried
\* is the credential of the run, and 409 means that there is one.
THEOREM AnswersAreTrue == Spec => []AnswersTellTheStore
  <1>1. ServerInv => AnswersTellTheStore
    BY DEF ServerInv
  <1> QED
    BY ServerInvariance, <1>1, PTL

\* proxy_chat_completions: an installed credential is used by every request that
\* arrives after it, in both modes.
THEOREM InstalledIsUsed == Spec => []InstalledMeansUsed
  <1>1. ServerInv => InstalledMeansUsed
    BY DEF ServerInv
  <1> QED
    BY ServerInvariance, <1>1, PTL

\* proxy_chat_completions: what the relay itself refuses, with 413 or 503, has not
\* left it, whatever statuses the providers answer others with.
THEOREM RefusedStaysInside == Spec => []RefusedBeforeContact
  <1>1. ServerInv => RefusedBeforeContact
    BY DEF ServerInv
  <1> QED
    BY ServerInvariance, <1>1, PTL

\* A buffered 401 or 403 under the injected credential has the relay's own body,
\* also when the header was dropped on a redirect.
THEOREM AuthFailuresAreSanitized == Spec => []BufferedAuthFailuresSanitized
  <1>1. ServerInv => BufferedAuthFailuresSanitized
    BY DEF ServerInv
  <1> QED
    BY ServerInvariance, <1>1, PTL

\* main() and validate(): for every command line, the run-time check of the
\* allowlist never fires, and requests are first sent to an allowed origin.
THEOREM AllowlistIsSettled == Spec => []AllowlistSettledAtStartup
  <1>1. ServerInv => AllowlistSettledAtStartup
    BY DEF ServerInv
  <1> QED
    BY ServerInvariance, <1>1, PTL

\* An action of another request, or none, leaves a request in flight without an
\* error; only a request that reads an unusable credential gets that error, and
\* set_once stored no such credential.
LEMMA BadCredentialStep ==
  ASSUME ServerInv, [Next]_vars, NEW r \in Requests,
         InFlight(r), req'[r].reply.why = "bad_credential"
  PROVE  opts.provider_token # NoCredential
  <1>1. RequestOk(r, req[r]) /\ req[r].pc \notin {"idle", "done"} /\ req[r] \in RequestRecords
    BY RequestParts DEF InFlight, ServerInv, IndInv, TypeOK
  <1>2. req[r].reply.why # "bad_credential"
    BY <1>1, NoReplyFields DEF RequestOk, RecordInv, RequestRecords, PCs
  <1>3. req'[r] # req[r]
    BY <1>2
  <1>4. \A q, reply : Closed(q, reply).reply = reply
    BY DEF Closed, NewRequest
  <1>5. Lost.why = "none" /\ \A status, body, why : Reply(status, body, why).why = why
    BY DEF Lost, Reply
  <1>6. req \in [Requests -> RequestRecords]
    BY DEF ServerInv, IndInv, TypeOK
  <1>7. CASE Die
    BY <1>3, <1>4, <1>5, <1>7, ZenonT(60) DEF Die
  <1>8. CASE UNCHANGED req
    BY <1>3, <1>8
  <1>9. ASSUME NEW s \in Requests,
               \/ \E in \in Inputs : Arrive(s, in)
               \/ HandlerStep(s) \/ ProviderStep(s) \/ ClientGone(s) \/ ClientPauses(s)
        PROVE  opts.provider_token # NoCredential
    <2>1. s = r
      BY <1>3, <1>6, <1>9
      DEF Arrive, HandlerStep, ProviderStep, ClientGone, ClientPauses, ReadCredential, Deliver, SendFails,
          ReadBody, BodyFails, EndStream, Redirect, ReceiveHead
    <2>2. ~\E in \in Inputs : Arrive(r, in)
      BY <1>1 DEF Arrive
    <2>3. ~ClientGone(r) /\ ~SendFails(r) /\ ~BodyFails(r)
      BY <1>4, <1>5, <1>6 DEF ClientGone, SendFails, BodyFails, RelayError
    <2>4. ~ReadBody(r) /\ ~\E why \in {"none", "cut"} : EndStream(r, why)
      BY <1>4, <1>5, <1>6 DEF ReadBody, EndStream
    <2>5. ~Deliver(r) /\ ~ClientPauses(r)
      BY <1>1, <1>2, <1>6 DEF Deliver, ClientPauses, RequestRecords
    <2>6. ~\E o \in Elsewhere, keeps \in BOOLEAN : Redirect(r, o, keeps)
      <3> SUFFICES ASSUME NEW o \in Elsewhere, NEW keeps \in BOOLEAN, Redirect(r, o, keeps)
                   PROVE  FALSE
        OBVIOUS
      <3> DEFINE auth == IF o.host = req[r].origin.host /\ o.port = req[r].origin.port
                           THEN req[r].auth ELSE NoAuth
                 hop == req[r].hop + 1
                 body == req[r].body /\ keeps
                 q == [req[r] EXCEPT !.pc = "sending", !.origin = o, !.hop = hop,
                                     !.body = body, !.auth = auth]
      <3>1. req'[r] = q
        BY <1>6 DEF Redirect
      <3> HIDE DEF auth, hop, body
      <3>2. q.reply = req[r].reply
        BY <1>1 DEF RequestRecords
      <3> QED
        BY <1>2, <3>1, <3>2
    <2>7. ~\E status \in Statuses, streams \in BOOLEAN : ReceiveHead(r, status, streams)
      <3> SUFFICES ASSUME NEW status \in Statuses, NEW streams \in BOOLEAN,
                          ReceiveHead(r, status, streams)
                   PROVE  FALSE
        OBVIOUS
      <3> DEFINE pc == IF streams THEN "streaming" ELSE "reading"
                 reply == IF streams THEN Reply(status, "stream", "none") ELSE req[r].reply
                 q == [req[r] EXCEPT !.pc = pc, !.status = status, !.reply = reply]
      <3>1. req'[r] = q
        BY <1>6 DEF ReceiveHead
      <3>2. reply.why # "bad_credential"
        BY <1>2, <1>5
      <3> HIDE DEF pc, reply
      <3>3. q.reply = reply
        BY <1>1 DEF RequestRecords
      <3> QED
        BY <3>1, <3>2, <3>3
    <2>8. ReadCredential(r)
      BY <1>9, <2>1, <2>2, <2>3, <2>4, <2>5, <2>6, <2>7 DEF HandlerStep, ProviderStep
    <2>9. cell # NoCredential /\ ~AuthorizationValueOk(cell)
      <3> DEFINE q == [req[r] EXCEPT !.injected = cell # NoCredential]
      <3>1. q.reply.why # "bad_credential"
        BY <1>1, <1>2 DEF RequestRecords
      <3>2. q \in RequestRecords
        BY <1>1 DEF RequestRecords
      <3>3. req'[r] = CASE cell = NoCredential /\ RequireProviderCredential ->
              Closed(q, RelayError("503", "no_credential"))
         [] cell = NoCredential /\ ~RequireProviderCredential ->
              [q EXCEPT !.pc = "sending",
                        !.auth = IF q.client THEN ClientAuth ELSE NoAuth]
         [] cell # NoCredential /\ ~AuthorizationValueOk(cell) ->
              Closed(q, RelayError("500", "bad_credential"))
         [] OTHER -> [q EXCEPT !.pc = "sending", !.auth = InjectedAuth(cell)]
        BY <1>6, <2>8 DEF ReadCredential
      <3> HIDE DEF q
      <3>4. /\ [q EXCEPT !.pc = "sending", !.auth = IF q.client THEN ClientAuth ELSE NoAuth].reply = q.reply
            /\ [q EXCEPT !.pc = "sending", !.auth = InjectedAuth(cell)].reply = q.reply
        BY <3>2 DEF RequestRecords
      <3>5. RelayError("503", "no_credential").why = "no_credential"
        BY DEF RelayError, Reply
      <3> QED
        BY <1>4, <3>1, <3>3, <3>4, <3>5
    <2> QED
      BY <2>9 DEF ServerInv, CallInv
  <1>10. \/ Die \/ UNCHANGED req
         \/ \E s \in Requests :
              \/ \E in \in Inputs : Arrive(s, in)
              \/ HandlerStep(s) \/ ProviderStep(s) \/ ClientGone(s) \/ ClientPauses(s)
    BY DEF Next, vars, Launch, Configure, OpenAdmin, BindData, Inject, InjectionStep, SetOnce,
           AnswerInjection, LoseInjection
  <1> QED
    BY <1>7, <1>8, <1>9, <1>10

\* secrets.rs: validate() keeps every credential that cannot become a header out
\* of the store; only --provider-token, stored unvalidated, breaks requests.
THEOREM OnlyCliTokens == Spec => OnlyCliTokensBreakRequests
  <1>1. ServerInv /\ [Next]_vars =>
          [\A r \in Requests :
             InFlight(r) /\ req'[r].reply.why = "bad_credential" =>
               opts.provider_token # NoCredential]_vars
    BY BadCredentialStep
  <1> QED
    BY ServerInvariance, <1>1, PTL DEF Spec, OnlyCliTokensBreakRequests

-----------------------------------------------------------------------------
(* Refinement: every step of the relay is a step of CredentialGate or none.  *)

\* The mapped variables of the gate, and the verdict that a record stands for.
GateVerdicts == [r \in Requests |-> GateVerdict(r)]
GateSeen == {[req |-> d.req, cred |-> d.auth.cred] : d \in delivered}
RecordVerdict(q) ==
  CASE q.pc \in {"idle", "locking"} -> [kind |-> "open", cred |-> NoCredential]
    [] q.pc \in {"sending", "awaiting", "reading", "streaming"} ->
         [kind |-> "committed", cred |-> IF q.injected THEN cell ELSE NoCredential]
    [] OTHER -> [kind |-> IF OwnStatus(q.reply) = "503" THEN "refused" ELSE "closed",
                 cred |-> NoCredential]

LEMMA Verdicts == ASSUME NEW r \in Requests PROVE GateVerdicts[r] = RecordVerdict(req[r])
  BY DEF GateVerdicts, GateVerdict, RecordVerdict

LEMMA VerdictsNext ==
  ASSUME UNCHANGED cell, NEW r \in Requests
  PROVE  GateVerdicts'[r] = RecordVerdict(req'[r])
  BY DEF GateVerdicts, GateVerdict, RecordVerdict

\* The three values of a record's verdict.
LEMMA VerdictValues ==
  ASSUME NEW q
  PROVE  /\ q.pc \in {"idle", "locking"} => RecordVerdict(q) = Gate!Open
         /\ q.pc \in {"sending", "awaiting", "reading", "streaming"} =>
              RecordVerdict(q) = Gate!Verdict("committed", IF q.injected THEN cell ELSE NoCredential)
         /\ q.pc = "done" =>
              RecordVerdict(q) = IF OwnStatus(q.reply) = "503" THEN Gate!Refused ELSE Gate!Done
  BY DEF RecordVerdict, Gate!Open, Gate!Verdict, Gate!Refused, Gate!Done

\* One record changes: so does its verdict, and no other.
LEMMA VerdictStep ==
  ASSUME req \in [Requests -> RequestRecords], NEW r \in Requests, NEW q,
         req' = [req EXCEPT ![r] = q], UNCHANGED cell
  PROVE  GateVerdicts' = [GateVerdicts EXCEPT ![r] = RecordVerdict(q)]
  <1>1. \A s \in Requests : GateVerdicts'[s] = IF s = r THEN RecordVerdict(q) ELSE GateVerdicts[s]
    BY Verdicts, VerdictsNext
  <1>2. GateVerdicts = [s \in Requests |-> GateVerdicts[s]] /\ GateVerdicts' = [s \in Requests |-> GateVerdicts'[s]]
    BY DEF GateVerdicts
  <1> QED
    BY <1>1, <1>2

\* The gate's next-state relation over the mapped variables.
LEMMA GateByVerdicts ==
  ASSUME \/ UNCHANGED <<RequireProviderCredential, cell, GateVerdicts, GateSeen>>
         \/ \E r \in Requests :
              /\ GateVerdicts[r].kind \in {"open", "committed"}
              /\ GateVerdicts' = [GateVerdicts EXCEPT ![r] = Gate!Done]
              /\ UNCHANGED <<RequireProviderCredential, cell, GateSeen>>
  PROVE  [Gate!Next]_(Gate!gateVars)
  BY DEF GateVerdicts, GateSeen, Gate!gateVars, Gate!Next, Gate!Close

\* What a step of a request leaves alone.
LEMMA GateKept ==
  ASSUME UNCHANGED <<procVars, cell, inj, delivered, held>>
  PROVE  UNCHANGED <<RequireProviderCredential, cell, GateSeen>>
  BY DEF procVars, RequireProviderCredential, GateSeen

\* Closing a request with anything but the relay's own 503 is the gate's Close.
LEMMA CloseRefines ==
  ASSUME ServerInv, NEW r \in Requests, NEW q, NEW reply,
         req[r].pc # "done", OwnStatus(reply) # "503",
         req' = [req EXCEPT ![r] = Closed(q, reply)],
         UNCHANGED <<procVars, cell, inj, delivered, held>>
  PROVE  [Gate!Next]_(Gate!gateVars)
  <1>1. req \in [Requests -> RequestRecords]
    BY DEF ServerInv, IndInv, TypeOK
  <1>2. Closed(q, reply).pc = "done" /\ Closed(q, reply).reply = reply
    BY DEF Closed, NewRequest
  <1>3. RecordVerdict(Closed(q, reply)) = Gate!Done
    BY <1>2, VerdictValues
  <1>4. GateVerdicts[r].kind \in {"open", "committed"}
    <2>1. req[r].pc \in {"idle", "locking"}
          \/ req[r].pc \in {"sending", "awaiting", "reading", "streaming"}
      BY <1>1 DEF RequestRecords, PCs
    <2>2. \/ RecordVerdict(req[r]) = Gate!Open
          \/ \E c : RecordVerdict(req[r]) = Gate!Verdict("committed", c)
      BY <2>1, VerdictValues
    <2>3. Gate!Open.kind = "open" /\ \A c : Gate!Verdict("committed", c).kind = "committed"
      BY DEF Gate!Open, Gate!Verdict
    <2>4. GateVerdicts[r] = RecordVerdict(req[r])
      BY Verdicts
    <2> QED
      BY <2>2, <2>3, <2>4
  <1>5. GateVerdicts' = [GateVerdicts EXCEPT ![r] = Gate!Done]
    BY <1>1, <1>3, VerdictStep
  <1> QED
    BY <1>4, <1>5, GateKept, GateByVerdicts

\* A record that waits for something else keeps its verdict.
LEMMA WaitRefines ==
  ASSUME ServerInv, NEW r \in Requests, NEW q,
         \/ req[r].pc = "idle" /\ q.pc = "locking"
         \/ /\ {req[r].pc, q.pc} \subseteq {"sending", "awaiting", "reading", "streaming"}
            /\ q.injected = req[r].injected,
         req' = [req EXCEPT ![r] = q],
         UNCHANGED <<procVars, cell, inj, delivered, held>>
  PROVE  [Gate!Next]_(Gate!gateVars)
  <1>1. req \in [Requests -> RequestRecords]
    BY DEF ServerInv, IndInv, TypeOK
  <1>2. RecordVerdict(q) = RecordVerdict(req[r])
    BY VerdictValues
  <1>3. GateVerdicts' = [GateVerdicts EXCEPT ![r] = GateVerdicts[r]]
    BY <1>1, <1>2, Verdicts, VerdictStep
  <1>4. GateVerdicts' = GateVerdicts
    BY <1>3 DEF GateVerdicts
  <1> QED
    BY <1>4, GateKept, GateByVerdicts

LEMMA FinishRefines ==
  ASSUME ServerInv, NEW r \in Requests,
         \/ SendFails(r) \/ ReadBody(r) \/ BodyFails(r) \/ ClientGone(r)
         \/ \E why \in {"none", "cut"} : EndStream(r, why)
  PROVE  [Gate!Next]_(Gate!gateVars)
  <1>1. ReadBody(r) => \E reply : /\ OwnStatus(reply) # "503"
                                  /\ req' = [req EXCEPT ![r] = Closed(req[r], reply)]
    <2> DEFINE body == IF req[r].injected /\ req[r].status = "auth_failed"
                         THEN "relay" ELSE "provider"
               reply == Reply(req[r].status, body, "none")
    <2>1. OwnStatus(reply) # "503"
      BY OwnStatuses
    <2>2. ReadBody(r) => req' = [req EXCEPT ![r] = Closed(req[r], reply)]
      BY DEF ReadBody
    <2> HIDE DEF reply
    <2> QED
      BY <2>1, <2>2
  <1>2. ~ReadBody(r) => \E reply : /\ OwnStatus(reply) # "503"
                                   /\ req' = [req EXCEPT ![r] = Closed(req[r], reply)]
    BY OwnStatuses DEF SendFails, BodyFails, ClientGone, EndStream
  <1>3. \E reply : /\ OwnStatus(reply) # "503"
                   /\ req' = [req EXCEPT ![r] = Closed(req[r], reply)]
    BY <1>1, <1>2
  <1>4. req[r].pc # "done" /\ UNCHANGED <<procVars, cell, inj, delivered, held>>
    BY DEF SendFails, ReadBody, BodyFails, ClientGone, EndStream, InFlight
  <1> QED
    BY <1>3, <1>4, CloseRefines

LEMMA ArriveRefines ==
  ASSUME ServerInv, NEW r \in Requests, NEW in \in Inputs, Arrive(r, in)
  PROVE  [Gate!Next]_(Gate!gateVars)
  <1> DEFINE entry == [NewRequest EXCEPT !.primed = cell # NoCredential]
             origin == FirstOrigin(opts.config, in.model)
             q == [entry EXCEPT !.pc = "locking", !.client = in.auth, !.origin = origin]
             large == RelayError("413", "large")
             blocked == RelayError("500", "not_allowed")
  <1>1. req[r].pc = "idle" /\ UNCHANGED <<procVars, cell, inj, delivered, held>>
    BY DEF Arrive
  <1>2. \/ req' = [req EXCEPT ![r] = Closed(entry, large)]
        \/ req' = [req EXCEPT ![r] = Closed(entry, blocked)]
        \/ req' = [req EXCEPT ![r] = q]
    BY InputAssumption DEF Arrive
  <1>3. q.pc = "locking" /\ OwnStatus(large) # "503" /\ OwnStatus(blocked) # "503"
    BY OwnStatuses DEF NewRequest
  <1> HIDE DEF entry, q, large, blocked
  <1> QED
    BY <1>1, <1>2, <1>3, CloseRefines, WaitRefines

\* The step that reads the store is the gate's decision.
LEMMA ReadCredentialRefines ==
  ASSUME ServerInv, NEW r \in Requests, ReadCredential(r)
  PROVE  [Gate!Next]_(Gate!gateVars)
  <1> DEFINE q == [req[r] EXCEPT !.injected = cell # NoCredential]
             auth == IF q.client THEN ClientAuth ELSE NoAuth
             plain == [q EXCEPT !.pc = "sending", !.auth = auth]
             loaded == [q EXCEPT !.pc = "sending", !.auth = InjectedAuth(cell)]
             refusal == RelayError("503", "no_credential")
             failure == RelayError("500", "bad_credential")
  <1>1. /\ req \in [Requests -> RequestRecords] /\ req[r].pc = "locking"
        /\ UNCHANGED <<procVars, cell, inj, delivered, held>>
    BY DEF ReadCredential, ServerInv, IndInv, TypeOK
  <1>2. q \in RequestRecords /\ (q.injected <=> cell # NoCredential)
    BY <1>1 DEF RequestRecords
  <1>3. OwnStatus(refusal) = "503" /\ OwnStatus(failure) = "500"
    BY OwnStatuses
  <1>4. GateVerdicts[r] = Gate!Open
    BY <1>1, Verdicts, VerdictValues
  <1>5. UNCHANGED <<RequireProviderCredential, cell, GateSeen>>
    BY <1>1, GateKept
  <1>6. CASE cell = NoCredential /\ RequireProviderCredential
    <2>1. req' = [req EXCEPT ![r] = Closed(q, refusal)]
      BY <1>6 DEF ReadCredential
    <2>2. Closed(q, refusal).pc = "done" /\ Closed(q, refusal).reply = refusal
      BY DEF Closed, NewRequest
    <2> HIDE DEF q, refusal
    <2>3. RecordVerdict(Closed(q, refusal)) = Gate!Refused
      BY <1>3, <2>2, VerdictValues
    <2>4. GateVerdicts' = [GateVerdicts EXCEPT ![r] = Gate!Refused]
      BY <1>1, <2>1, <2>3, VerdictStep
    <2> QED
      BY <1>4, <1>5, <1>6, <2>4 DEF GateVerdicts, GateSeen, Gate!gateVars, Gate!Next, Gate!Refuse
  <1>7. ASSUME NEW p, p.pc = "sending", p.injected <=> cell # NoCredential,
               req' = [req EXCEPT ![r] = p], cell # NoCredential \/ ~RequireProviderCredential
        PROVE  [Gate!Next]_(Gate!gateVars)
    <2>1. RecordVerdict(p) = Gate!Verdict("committed", cell)
      BY <1>7, VerdictValues
    <2>2. GateVerdicts' = [GateVerdicts EXCEPT ![r] = Gate!Verdict("committed", cell)]
      BY <1>1, <1>7, <2>1, VerdictStep
    <2> QED
      BY <1>4, <1>5, <1>7, <2>2 DEF GateVerdicts, GateSeen, Gate!gateVars, Gate!Next, Gate!Commit
  <1>8. CASE cell = NoCredential /\ ~RequireProviderCredential
    <2>1. req' = [req EXCEPT ![r] = plain]
      BY <1>8 DEF ReadCredential
    <2> HIDE DEF q, auth
    <2>2. plain.pc = "sending" /\ plain.injected = q.injected
      BY <1>2 DEF RequestRecords
    <2> HIDE DEF plain
    <2> QED
      BY <1>2, <1>7, <1>8, <2>1, <2>2
  <1>9. CASE cell # NoCredential /\ ~AuthorizationValueOk(cell)
    <2>1. req' = [req EXCEPT ![r] = Closed(q, failure)]
      BY <1>9 DEF ReadCredential
    <2> HIDE DEF q, failure
    <2> QED
      BY <1>1, <1>3, <2>1, CloseRefines
  <1>10. CASE cell # NoCredential /\ AuthorizationValueOk(cell)
    <2>1. req' = [req EXCEPT ![r] = loaded]
      BY <1>10 DEF ReadCredential
    <2> HIDE DEF q
    <2>2. loaded.pc = "sending" /\ loaded.injected = q.injected
      BY <1>2 DEF RequestRecords
    <2> HIDE DEF loaded
    <2> QED
      BY <1>2, <1>7, <1>10, <2>1, <2>2
  <1> QED
    BY <1>6, <1>8, <1>9, <1>10

\* A delivery is a contact under the committed credential or, after a redirect
\* dropped the header, one without any of a request that was seen before.
LEMMA DeliverRefines ==
  ASSUME ServerInv, NEW r \in Requests, Deliver(r)
  PROVE  [Gate!Next]_(Gate!gateVars)
  <1> DEFINE q == [req[r] EXCEPT !.pc = "awaiting"]
             d == [req |-> r, run |-> run, require |-> RequireProviderCredential,
                   origin |-> req[r].origin, hop |-> req[r].hop, body |-> req[r].body,
                   auth |-> req[r].auth]
  <1>1. /\ req \in [Requests -> RequestRecords] /\ req[r].pc = "sending"
        /\ req' = [req EXCEPT ![r] = q] /\ delivered' = delivered \cup {d}
        /\ UNCHANGED <<procVars, cell, inj, held>>
    BY DEF Deliver, ServerInv, IndInv, TypeOK
  <1>2. q.pc = "awaiting" /\ q.injected = req[r].injected
    BY <1>1 DEF RequestRecords
  <1>3. d.req = r /\ d.auth.cred = req[r].auth.cred
    OBVIOUS
  <1> HIDE DEF q, d
  <1>4. RecordVerdict(q) = RecordVerdict(req[r])
    BY <1>1, <1>2, VerdictValues
  <1>5. GateVerdicts' = GateVerdicts
    <2>1. GateVerdicts' = [GateVerdicts EXCEPT ![r] = GateVerdicts[r]]
      BY <1>1, <1>4, Verdicts, VerdictStep
    <2> QED
      BY <2>1 DEF GateVerdicts
  <1>6. GateVerdicts[r] = Gate!Verdict("committed", IF req[r].injected THEN cell ELSE NoCredential)
    BY <1>1, Verdicts, VerdictValues
  <1>7. GateVerdicts[r].kind = "committed"
       /\ GateVerdicts[r].cred = IF req[r].injected THEN cell ELSE NoCredential
    BY <1>6 DEF Gate!Verdict
  <1>8. GateSeen' = GateSeen \cup {[req |-> r, cred |-> req[r].auth.cred]}
    BY <1>1, <1>3 DEF GateSeen
  <1>9. UNCHANGED <<RequireProviderCredential, cell>>
    BY <1>1 DEF procVars, RequireProviderCredential
  <1>10. /\ RecordInv(r, req[r])
         /\ req[r].auth.by = "relay" => req[r].auth.cred = cell
    BY <1>1 DEF ServerInv, IndInv, HandlerInv
  <1>11. CASE req[r].auth.cred = GateVerdicts[r].cred
    BY <1>5, <1>7, <1>8, <1>9, <1>11
    DEF GateVerdicts, GateSeen, Gate!gateVars, Gate!Next, Gate!Contact
  <1>12. CASE req[r].auth.cred # GateVerdicts[r].cred
    <2>1. req[r].auth.cred = NoCredential /\ req[r].hop # 0
      BY <1>1, <1>7, <1>10, <1>12 DEF RecordInv
    <2>2. \E s \in GateSeen : s.req = r
      <3>1. Contacted(r)
        BY <1>10, <2>1 DEF RecordInv
      <3>2. PICK e \in delivered : e.req = r
        BY <3>1 DEF Contacted
      <3>3. [req |-> e.req, cred |-> e.auth.cred] \in GateSeen
        BY DEF GateSeen
      <3> QED
        BY <3>2, <3>3
    <2> QED
      BY <1>5, <1>7, <1>8, <1>9, <2>1, <2>2
      DEF GateVerdicts, GateSeen, Gate!gateVars, Gate!Next, Gate!Contact
  <1> QED
    BY <1>11, <1>12

\* What the provider answers does not concern the gate.
LEMMA ProviderRefines ==
  ASSUME ServerInv, NEW r \in Requests, ProviderStep(r)
  PROVE  [Gate!Next]_(Gate!gateVars)
  <1>1. req[r] \in RequestRecords
    BY DEF ServerInv, IndInv, TypeOK
  <1>2. ASSUME NEW o \in Elsewhere, NEW keeps \in BOOLEAN, Redirect(r, o, keeps)
        PROVE  [Gate!Next]_(Gate!gateVars)
    <2> DEFINE auth == IF o.host = req[r].origin.host /\ o.port = req[r].origin.port
                         THEN req[r].auth ELSE NoAuth
               hop == req[r].hop + 1
               body == req[r].body /\ keeps
               q == [req[r] EXCEPT !.pc = "sending", !.origin = o, !.hop = hop,
                                   !.body = body, !.auth = auth]
    <2>1. /\ req[r].pc = "awaiting" /\ req' = [req EXCEPT ![r] = q]
          /\ UNCHANGED <<procVars, cell, inj, delivered, held>>
      BY <1>2 DEF Redirect
    <2> HIDE DEF auth, hop, body
    <2>2. q.pc = "sending" /\ q.injected = req[r].injected
      BY <1>1 DEF RequestRecords
    <2> HIDE DEF q
    <2> QED
      BY <2>1, <2>2, WaitRefines
  <1>3. ASSUME NEW status \in Statuses, NEW streams \in BOOLEAN, ReceiveHead(r, status, streams)
        PROVE  [Gate!Next]_(Gate!gateVars)
    <2> DEFINE pc == IF streams THEN "streaming" ELSE "reading"
               reply == IF streams THEN Reply(status, "stream", "none") ELSE req[r].reply
               q == [req[r] EXCEPT !.pc = pc, !.status = status, !.reply = reply]
    <2>1. /\ req[r].pc = "awaiting" /\ req' = [req EXCEPT ![r] = q]
          /\ UNCHANGED <<procVars, cell, inj, delivered, held>>
      BY <1>3 DEF ReceiveHead
    <2>2. pc \in {"streaming", "reading"}
      OBVIOUS
    <2> HIDE DEF pc, reply
    <2>3. q.pc = pc /\ q.injected = req[r].injected
      BY <1>1 DEF RequestRecords
    <2> HIDE DEF q
    <2> QED
      BY <2>1, <2>2, <2>3, WaitRefines
  <1> QED
    BY <1>2, <1>3 DEF ProviderStep

\* Nor does a client that pauses.
LEMMA PauseRefines ==
  ASSUME ServerInv, NEW r \in Requests, ClientPauses(r)
  PROVE  [Gate!Next]_(Gate!gateVars)
  <1> DEFINE stalled == ~req[r].stalled
             q == [req[r] EXCEPT !.stalled = stalled]
  <1>1. /\ req[r] \in RequestRecords /\ req[r].pc = "streaming"
        /\ req' = [req EXCEPT ![r] = q]
        /\ UNCHANGED <<procVars, cell, inj, delivered, held>>
    BY DEF ClientPauses, ServerInv, IndInv, TypeOK
  <1> HIDE DEF stalled
  <1>2. q.pc = req[r].pc /\ q.injected = req[r].injected
    BY <1>1 DEF RequestRecords
  <1> HIDE DEF q
  <1> QED
    BY <1>1, <1>2, WaitRefines

\* While no request is in flight, the verdicts do not depend on the store.
LEMMA RestingVerdicts ==
  ASSUME req \in [Requests -> RequestRecords], \A r \in Requests : ~InFlight(r), UNCHANGED req
  PROVE  /\ GateVerdicts' = GateVerdicts
         /\ \A r \in Requests : GateVerdicts[r].kind # "committed"
  <1>1. \A r \in Requests : req[r].pc \in {"idle", "done"}
    BY DEF InFlight
  <1>2. ASSUME NEW r \in Requests PROVE GateVerdict(r)' = GateVerdict(r) /\ GateVerdict(r).kind # "committed"
    BY <1>1 DEF GateVerdict
  <1> QED
    BY <1>2 DEF GateVerdicts

\* Filling an empty store changes no verdict: nobody is committed to it yet.
LEMMA FillingKeepsVerdicts ==
  ASSUME ServerInv, cell = NoCredential, UNCHANGED req
  PROVE  GateVerdicts' = GateVerdicts
  <1>1. ASSUME NEW r \in Requests PROVE GateVerdict(r)' = GateVerdict(r)
    <2>1. req[r].pc \in {"sending", "awaiting", "reading", "streaming"} => ~req[r].injected
      BY DEF ServerInv, RecordInv
    <2> QED
      BY <2>1 DEF GateVerdict
  <1> QED
    BY <1>1 DEF GateVerdicts

\* The steps of main() and of the admin endpoint.
LEMMA MainRefines ==
  ASSUME ServerInv,
         \/ \E l \in Launches : Launch(l)
         \/ Configure \/ OpenAdmin \/ BindData
  PROVE  [Gate!Next]_(Gate!gateVars)
  <1> USE DEF ServerInv
  <1>1. req \in [Requests -> RequestRecords]
    BY DEF IndInv, TypeOK
  <1>2. ASSUME NEW l \in Launches, Launch(l) PROVE [Gate!Next]_(Gate!gateVars)
    <2>1. cell = NoCredential /\ cell' = cell /\ UNCHANGED <<req, delivered>>
      BY <1>2 DEF Launch, IndInv, StoreInv
    <2>2. \A r \in Requests : ~InFlight(r)
      BY <1>2 DEF Launch, IndInv, HandlerInv
    <2>3. RequireProviderCredential' \in BOOLEAN
      BY DEF RequireProviderCredential
    <2>4. /\ GateVerdicts' = GateVerdicts /\ GateSeen' = GateSeen
          /\ \A r \in Requests : GateVerdicts[r].kind # "committed"
      BY <1>1, <2>1, <2>2, RestingVerdicts DEF GateSeen
    <2> QED
      BY <2>1, <2>3, <2>4 DEF GateVerdicts, GateSeen, Gate!gateVars, Gate!Next, Gate!NewRun
  <1>3. CASE Configure
    <2>1. cell = NoCredential /\ cell' = opts.provider_token /\ UNCHANGED <<opts, req, delivered>>
      BY <1>3 DEF Configure, IndInv, StoreInv
    <2>2. cell' \in Credentials \/ cell' = cell
      BY <2>1, CliCredentialType DEF IndInv, TypeOK
    <2>3. UNCHANGED <<RequireProviderCredential, GateVerdicts, GateSeen>>
      BY <2>1, FillingKeepsVerdicts DEF RequireProviderCredential, GateSeen
    <2>4. CASE cell' \in Credentials
      BY <2>1, <2>3, <2>4 DEF GateVerdicts, GateSeen, Gate!gateVars, Gate!Next, Gate!Install
    <2>5. CASE cell' = cell
      BY <2>3, <2>5, GateByVerdicts
    <2> QED
      BY <2>2, <2>4, <2>5
  <1>4. CASE OpenAdmin \/ BindData
    <2>1. UNCHANGED <<opts, cell, req, delivered>>
      BY <1>4 DEF OpenAdmin, BindData
    <2>2. UNCHANGED <<RequireProviderCredential, cell, GateVerdicts, GateSeen>>
      BY <2>1 DEF RequireProviderCredential, GateVerdicts, GateVerdict, GateSeen
    <2> QED
      BY <2>2, GateByVerdicts
  <1> QED
    BY <1>2, <1>3, <1>4

LEMMA CallRefines ==
  ASSUME ServerInv, NEW i \in Injections,
         (\E c \in Offered : Inject(i, c)) \/ InjectionStep(i) \/ LoseInjection(i)
  PROVE  [Gate!Next]_(Gate!gateVars)
  <1>1. UNCHANGED <<opts, req, delivered>>
    BY DEF Inject, InjectionStep, SetOnce, AnswerInjection, LoseInjection, procVars
  <1>2. UNCHANGED <<RequireProviderCredential, GateSeen>>
    BY <1>1 DEF RequireProviderCredential, GateSeen
  <1>3. CASE cell' = cell
    <2>1. GateVerdicts' = GateVerdicts
      BY <1>1, <1>3 DEF GateVerdicts, GateVerdict
    <2> QED
      BY <1>2, <1>3, <2>1, GateByVerdicts
  <1>4. CASE cell' # cell
    <2>1. SetOnce(i) /\ cell = NoCredential /\ cell' = inj[i].cred
      BY <1>4 DEF Inject, InjectionStep, SetOnce, AnswerInjection, LoseInjection
    <2>2. cell' \in Credentials
      BY <2>1 DEF SetOnce, ServerInv, IndInv, HandlerInv, Credentials
    <2>3. GateVerdicts' = GateVerdicts
      BY <1>1, <2>1, FillingKeepsVerdicts
    <2> QED
      BY <1>2, <2>1, <2>2, <2>3 DEF GateVerdicts, GateSeen, Gate!gateVars, Gate!Next, Gate!Install
  <1> QED
    BY <1>3, <1>4

\* The end of the process is the gate's Stop.
LEMMA DieRefines ==
  ASSUME ServerInv, Die
  PROVE  [Gate!Next]_(Gate!gateVars)
  <1> DEFINE R == {r \in Requests : InFlight(r)}
  <1>1. req \in [Requests -> RequestRecords]
    BY DEF ServerInv, IndInv, TypeOK
  <1>2. /\ cell' = NoCredential /\ UNCHANGED <<opts, delivered>>
        /\ \A r \in Requests : req'[r] = IF InFlight(r) THEN Closed(req[r], Lost) ELSE req[r]
    BY DEF Die
  <1>3. \A r \in Requests : Closed(req[r], Lost).pc = "done" /\ OwnStatus(Closed(req[r], Lost).reply) = "none"
    BY OwnStatuses DEF Closed, NewRequest
  <1>4. ASSUME NEW r \in Requests
        PROVE  /\ GateVerdicts[r].kind = "committed" => r \in R
               /\ r \in R => GateVerdicts[r].kind \in {"open", "committed"}
    BY <1>1 DEF GateVerdicts, GateVerdict, InFlight, RequestRecords, PCs
  <1>5. ASSUME NEW r \in Requests
        PROVE  GateVerdict(r)' = IF r \in R THEN Gate!Done ELSE GateVerdicts[r]
    <2>1. CASE r \in R
      BY <1>2, <1>3, <2>1 DEF GateVerdict, Gate!Done, Gate!Verdict
    <2>2. CASE r \notin R
      BY <1>1, <1>2, <2>2 DEF GateVerdicts, GateVerdict, InFlight, RequestRecords, PCs
    <2> QED
      BY <2>1, <2>2
  <1>6. GateVerdicts' = [r \in Requests |-> IF r \in R THEN Gate!Done ELSE GateVerdicts[r]]
    BY <1>5 DEF GateVerdicts
  <1>7. UNCHANGED <<RequireProviderCredential, GateSeen>>
    BY <1>2 DEF RequireProviderCredential, GateSeen
  <1>8. R \in SUBSET Requests
    OBVIOUS
  <1> HIDE DEF R
  <1> QED
    BY <1>2, <1>4, <1>6, <1>7, <1>8 DEF GateVerdicts, GateSeen, Gate!gateVars, Gate!Next, Gate!Stop

LEMMA NextRefines == ServerInv /\ [Next]_vars => [Gate!Next]_(Gate!gateVars)
  <1> SUFFICES ASSUME ServerInv, [Next]_vars PROVE [Gate!Next]_(Gate!gateVars)
    OBVIOUS
  <1>1. CASE (\E l \in Launches : Launch(l)) \/ Configure \/ OpenAdmin \/ BindData \/ Die
    BY <1>1, MainRefines, DieRefines
  <1>2. CASE \E i \in Injections :
               \/ \E c \in Offered : Inject(i, c)
               \/ InjectionStep(i) \/ LoseInjection(i)
    BY <1>2, CallRefines
  <1>3. ASSUME NEW r \in Requests,
               \/ \E in \in Inputs : Arrive(r, in)
               \/ HandlerStep(r) \/ ProviderStep(r) \/ ClientGone(r) \/ ClientPauses(r)
        PROVE  [Gate!Next]_(Gate!gateVars)
    BY <1>3, ArriveRefines, ReadCredentialRefines, DeliverRefines, FinishRefines, ProviderRefines,
       PauseRefines
    DEF HandlerStep
  <1>4. CASE UNCHANGED vars
    BY <1>4, GateByVerdicts
    DEF vars, RequireProviderCredential, GateVerdicts, GateVerdict, GateSeen
  <1> QED
    BY <1>1, <1>2, <1>3, <1>4 DEF Next

LEMMA InitRefines == Init => Gate!Init
  <1> SUFFICES ASSUME Init PROVE Gate!Init
    OBVIOUS
  <1>1. RequireProviderCredential \in BOOLEAN /\ cell = NoCredential
    BY DEF Init, RequireProviderCredential
  <1>2. \A r \in Requests : GateVerdict(r) = Gate!Open
    BY DEF Init, NewRequest, GateVerdict, Gate!Open, Gate!Verdict
  <1>3. GateVerdicts = [r \in Requests |-> Gate!Open] /\ GateSeen = {}
    BY <1>2 DEF Init, GateVerdicts, GateSeen
  <1> QED
    BY <1>1, <1>3 DEF Gate!Init, GateVerdicts, GateSeen

\* Requests and admin calls, interleaved at their awaits with restarts, redirects
\* and failures, implement CredentialGate: each request is decided in one step
\* against a slot that is filled once per run.
THEOREM RelayImplementsGate == Spec => ImplementsGate
  <1>1. Init /\ [][Next]_vars => []ServerInv
    BY ServerInvariance DEF Spec
  <1>2. Spec => Gate!Init /\ [][Gate!Next]_(Gate!gateVars)
    BY InitRefines, NextRefines, <1>1, PTL DEF Spec
  <1> QED
    BY <1>2 DEF ImplementsGate, Gate!Spec
=============================================================================
