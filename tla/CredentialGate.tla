--------------------------- MODULE CredentialGate ---------------------------
(***************************************************************************)
(* What the relay promises about the provider credential, without          *)
(* handlers, locks or errors: in each run of the process a slot that is    *)
(* filled at most once decides the fate of every request in one atomic     *)
(* step.  While the slot is empty a production relay refuses; afterwards a *)
(* request is committed to the slot's credential, and providers see the    *)
(* request under that credential or, once it has been seen, under none.    *)
(***************************************************************************)
CONSTANTS Requests, Credentials, NoCredential

VARIABLES
  require,   \* this run refuses requests while the slot is empty
  slot,      \* the credential of this run, or NoCredential
  verdict,   \* per request: [kind, cred]
  seen       \* [req, cred]: what providers saw

gateVars == <<require, slot, verdict, seen>>

Verdict(kind, c) == [kind |-> kind, cred |-> c]
Open    == Verdict("open", NoCredential)
Refused == Verdict("refused", NoCredential)
Done    == Verdict("closed", NoCredential)

Init ==
  /\ require \in BOOLEAN
  /\ slot = NoCredential
  /\ verdict = [r \in Requests |-> Open]
  /\ seen = {}

\* The next run begins, in either mode.
NewRun ==
  /\ slot = NoCredential
  /\ \A r \in Requests : verdict[r].kind # "committed"
  /\ require' \in BOOLEAN
  /\ UNCHANGED <<slot, verdict, seen>>

Install ==
  /\ slot = NoCredential
  /\ slot' \in Credentials
  /\ UNCHANGED <<require, verdict, seen>>

\* The process ends: the slot is forgotten, open handlers are cut.
Stop ==
  /\ slot' = NoCredential
  /\ \E R \in SUBSET Requests :
       /\ \A r \in Requests : verdict[r].kind = "committed" => r \in R
       /\ \A r \in R : verdict[r].kind \in {"open", "committed"}
       /\ verdict' = [r \in Requests |-> IF r \in R THEN Done ELSE verdict[r]]
  /\ UNCHANGED <<require, seen>>

Refuse(r) ==
  /\ verdict[r] = Open /\ slot = NoCredential /\ require
  /\ verdict' = [verdict EXCEPT ![r] = Refused]
  /\ UNCHANGED <<require, slot, seen>>

Commit(r) ==
  /\ verdict[r] = Open /\ (slot # NoCredential \/ ~require)
  /\ verdict' = [verdict EXCEPT ![r] = Verdict("committed", slot)]
  /\ UNCHANGED <<require, slot, seen>>

Contact(r) ==
  /\ verdict[r].kind = "committed"
  /\ \/ seen' = seen \cup {[req |-> r, cred |-> verdict[r].cred]}
     \/ /\ \E s \in seen : s.req = r
        /\ seen' = seen \cup {[req |-> r, cred |-> NoCredential]}
  /\ UNCHANGED <<require, slot, verdict>>

Close(r) ==
  /\ verdict[r].kind \in {"open", "committed"}
  /\ verdict' = [verdict EXCEPT ![r] = Done]
  /\ UNCHANGED <<require, slot, seen>>

Next ==
  \/ NewRun \/ Install \/ Stop
  \/ \E r \in Requests : Refuse(r) \/ Commit(r) \/ Contact(r) \/ Close(r)

Spec == Init /\ [][Next]_gateVars
=============================================================================
