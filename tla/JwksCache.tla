----------------------------- MODULE JwksCache -----------------------------
(***************************************************************************)
(* How a client of the relay obtains the token issuer's signing keys:      *)
(* fetch_json_cached of relay-attest's gcp_confidential_space.rs, called   *)
(* by the TLS handshakes of one process, each on a thread of its own.      *)
(* The cache is one process-wide map under a mutex; the mutex is not held  *)
(* while a document is fetched.                                            *)
(***************************************************************************)
EXTENDS Clock

CONSTANTS
  DirectUri,     \* policy.jwks_uri is set: the well-known document is not asked for
  Ttl,           \* DEFAULT_JWKS_TTL
  FetchTimeout,  \* the HTTP client's timeout, which covers head and body
  MaxKid         \* bound: key rotations of the issuer

ASSUME TimeAssumption ==
  /\ Ttl \in Nat \ {0} /\ FetchTimeout \in Nat /\ MaxKid \in Nat
ASSUME DirectAssumption == DirectUri \in BOOLEAN

Urls == {"well_known", "jwks"}
FirstUrl == IF DirectUri THEN "jwks" ELSE "well_known"

VARIABLES
  published,  \* keys the issuer publishes
  latest,     \* its newest key
  withdrawn,  \* history: when a key was withdrawn
  cache,      \* JSON_CACHE: url -> entry
  look        \* per handshake: [pc, url, started, doc]

issuer == <<published, latest, withdrawn>>
cacheVars == <<now, published, latest, withdrawn, cache, look>>

\* A JSON document: of the expected shape or not, with the keys it lists.
Doc(ok, keys) == [ok |-> ok, keys |-> keys]
NoDoc == Doc(FALSE, {})
NoEntry == [at |-> -1, doc |-> NoDoc]
Idle == [pc |-> "idle", url |-> FirstUrl, started |-> 0, doc |-> NoDoc]

CacheInit ==
  /\ now = 0
  /\ published = {0} /\ latest = 0
  /\ withdrawn = [k \in 0 .. MaxKid |-> -1]
  /\ cache = [u \in Urls |-> NoEntry]
  /\ look = [h \in Handshakes |-> Idle]

\* Time passes unless a fetch is due to time out or a thread has work to do.
KeysMayWait(h) ==
  /\ look[h].pc \notin {"lookup", "ready"}
  /\ look[h].pc \in {"asked", "answered"} => now < look[h].started + FetchTimeout

Tick ==
  /\ Advance /\ \A h \in Handshakes : KeysMayWait(h)
  /\ UNCHANGED <<issuer, cache, look>>

\* The issuer starts to sign with a new key and may withdraw older ones.
Rotate(keep) ==
  /\ latest < MaxKid
  /\ latest' = latest + 1
  /\ published' = {latest + 1} \cup (IF keep THEN published ELSE {})
  /\ withdrawn' = [k \in 0 .. MaxKid |->
                     IF k \in published \ published' THEN now ELSE withdrawn[k]]
  /\ UNCHANGED <<now, cache, look>>

-----------------------------------------------------------------------------
(* fetch_json_cached.                                                       *)

\* Slip: an entry is good for one more tick.
FreshOneMore(u) == cache[u].at >= 0 /\ now - cache[u].at <= Ttl

\* entry.fetched_at.elapsed() < ttl
Fresh(u) == cache[u].at >= 0 /\ now - cache[u].at < Ttl

\* A document in hand: parsed into the wanted shape or refused.  The well-known
\* document only names the next one to look up.
Use(h, doc) ==
  look' = [look EXCEPT ![h] =
             CASE ~doc.ok -> [Idle EXCEPT !.pc = "refused"]
               [] doc.ok /\ @.url = "well_known" ->
                    [Idle EXCEPT !.pc = "lookup", !.url = "jwks"]
               [] OTHER -> [Idle EXCEPT !.pc = "ready", !.doc = doc]]

StartLookup(h) ==
  /\ look[h].pc = "idle"
  /\ look' = [look EXCEPT ![h] = [Idle EXCEPT !.pc = "lookup"]]

\* The cache is consulted under its lock; on a miss the document is asked for.
Consult(h) ==
  /\ look[h].pc = "lookup"
  /\ IF Fresh(look[h].url)
       THEN Use(h, cache[look[h].url].doc)
       ELSE look' = [look EXCEPT ![h].pc = "asked", ![h].started = now]
  /\ UNCHANGED <<now, issuer, cache>>

\* The issuer's server writes its answer, of the right shape or not.
IssuerAnswers(h, ok) ==
  /\ look[h].pc = "asked"
  /\ look' = [look EXCEPT ![h].pc = "answered",
                          ![h].doc = Doc(ok, IF ok /\ look[h].url = "jwks" THEN published ELSE {})]
  /\ UNCHANGED <<now, issuer, cache>>

\* Slip: an answer renews the entry that is there.
ReceiveKeepsOld(h) ==
  LET u == look[h].url
      kept == IF cache[u].at >= 0 THEN cache[u].doc ELSE look[h].doc IN
  /\ look[h].pc = "answered"
  /\ cache' = [cache EXCEPT ![u] = [at |-> now, doc |-> kept]]
  /\ Use(h, kept)
  /\ UNCHANGED <<now, issuer>>

\* The answer is read and is JSON: it goes into the cache whatever its shape,
\* over an entry that another thread may have put there meanwhile.
Receive(h) ==
  /\ look[h].pc = "answered"
  /\ cache' = [cache EXCEPT ![look[h].url] = [at |-> now, doc |-> look[h].doc]]
  /\ Use(h, look[h].doc)
  /\ UNCHANGED <<now, issuer>>

\* Slip: the timeout covers the response body only.
FetchFailsBodyOnly(h) ==
  /\ look[h].pc = "answered"
  /\ look' = [look EXCEPT ![h] = [Idle EXCEPT !.pc = "refused"]]
  /\ UNCHANGED <<now, issuer, cache>>

\* An HTTP error, the timeout, or an answer that is not JSON.
FetchFails(h) ==
  /\ look[h].pc \in {"asked", "answered"}
  /\ look' = [look EXCEPT ![h] = [Idle EXCEPT !.pc = "refused"]]
  /\ UNCHANGED <<now, issuer, cache>>

\* The handshake has what it wanted, or has failed, and may be followed by another.
Release(h) ==
  /\ look[h].pc \in {"ready", "refused"}
  /\ look' = [look EXCEPT ![h] = Idle]

-----------------------------------------------------------------------------
LookupStep(h) == Consult(h) \/ Receive(h) \/ FetchFails(h)

CacheNext ==
  \/ Tick
  \/ \E keep \in BOOLEAN : Rotate(keep)
  \/ \E h \in Handshakes :
       \/ (StartLookup(h) \/ Release(h)) /\ UNCHANGED <<now, issuer, cache>>
       \/ LookupStep(h)
       \/ \E ok \in BOOLEAN : IssuerAnswers(h, ok)

CacheSpec == CacheInit /\ [][CacheNext]_cacheVars
-----------------------------------------------------------------------------
Docs == [ok : BOOLEAN, keys : SUBSET (0 .. MaxKid)]

\* Every variable has its type.
CacheTypeOK ==
  /\ now \in 0 .. MaxTime
  /\ published \subseteq 0 .. latest /\ latest \in 0 .. MaxKid
  /\ withdrawn \in [0 .. MaxKid -> -1 .. MaxTime]
  /\ cache \in [Urls -> [at : -1 .. MaxTime, doc : Docs]]
  /\ look \in [Handshakes ->
       [pc : {"idle", "lookup", "asked", "answered", "ready", "refused"},
        url : Urls, started : 0 .. MaxTime, doc : Docs]]

\* A document as of time t lists key k only if k was published then.
ListedSince(doc, t) ==
  \A k \in doc.keys : k \in published \/ withdrawn[k] >= t

\* What is known of a document at each stage of its way: a key is not withdrawn
\* while it is published or before it exists, an answer is as old as
\* its request at most, an entry as its insertion plus one fetch.
DocumentAges ==
  /\ \A k \in 0 .. MaxKid : k \in published \/ k > latest => withdrawn[k] = -1
  /\ \A u \in Urls : cache[u].at <= now /\ ListedSince(cache[u].doc, cache[u].at - FetchTimeout)
  /\ \A h \in Handshakes :
       /\ look[h].pc \in {"asked", "answered"} =>
            look[h].started <= now /\ now <= look[h].started + FetchTimeout
       /\ look[h].pc = "answered" => ListedSince(look[h].doc, look[h].started)

\* A signing key the issuer has withdrawn is trusted for the cache's lifetime and
\* one fetch more, never longer, although a slow answer may overwrite a newer
\* entry and start its lifetime afresh.
WithdrawnKeysExpire ==
  \A h \in Handshakes : look[h].pc = "ready" =>
    ListedSince(look[h].doc, now - (Ttl - 1) - FetchTimeout)

\* The inductive invariant behind WithdrawnKeysExpire.
CacheInv == CacheTypeOK /\ DocumentAges /\ WithdrawnKeysExpire
=============================================================================
