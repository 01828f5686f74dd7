-------------------------- MODULE JwksCacheProofs --------------------------
(***************************************************************************)
(* For any number of handshakes, any cache lifetime, any fetch timeout and *)
(* any number of rotations: a withdrawn signing key is trusted for at most *)
(* the cache lifetime and one fetch.                                       *)
(***************************************************************************)
EXTENDS JwksCache, TLAPS

\* The documents the model builds are documents.
LEMMA DocTypes ==
  /\ NoDoc \in Docs
  /\ \A ok \in BOOLEAN, keys \in SUBSET (0 .. MaxKid) : Doc(ok, keys) \in Docs
  BY DEF NoDoc, Doc, Docs

LookRecords ==
  [pc : {"idle", "lookup", "asked", "answered", "ready", "refused"},
   url : Urls, started : 0 .. MaxTime, doc : Docs]

LEMMA IdleType == Idle \in LookRecords /\ Idle.pc = "idle" /\ Idle.doc = NoDoc
  <1>1. FirstUrl \in Urls
    BY DEF FirstUrl, Urls
  <1>2. 0 \in 0 .. MaxTime
    BY TimeAssumption, ClockAssumption
  <1> QED
    BY <1>1, <1>2, DocTypes DEF Idle, LookRecords

\* What the invariant asks of one handshake.
LookOk(l) ==
  /\ l.pc \in {"asked", "answered"} => l.started <= now /\ now <= l.started + FetchTimeout
  /\ l.pc = "answered" => ListedSince(l.doc, l.started)
  /\ l.pc = "ready" => ListedSince(l.doc, now - (Ttl - 1) - FetchTimeout)

\* The invariant, one handshake at a time.
LEMMA InvByParts ==
  CacheInv <=>
    /\ now \in 0 .. MaxTime
    /\ published \subseteq 0 .. latest /\ latest \in 0 .. MaxKid
    /\ withdrawn \in [0 .. MaxKid -> -1 .. MaxTime]
    /\ cache \in [Urls -> [at : -1 .. MaxTime, doc : Docs]]
    /\ look \in [Handshakes -> LookRecords]
    /\ \A k \in 0 .. MaxKid : k \in published \/ k > latest => withdrawn[k] = -1
    /\ \A u \in Urls : cache[u].at <= now /\ ListedSince(cache[u].doc, cache[u].at - FetchTimeout)
    /\ \A h \in Handshakes : LookOk(look[h])
  BY DEF CacheInv, CacheTypeOK, DocumentAges, WithdrawnKeysExpire, LookRecords, LookOk

LEMMA InitCacheInv == CacheInit => CacheInv
  <1> SUFFICES ASSUME CacheInit PROVE CacheInv
    OBVIOUS
  <1>1. now \in 0 .. MaxTime /\ published \subseteq 0 .. latest /\ latest \in 0 .. MaxKid
    BY TimeAssumption, ClockAssumption DEF CacheInit
  <1>2. withdrawn \in [0 .. MaxKid -> -1 .. MaxTime] /\ \A k \in 0 .. MaxKid : withdrawn[k] = -1
    BY TimeAssumption, ClockAssumption DEF CacheInit
  <1>3. cache \in [Urls -> [at : -1 .. MaxTime, doc : Docs]]
    BY TimeAssumption, ClockAssumption, DocTypes DEF CacheInit, NoEntry
  <1>4. \A u \in Urls : cache[u].at <= now /\ ListedSince(cache[u].doc, cache[u].at - FetchTimeout)
    BY TimeAssumption, ClockAssumption DEF CacheInit, NoEntry, NoDoc, Doc, ListedSince
  <1>5. look \in [Handshakes -> LookRecords] /\ \A h \in Handshakes : LookOk(look[h])
    BY IdleType DEF CacheInit, LookOk
  <1> QED
    BY <1>1, <1>2, <1>3, <1>4, <1>5, InvByParts

\* Replacing one handshake's record by one that is well-formed keeps the invariant.
LEMMA LookStep ==
  ASSUME CacheInv, NEW h \in Handshakes, NEW l \in LookRecords, LookOk(l),
         look' = [look EXCEPT ![h] = l], UNCHANGED <<now, issuer, cache>>
  PROVE  CacheInv'
  <1>1. look' \in [Handshakes -> LookRecords]
       /\ \A g \in Handshakes : look'[g] = look[g] \/ look'[g] = l
    BY InvByParts
  <1>2. \A g \in Handshakes : LookOk(look'[g])
    BY <1>1, InvByParts
  <1>3. UNCHANGED <<now, published, latest, withdrawn, cache>>
    BY DEF issuer
  <1>4. \A g \in Handshakes :
         LET m == look'[g] IN
         /\ m.pc \in {"asked", "answered"} => m.started <= now /\ now <= m.started + FetchTimeout
         /\ m.pc = "answered" => ListedSince(m.doc, m.started)
         /\ m.pc = "ready" => ListedSince(m.doc, now - (Ttl - 1) - FetchTimeout)
    BY <1>2 DEF LookOk
  <1>5. CacheTypeOK'
    BY <1>1, <1>3 DEF CacheInv, CacheTypeOK, LookRecords
  <1>6. DocumentAges' /\ WithdrawnKeysExpire'
    BY <1>3, <1>4 DEF CacheInv, DocumentAges, WithdrawnKeysExpire, ListedSince
  <1> QED
    BY <1>5, <1>6 DEF CacheInv

\* A document that is good as of some time is good as of any earlier one.
LEMMA ListedEarlier ==
  ASSUME CacheInv, NEW doc \in Docs, NEW s \in Int, NEW t \in Int, s <= t, ListedSince(doc, t)
  PROVE  ListedSince(doc, s)
  <1>1. \A k \in doc.keys : k \in 0 .. MaxKid
    BY DEF Docs
  <1>2. \A k \in 0 .. MaxKid : withdrawn[k] \in Int
    BY InvByParts
  <1> QED
    BY <1>1, <1>2 DEF ListedSince

\* A document in hand, recent enough, is used: refused, followed or accepted.
LEMMA UseInv ==
  ASSUME CacheInv, NEW h \in Handshakes, NEW doc \in Docs,
         ListedSince(doc, now - (Ttl - 1) - FetchTimeout),
         Use(h, doc), UNCHANGED <<now, issuer>>,
         cache' \in [Urls -> [at : -1 .. MaxTime, doc : Docs]],
         \A u \in Urls : cache'[u].at <= now /\ ListedSince(cache'[u].doc, cache'[u].at - FetchTimeout)
  PROVE  CacheInv'
  <1> DEFINE refused == [Idle EXCEPT !.pc = "refused"]
             follow == [Idle EXCEPT !.pc = "lookup", !.url = "jwks"]
             ready == [Idle EXCEPT !.pc = "ready", !.doc = doc]
  <1>1. refused \in LookRecords /\ follow \in LookRecords /\ ready \in LookRecords
    BY IdleType DEF LookRecords, Urls
  <1>2. LookOk(refused) /\ LookOk(follow) /\ LookOk(ready)
    BY IdleType DEF LookOk, LookRecords
  <1>3. PICK l \in {refused, follow, ready} : look' = [look EXCEPT ![h] = l]
    <2>1. doc.ok \in BOOLEAN
      BY DEF Docs
    <2> HIDE DEF refused, follow, ready
    <2> QED
      BY <2>1 DEF Use, refused, follow, ready
  <1>4. l \in LookRecords /\ LookOk(l)
    BY <1>1, <1>2, <1>3
  <1> HIDE DEF refused, follow, ready
  <1>5. look' \in [Handshakes -> LookRecords]
       /\ \A g \in Handshakes : look'[g] = look[g] \/ look'[g] = l
    BY <1>3, <1>4, InvByParts
  <1>6. \A g \in Handshakes : LookOk(look'[g])
    BY <1>4, <1>5, InvByParts
  <1>7. \A g \in Handshakes :
         LET m == look'[g] IN
         /\ m.pc \in {"asked", "answered"} => m.started <= now /\ now <= m.started + FetchTimeout
         /\ m.pc = "answered" => ListedSince(m.doc, m.started)
         /\ m.pc = "ready" => ListedSince(m.doc, now - (Ttl - 1) - FetchTimeout)
    BY <1>6 DEF LookOk
  <1>8. UNCHANGED <<now, published, latest, withdrawn>>
    BY DEF issuer
  <1>9. CacheTypeOK'
    BY <1>5, <1>8 DEF CacheInv, CacheTypeOK, LookRecords
  <1>10. DocumentAges' /\ WithdrawnKeysExpire'
    BY <1>7, <1>8 DEF CacheInv, DocumentAges, WithdrawnKeysExpire, ListedSince
  <1> QED
    BY <1>9, <1>10 DEF CacheInv

-----------------------------------------------------------------------------
(* Every step preserves the invariant.                                      *)

\* A tick ages every document by one; fetches are not due, and nobody holds
\* keys it has not used yet.
LEMMA TickInv == CacheInv /\ Tick => CacheInv'
  <1> SUFFICES ASSUME CacheInv, Tick PROVE CacheInv'
    OBVIOUS
  <1>1. now' = now + 1 /\ now' \in 0 .. MaxTime /\ UNCHANGED <<published, latest, withdrawn, cache, look>>
    BY TimeAssumption, ClockAssumption, InvByParts DEF Tick, Advance, KeysMayWait, issuer
  <1>2. CacheTypeOK'
    BY <1>1 DEF CacheInv, CacheTypeOK
  <1>3. \A h \in Handshakes : look[h].started \in Int /\ look[h].pc # "ready"
       /\ (look[h].pc \in {"asked", "answered"} => now < look[h].started + FetchTimeout)
    BY InvByParts DEF Tick, Advance, KeysMayWait, LookRecords
  <1>4. \A u \in Urls : cache[u].at \in Int
    BY InvByParts
  <1>5. DocumentAges'
    BY <1>1, <1>3, <1>4, TimeAssumption, ClockAssumption, InvByParts DEF CacheInv, DocumentAges, ListedSince
  <1>6. WithdrawnKeysExpire'
    BY <1>1, <1>3 DEF WithdrawnKeysExpire
  <1> QED
    BY <1>2, <1>5, <1>6 DEF CacheInv

\* A key withdrawn now was published until now: no document's age changes.
LEMMA RotateInv ==
  ASSUME CacheInv, NEW keep \in BOOLEAN, Rotate(keep)
  PROVE  CacheInv'
  <1>1. UNCHANGED <<now, cache, look>> /\ latest' = latest + 1 /\ latest < MaxKid
       /\ published' = {latest + 1} \cup (IF keep THEN published ELSE {})
    BY DEF Rotate
  <1>2. latest' \in 0 .. MaxKid /\ published' \subseteq 0 .. latest'
    BY <1>1, TimeAssumption, ClockAssumption, InvByParts
  <1>3. \A k \in 0 .. MaxKid :
         withdrawn'[k] = IF k \in published \ published' THEN now ELSE withdrawn[k]
    BY DEF Rotate
  <1>4. withdrawn' \in [0 .. MaxKid -> -1 .. MaxTime]
    BY TimeAssumption, ClockAssumption, InvByParts DEF Rotate
  <1>5. CacheTypeOK'
    BY <1>1, <1>2, <1>4 DEF CacheInv, CacheTypeOK
  <1>6. \A k \in 0 .. MaxKid : k \in published' \/ k > latest' => withdrawn'[k] = -1
    BY <1>1, <1>2, <1>3, InvByParts
  <1>7. \A doc \in Docs, t \in Int : t <= now /\ ListedSince(doc, t) =>
         \A k \in doc.keys : k \in published' \/ withdrawn'[k] >= t
    <2>1. \A doc \in Docs : \A k \in doc.keys : k \in 0 .. MaxKid
      BY DEF Docs
    <2> QED
      BY <1>3, <2>1 DEF ListedSince
  <1>8. \A u \in Urls : cache[u].doc \in Docs /\ cache[u].at - FetchTimeout \in Int
                        /\ cache[u].at - FetchTimeout <= now
    BY TimeAssumption, ClockAssumption, InvByParts
  <1>9. \A h \in Handshakes :
         /\ look[h].doc \in Docs /\ look[h].started \in Int
         /\ look[h].pc = "answered" => look[h].started <= now
    <2>1. \A h \in Handshakes : look[h] \in LookRecords /\ LookOk(look[h])
      BY InvByParts
    <2>2. \A h \in Handshakes : look[h].doc \in Docs /\ look[h].started \in Int
      <3>1. \A l \in LookRecords : l.doc \in Docs /\ l.started \in Int
        BY TimeAssumption, ClockAssumption DEF LookRecords
      <3> QED
        BY <2>1, <3>1
    <2>3. \A h \in Handshakes : look[h].pc = "answered" => look[h].started <= now
      BY <2>1 DEF LookOk
    <2> QED
      BY <2>2, <2>3
  <1>10. now - (Ttl - 1) - FetchTimeout \in Int /\ now - (Ttl - 1) - FetchTimeout <= now
    <2>1. now \in Int
      BY InvByParts
    <2> QED
      BY <2>1, TimeAssumption, ClockAssumption
  <1>11. \A u \in Urls : cache'[u].at <= now' /\ ListedSince(cache[u].doc, cache[u].at - FetchTimeout)'
    BY <1>1, <1>7, <1>8, InvByParts DEF ListedSince
  <1>12. \A h \in Handshakes :
         /\ look[h].pc = "answered" =>
              \A k \in look[h].doc.keys : k \in published' \/ withdrawn'[k] >= look[h].started
         /\ look[h].pc = "ready" =>
              \A k \in look[h].doc.keys :
                k \in published' \/ withdrawn'[k] >= now - (Ttl - 1) - FetchTimeout
    BY <1>7, <1>9, <1>10, InvByParts DEF LookOk
  <1>13. DocumentAges' /\ WithdrawnKeysExpire'
    BY <1>1, <1>6, <1>11, <1>12 DEF CacheInv, DocumentAges, WithdrawnKeysExpire, ListedSince
  <1> QED
    BY <1>5, <1>13 DEF CacheInv

LEMMA StartLookupInv ==
  ASSUME CacheInv, NEW h \in Handshakes, StartLookup(h) \/ Release(h),
         UNCHANGED <<now, issuer, cache>>
  PROVE  CacheInv'
  <1> DEFINE l == [Idle EXCEPT !.pc = "lookup"]
  <1>1. l \in LookRecords /\ LookOk(l) /\ LookOk(Idle)
    BY IdleType DEF LookRecords, LookOk
  <1> HIDE DEF l
  <1> QED
    BY <1>1, IdleType, LookStep DEF StartLookup, Release, l

\* On a hit the entry is younger than Ttl and was at most one fetch old when it
\* was put there; on a miss a request starts now.
LEMMA ConsultInv ==
  ASSUME CacheInv, NEW h \in Handshakes, Consult(h)
  PROVE  CacheInv'
  <1> DEFINE u == look[h].url
  <1>1. u \in Urls /\ UNCHANGED <<now, issuer, cache>> /\ look[h] \in LookRecords
    BY InvByParts DEF Consult, LookRecords
  <1>2. CASE Fresh(u)
    <2>1. cache[u].doc \in Docs /\ cache[u].at - FetchTimeout \in Int
         /\ now - (Ttl - 1) - FetchTimeout \in Int
         /\ now - (Ttl - 1) - FetchTimeout <= cache[u].at - FetchTimeout
      <3>1. cache[u].doc \in Docs /\ cache[u].at \in Int /\ now \in Int
        BY <1>1, InvByParts
      <3>2. now - cache[u].at < Ttl
        BY <1>2 DEF Fresh
      <3> HIDE DEF u
      <3> QED
        BY <3>1, <3>2, TimeAssumption, ClockAssumption
    <2>2. ListedSince(cache[u].doc, cache[u].at - FetchTimeout)
      BY <1>1, InvByParts
    <2>3. ListedSince(cache[u].doc, now - (Ttl - 1) - FetchTimeout)
      BY <2>1, <2>2, ListedEarlier
    <2>4. Use(h, cache[u].doc)
      BY <1>2 DEF Consult
    <2>5. cache' \in [Urls -> [at : -1 .. MaxTime, doc : Docs]]
         /\ \A v \in Urls : cache'[v].at <= now /\ ListedSince(cache'[v].doc, cache'[v].at - FetchTimeout)
      BY <1>1, InvByParts
    <2> QED
      BY <1>1, <2>1, <2>3, <2>4, <2>5, UseInv
  <1>3. CASE ~Fresh(u)
    <2> DEFINE l == [look[h] EXCEPT !.pc = "asked", !.started = now]
    <2>1. look' = [look EXCEPT ![h] = l]
      BY <1>3, InvByParts DEF Consult
    <2>2. l \in LookRecords
      BY <1>1, InvByParts DEF LookRecords
    <2>3. LookOk(l)
      BY <1>1, TimeAssumption, ClockAssumption, InvByParts DEF LookOk, LookRecords
    <2> HIDE DEF l
    <2> QED
      BY <1>1, <2>1, <2>2, <2>3, LookStep
  <1> QED
    BY <1>2, <1>3

\* What the issuer answers it publishes at that moment.
LEMMA AnswerInv ==
  ASSUME CacheInv, NEW h \in Handshakes, NEW ok \in BOOLEAN, IssuerAnswers(h, ok)
  PROVE  CacheInv'
  <1> DEFINE keys == IF ok /\ look[h].url = "jwks" THEN published ELSE {}
             d == Doc(ok, keys)
             l == [look[h] EXCEPT !.pc = "answered", !.doc = d]
  <1>1. look[h] \in LookRecords /\ look[h].pc = "asked" /\ LookOk(look[h])
       /\ UNCHANGED <<now, issuer, cache>>
    BY InvByParts DEF IssuerAnswers
  <1>2. keys \in SUBSET (0 .. MaxKid) /\ keys \subseteq published
    <2>1. published \subseteq 0 .. latest /\ latest \in 0 .. MaxKid
      BY InvByParts
    <2>2. published \subseteq 0 .. MaxKid
      BY <2>1, TimeAssumption, ClockAssumption
    <2> QED
      BY <2>2
  <1>3. d \in Docs /\ d.keys = keys
    BY <1>2, DocTypes DEF Doc
  <1>4. look' = [look EXCEPT ![h] = l]
    BY InvByParts DEF IssuerAnswers
  <1> HIDE DEF keys, d
  <1>5. l \in LookRecords
    BY <1>1, <1>3 DEF LookRecords
  <1>6. ListedSince(d, look[h].started)
    BY <1>2, <1>3 DEF ListedSince
  <1>7. LookOk(l)
    BY <1>1, <1>6 DEF LookOk, LookRecords
  <1> HIDE DEF l
  <1> QED
    BY <1>1, <1>4, <1>5, <1>7, LookStep

\* An answer is inserted no later than one fetch after its request.
LEMMA ReceiveInv ==
  ASSUME CacheInv, NEW h \in Handshakes, Receive(h)
  PROVE  CacheInv'
  <1> DEFINE u == look[h].url
             d == look[h].doc
             e == [at |-> now, doc |-> d]
  <1>1. /\ u \in Urls /\ d \in Docs /\ look[h].started \in Int /\ now \in 0 .. MaxTime
        /\ now <= look[h].started + FetchTimeout
        /\ ListedSince(d, look[h].started)
    BY InvByParts DEF Receive, LookRecords, LookOk
  <1>2. now - FetchTimeout \in Int /\ now - FetchTimeout <= look[h].started
       /\ now - (Ttl - 1) - FetchTimeout \in Int
       /\ now - (Ttl - 1) - FetchTimeout <= look[h].started
    BY <1>1, TimeAssumption, ClockAssumption
  <1>3. ListedSince(d, now - FetchTimeout) /\ ListedSince(d, now - (Ttl - 1) - FetchTimeout)
    BY <1>1, <1>2, ListedEarlier
  <1>4. e \in [at : -1 .. MaxTime, doc : Docs] /\ e.at = now /\ e.doc = d
    BY <1>1
  <1>5. cache' = [cache EXCEPT ![u] = e] /\ Use(h, d) /\ UNCHANGED <<now, issuer>>
    BY DEF Receive
  <1> HIDE DEF u, d, e
  <1>6. cache' \in [Urls -> [at : -1 .. MaxTime, doc : Docs]]
       /\ \A v \in Urls : cache'[v] = cache[v] \/ cache'[v] = e
    BY <1>4, <1>5, InvByParts
  <1>7. \A v \in Urls : cache'[v].at <= now /\ ListedSince(cache'[v].doc, cache'[v].at - FetchTimeout)
    BY <1>1, <1>3, <1>4, <1>6, InvByParts
  <1> QED
    BY <1>1, <1>3, <1>5, <1>6, <1>7, UseInv

LEMMA FetchFailsInv ==
  ASSUME CacheInv, NEW h \in Handshakes, FetchFails(h)
  PROVE  CacheInv'
  <1> DEFINE l == [Idle EXCEPT !.pc = "refused"]
  <1>1. l \in LookRecords /\ LookOk(l)
    BY IdleType DEF LookRecords, LookOk
  <1> HIDE DEF l
  <1> QED
    BY <1>1, LookStep DEF FetchFails, l

LEMMA NextCacheInv == CacheInv /\ [CacheNext]_cacheVars => CacheInv'
  <1> SUFFICES ASSUME CacheInv, [CacheNext]_cacheVars PROVE CacheInv'
    OBVIOUS
  <1>1. CASE UNCHANGED cacheVars
    BY <1>1 DEF cacheVars, CacheInv, CacheTypeOK, DocumentAges, WithdrawnKeysExpire, ListedSince
  <1>2. CASE Tick
    BY <1>2, TickInv
  <1>3. ASSUME NEW keep \in BOOLEAN, Rotate(keep) PROVE CacheInv'
    BY <1>3, RotateInv
  <1>4. ASSUME NEW h \in Handshakes, StartLookup(h) \/ Release(h), UNCHANGED <<now, issuer, cache>>
        PROVE  CacheInv'
    BY <1>4, StartLookupInv
  <1>5. ASSUME NEW h \in Handshakes, LookupStep(h) PROVE CacheInv'
    BY <1>5, ConsultInv, ReceiveInv, FetchFailsInv DEF LookupStep
  <1>6. ASSUME NEW h \in Handshakes, NEW ok \in BOOLEAN, IssuerAnswers(h, ok) PROVE CacheInv'
    BY <1>6, AnswerInv
  <1> QED
    BY <1>1, <1>2, <1>3, <1>4, <1>5, <1>6 DEF CacheNext

-----------------------------------------------------------------------------
\* fetch_json_cached, called by any number of threads: the ages of all documents
\* in the cache and under way stay bounded.
THEOREM CacheInvariance == CacheSpec => []CacheInv
  <1>1. CacheInit => CacheInv
    BY InitCacheInv
  <1>2. CacheInv /\ [CacheNext]_cacheVars => CacheInv'
    BY NextCacheInv
  <1> QED
    BY <1>1, <1>2, PTL DEF CacheSpec

\* The keys a handshake verifies a token with are those the issuer published less
\* than Ttl plus one fetch ago, whatever the interleaving of the fetches.
THEOREM WithdrawnKeysAreDropped == CacheSpec => []WithdrawnKeysExpire
  <1>1. CacheInv => WithdrawnKeysExpire
    BY DEF CacheInv
  <1> QED
    BY <1>1, CacheInvariance, PTL
=============================================================================
