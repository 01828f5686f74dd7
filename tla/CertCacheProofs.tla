-------------------------- MODULE CertCacheProofs --------------------------
(***************************************************************************)
(* For any number of handshakes, products, platforms and any lifetime:     *)
(* what the SEV-SNP certificate cache hands out is younger than            *)
(* KDS_CACHE_TTL.                                                          *)
(***************************************************************************)
EXTENDS CertCache, SequenceTheorems, TLAPS

\* Bounds and initial records have their types.
LEMMA Basics ==
  /\ MaxTime \in Nat /\ KdsTtl \in Nat /\ KdsTimeout \in Nat /\ KdsTimeout < KdsTtl
  /\ Len(Products) \in Nat /\ 1 \in 1 .. Len(Products)
  /\ NoBytes \in BytesSet /\ NoPlatform \in Platforms \cup {NoPlatform}
  /\ NoCheck \in Checks
<1>1. Len(Products) \in Nat /\ 1 \in 1 .. Len(Products)
  <2>1. Products \in Seq(STRING) /\ Len(Products) > 0 BY KdsAssumption
  <2>2. Len(Products) \in Nat BY <2>1, LenProperties
  <2> QED BY <2>1, <2>2
<1>2. NoBytes \in BytesSet
  BY ClockAssumption DEF NoBytes, Junk, Bytes, BytesSet, ProductNames, Chips
<1>3. NoCheck \in Checks
  BY <1>1, <1>2, ClockAssumption DEF NoCheck, Checks
<1> QED BY <1>1, <1>2, <1>3, ClockAssumption, KdsAssumption

\* A platform that a report comes from has its fields.
LEMMA PlatformType ==
  ASSUME NEW p \in Platforms \cup {NoPlatform}
  PROVE  /\ p.id \in Chips /\ p.product \in ProductNames /\ p.embedded \in BOOLEAN
         /\ p.signer \in {"vcek", "vlek", "none"}
<1>1. CASE p \in Platforms
  <2>1. p \in [id : STRING, key : STRING, product : STRING,
               signer : {"vcek", "vlek", "none"}, embedded : BOOLEAN]
    BY <1>1, KdsAssumption
  <2> QED BY <1>1, <2>1 DEF Chips, ProductNames
<1>2. CASE p = NoPlatform
  BY <1>2 DEF NoPlatform, Chips, ProductNames
<1> QED BY <1>1, <1>2

\* A round begins with a lookup that has fetched nothing yet, or is refused.
LEMMA TryAges ==
  ASSUME NEW q \in Checks, NEW n \in 1 .. Len(Products) + 1
  PROVE  Try(q, n) \in Checks /\ CheckAges(Try(q, n)) /\ EndorsedInTime(Try(q, n))
<1> DEFINE p == q.platform
           round == [NoCheck EXCEPT !.pc = "lookup", !.platform = p, !.n = n]
<1>0. p \in Platforms \cup {NoPlatform} BY DEF Checks
<1>1. CASE n > Len(Products) \/ p.signer = "none" \/ (p.signer = "vlek" /\ ~p.embedded)
  <2>1. Try(q, n) = [NoCheck EXCEPT !.pc = "refused"]
    BY <1>1, Basics DEF Try
  <2> QED BY <2>1, Basics DEF Checks, CheckAges, EndorsedInTime, NoCheck
<1>2. CASE n <= Len(Products) /\ p.signer # "none" /\ p.embedded
  <2>1. Try(q, n) = [round EXCEPT !.stage = "chain", !.leaf = EmbeddedLeaf(p)]
    BY <1>2, Basics DEF Try
  <2>2. EmbeddedLeaf(p) \in BytesSet
    BY <1>0, PlatformType, Basics DEF EmbeddedLeaf, Bytes, BytesSet
  <2>3. n \in 1 .. Len(Products) BY <1>2, Basics
  <2>4. p \in Platforms BY <1>0, <1>2 DEF NoPlatform
  <2> QED BY <1>2, <2>1, <2>2, <2>3, <2>4, Basics DEF Checks, CheckAges, EndorsedInTime, NoCheck
<1>3. CASE n <= Len(Products) /\ p.signer = "vcek" /\ ~p.embedded
  <2>1. Try(q, n) = round
    BY <1>3, Basics DEF Try
  <2>2. n \in 1 .. Len(Products) BY <1>3, Basics
  <2>4. p \in Platforms BY <1>0, <1>3 DEF NoPlatform
  <2> QED BY <1>3, <2>1, <2>2, <2>4, Basics DEF Checks, CheckAges, EndorsedInTime, NoCheck
<1>4. p.embedded \in BOOLEAN /\ p.signer \in {"vcek", "vlek", "none"}
  BY <1>0, PlatformType
<1>5. Len(Products) \in Nat BY Basics
<1> HIDE DEF p
<1> QED BY <1>1, <1>2, <1>3, <1>4, <1>5

\* Updates of a check that leave its platform and round alone.
LEMMA UpdateType ==
  ASSUME NEW q \in Checks, NEW b \in BytesSet, NEW t \in 0 .. MaxTime
  PROVE  /\ [q EXCEPT !.pc = "lookup", !.stage = "chain", !.started = 0,
                      !.leaf = b, !.bytes = NoBytes] \in Checks
         /\ [q EXCEPT !.pc = "endorsed", !.started = 0, !.bytes = b] \in Checks
         /\ [q EXCEPT !.pc = "asked", !.started = t] \in Checks
         /\ [q EXCEPT !.pc = "answered", !.bytes = b] \in Checks
<1>1. NoBytes \in BytesSet /\ 0 \in 0 .. MaxTime BY Basics
<1> QED BY <1>1 DEF Checks

\* Young bytes are taken: as a certificate, for the verdict, or for the next round.
LEMMA TakeAges ==
  ASSUME NEW q \in Checks, NEW b \in BytesSet, now \in 0 .. MaxTime,
         q.platform \in Platforms, now - b.at < KdsTtl,
         q.stage = "chain" /\ ~q.platform.embedded => now - q.leaf.at < KdsTtl + KdsTimeout
  PROVE  Take(q, b) \in Checks /\ CheckAges(Take(q, b)) /\ EndorsedInTime(Take(q, b))
<1>0. q.n + 1 \in 1 .. Len(Products) + 1 /\ q.stage \in {"leaf", "chain"}
  BY Basics DEF Checks
<1>1. CASE q.stage = "leaf"
  <2>1. Take(q, b) = [q EXCEPT !.pc = "lookup", !.stage = "chain", !.started = 0,
                               !.leaf = b, !.bytes = NoBytes]
    BY <1>1 DEF Take
  <2>2. Take(q, b) \in Checks BY <2>1, UpdateType
  <2>3. LET t == Take(q, b) IN t.pc = "lookup" /\ t.leaf = b /\ t.platform = q.platform
    BY <2>1 DEF Checks
  <2> HIDE DEF Checks
  <2> QED BY <2>2, <2>3 DEF CheckAges, EndorsedInTime
<1>2. CASE q.stage = "chain" /\ Endorses(q.leaf, b, q.platform)
  <2>1. Take(q, b) = [q EXCEPT !.pc = "endorsed", !.started = 0, !.bytes = b]
    BY <1>2 DEF Take
  <2>2. Take(q, b) \in Checks BY <2>1, UpdateType
  <2>3. LET t == Take(q, b) IN
        t.pc = "endorsed" /\ t.bytes = b /\ t.leaf = q.leaf /\ t.platform = q.platform
    BY <2>1 DEF Checks
  <2> QED BY <1>2, <2>2, <2>3 DEF CheckAges, EndorsedInTime
<1>3. CASE q.stage = "chain" /\ ~Endorses(q.leaf, b, q.platform)
  <2>1. Take(q, b) = Try(q, q.n + 1)
    BY <1>3 DEF Take
  <2> QED BY <1>0, <2>1, TryAges
<1> QED BY <1>0, <1>1, <1>2, <1>3

\* The URL a thread looks up is one of the cache's.
LEMMA UrlType ==
  ASSUME NEW q \in Checks, q.platform \in Platforms PROVE CertUrl(q) \in CertUrls
<1>1. Products[q.n] \in ProductSet BY DEF Checks, ProductSet
<1> QED BY <1>1 DEF CertUrl, CertUrls

\* A step of one handshake that leaves time alone keeps the others.
LEMMA OneHandshake ==
  ASSUME CertInv, UNCHANGED now, NEW h \in Handshakes, NEW q \in Checks,
         CheckAges(q), EndorsedInTime(q), endorse' = [endorse EXCEPT ![h] = q]
  PROVE  /\ endorse' \in [Handshakes -> Checks]
         /\ \A g \in Handshakes : CheckAges(endorse[g])' /\ EndorsedInTime(endorse[g])'
<1> USE DEF CertInv, CertTypeOK
<1>1. endorse' \in [Handshakes -> Checks] OBVIOUS
<1>2. ASSUME NEW g \in Handshakes PROVE CheckAges(endorse[g])' /\ EndorsedInTime(endorse[g])'
  <2>1. endorse'[g] = IF g = h THEN q ELSE endorse[g] OBVIOUS
  <2>2. CheckAges(endorse[g]) /\ EndorsedInTime(endorse[g])
    BY DEF CertAges, CertificatesExpire
  <2> QED BY <2>1, <2>2 DEF CheckAges, EndorsedInTime
<1> QED BY <1>1, <1>2

LEMMA InitCertInv == now = 0 /\ CertInit => CertInv
<1> SUFFICES ASSUME now = 0, CertInit PROVE CertInv OBVIOUS
<1>1. certCache \in [CertUrls -> Entries] /\ \A u \in CertUrls : certCache[u].stamp = -1
  BY Basics DEF CertInit, Entries
<1>2. endorse \in [Handshakes -> Checks] /\ \A h \in Handshakes : endorse[h].pc = "idle"
  BY Basics DEF CertInit, NoCheck
<1>3. CertTypeOK /\ CertAges
  BY <1>1, <1>2 DEF CertTypeOK, CertAges, EntryAges, CheckAges
<1>4. CertificatesExpire
  BY <1>1, <1>2 DEF CertificatesExpire, CertFresh, EndorsedInTime
<1> QED BY <1>3, <1>4, Basics DEF CertInv

\* The invariant holds after a step of one handshake that leaves the cache alone.
LEMMA CacheKept ==
  ASSUME CertInv, UNCHANGED <<now, certCache>>, NEW h \in Handshakes, NEW q \in Checks,
         CheckAges(q), EndorsedInTime(q), endorse' = [endorse EXCEPT ![h] = q]
  PROVE  CertInv'
<1>1. /\ endorse' \in [Handshakes -> Checks]
      /\ \A g \in Handshakes : CheckAges(endorse[g])' /\ EndorsedInTime(endorse[g])'
  BY OneHandshake
<1>2. \A u \in CertUrls : EntryAges(certCache[u])'
  BY DEF CertInv, CertAges, EntryAges
<1>3. \A u \in CertUrls : CertFresh(u)' => (now - certCache[u].bytes.at < KdsTtl)'
  BY DEF CertInv, CertificatesExpire, CertFresh
<1> QED
  BY <1>1, <1>2, <1>3 DEF CertInv, CertTypeOK, CertAges, CertificatesExpire

\* A handshake that is in the middle of a check, and what the invariant says of it.
LEMMA Current ==
  ASSUME CertInv, NEW h \in Handshakes
  PROVE  /\ endorse[h] \in Checks /\ CheckAges(endorse[h]) /\ EndorsedInTime(endorse[h])
         /\ now \in 0 .. MaxTime /\ endorse[h].n + 1 \in 1 .. Len(Products) + 1
         /\ endorse[h].n \in 1 .. Len(Products)
<1>1. endorse[h] \in Checks BY DEF CertInv, CertTypeOK
<1>2. endorse[h].n \in 1 .. Len(Products) BY <1>1 DEF Checks
<1> QED BY <1>1, <1>2, Basics DEF CertInv, CertAges, CertificatesExpire

LEMMA StartKeeps ==
  ASSUME CertInv, NEW h \in Handshakes, NEW p \in Platforms, StartCheck(h, p),
         UNCHANGED <<now, certCache>>
  PROVE  CertInv'
<1> DEFINE q == [NoCheck EXCEPT !.platform = p]
<1>1. q \in Checks BY Basics DEF Checks
<1>2. 1 \in 1 .. Len(Products) + 1 BY Basics
<1>3. Try(q, 1) \in Checks /\ CheckAges(Try(q, 1)) /\ EndorsedInTime(Try(q, 1))
  BY <1>1, <1>2, TryAges
<1>4. endorse' = [endorse EXCEPT ![h] = Try(q, 1)] BY DEF StartCheck
<1> QED BY <1>3, <1>4, CacheKept

LEMMA FailKeeps ==
  ASSUME CertInv, NEW h \in Handshakes, CertFetchFails(h)
  PROVE  CertInv'
<1> DEFINE t == Try(endorse[h], endorse[h].n + 1)
<1>1. t \in Checks /\ CheckAges(t) /\ EndorsedInTime(t)
  BY Current, TryAges
<1>2. endorse' = [endorse EXCEPT ![h] = t] /\ UNCHANGED <<now, certCache>>
  BY DEF CertFetchFails
<1> QED BY <1>1, <1>2, CacheKept

LEMMA EndKeeps ==
  ASSUME CertInv, NEW h \in Handshakes, EndCheck(h), UNCHANGED <<now, certCache>>
  PROVE  CertInv'
<1>1. NoCheck \in Checks /\ CheckAges(NoCheck) /\ EndorsedInTime(NoCheck)
  BY Basics DEF NoCheck, CheckAges, EndorsedInTime
<1>2. endorse' = [endorse EXCEPT ![h] = NoCheck] BY DEF EndCheck
<1> QED BY <1>1, <1>2, CacheKept

\* Only a fresh entry is used, and it was written after its stamp.
LEMMA FreshIsYoung ==
  ASSUME CertInv, NEW u \in CertUrls
  PROVE  /\ certCache[u].bytes \in BytesSet
         /\ CertFresh(u) => now - certCache[u].bytes.at < KdsTtl
BY DEF CertInv, CertTypeOK, CertificatesExpire, Entries

LEMMA ConsultKeeps ==
  ASSUME CertInv, NEW h \in Handshakes, ConsultCert(h)
  PROVE  CertInv'
<1> DEFINE q == endorse[h]
           fetched == q.stage = "chain" /\ ~q.platform.embedded
<1>1. q \in Checks /\ CheckAges(q) /\ now \in 0 .. MaxTime
  BY Current
<1>2. q.pc = "lookup" /\ UNCHANGED <<now, certCache>> BY DEF ConsultCert
<1>3. q.platform \in Platforms /\ (fetched => now - q.leaf.at < KdsTtl)
  BY <1>1, <1>2 DEF CheckAges
<1>4. CertUrl(q) \in CertUrls BY <1>1, <1>3, UrlType
<1>5. CASE CertFresh(CertUrl(q))
  <2> DEFINE b == certCache[CertUrl(q)].bytes
  <2>1. b \in BytesSet /\ now - b.at < KdsTtl BY <1>4, <1>5, FreshIsYoung
  <2>2. fetched => now - q.leaf.at < KdsTtl + KdsTimeout
    <3>1. q.leaf.at \in 0 .. MaxTime BY <1>1 DEF Checks, BytesSet
    <3> QED BY <1>1, <1>3, <3>1, Basics
  <2>3. Take(q, b) \in Checks /\ CheckAges(Take(q, b)) /\ EndorsedInTime(Take(q, b))
    BY <1>1, <1>3, <2>1, <2>2, TakeAges
  <2>4. endorse' = [endorse EXCEPT ![h] = Take(q, b)]
    BY <1>5 DEF ConsultCert
  <2> QED BY <1>2, <2>3, <2>4, CacheKept
<1>6. CASE ~CertFresh(CertUrl(q))
  <2> DEFINE t == [q EXCEPT !.pc = "asked", !.started = now]
  <2>1. NoBytes \in BytesSet BY Basics
  <2>2. t \in Checks BY <1>1, <2>1, UpdateType
  <2>3. t.pc = "asked" /\ t.started = now /\ t.platform = q.platform
        /\ t.stage = q.stage /\ t.leaf = q.leaf
    BY <1>1 DEF Checks
  <2>4. CheckAges(t) /\ EndorsedInTime(t)
    <3> HIDE DEF t
    <3> QED BY <1>1, <1>3, <2>3, Basics DEF CheckAges, EndorsedInTime
  <2>5. endorse' = [endorse EXCEPT ![h] = t]
    BY <1>6 DEF ConsultCert
  <2> QED BY <1>2, <2>2, <2>4, <2>5, CacheKept
<1> QED BY <1>5, <1>6

\* What a server writes is bytes, of the time it writes them.
LEMMA KeptType ==
  ASSUME NEW u \in CertUrls, NEW t \in 0 .. MaxTime
  PROVE  Kept(u, t) \in BytesSet /\ Kept(u, t).at = t /\ Junk(t) \in BytesSet /\ Junk(t).at = t
<1>1. Junk(t) \in BytesSet /\ Junk(t).at = t
  BY DEF Junk, Bytes, BytesSet, ProductNames, Chips
<1>2. CASE \E product \in ProductSet, p \in Platforms : u = ChainUrl(product, p)
  <2>1. PICK product \in ProductSet, p \in Platforms : u = ChainUrl(product, p) BY <1>2
  <2>2. Kept(u, t) = Bytes("chain", p.signer, product, "none", t)
    BY <2>1 DEF Kept, ChainUrl
  <2>3. p.signer \in {"vcek", "vlek", "none"} BY PlatformType
  <2> QED BY <1>1, <2>2, <2>3 DEF Bytes, BytesSet, ProductNames, Chips
<1>3. CASE \E product \in ProductSet, p \in Platforms : u = LeafUrl(product, p)
  <2>1. PICK product \in ProductSet, p \in Platforms : u = LeafUrl(product, p) BY <1>3
  <2>2. Kept(u, t) = Bytes("leaf", "vcek", product, p.id, t) \/ Kept(u, t) = Junk(t)
    BY <2>1 DEF Kept, LeafUrl
  <2>3. p.id \in Chips BY PlatformType
  <2> QED BY <1>1, <2>2, <2>3 DEF Bytes, BytesSet, ProductNames
<1> QED BY <1>1, <1>2, <1>3 DEF CertUrls

LEMMA AnswerKeeps ==
  ASSUME CertInv, NEW h \in Handshakes, NEW genuine \in BOOLEAN, KdsAnswers(h, genuine)
  PROVE  CertInv'
<1> DEFINE q == endorse[h]
           b == IF genuine THEN Kept(CertUrl(q), now) ELSE Junk(now)
           t == [q EXCEPT !.pc = "answered", !.bytes = b]
<1>1. q \in Checks /\ CheckAges(q) /\ now \in 0 .. MaxTime /\ q.pc = "asked"
  BY Current DEF KdsAnswers
<1>2. CertUrl(q) \in CertUrls BY <1>1, UrlType DEF CheckAges
<1>3. b \in BytesSet /\ b.at = now BY <1>1, <1>2, KeptType
<1> HIDE DEF b
<1>4. t \in Checks BY <1>1, <1>3, UpdateType
<1>5. t.pc = "answered" /\ t.bytes = b /\ t.started = q.started /\ t.platform = q.platform
      /\ t.stage = q.stage /\ t.leaf = q.leaf /\ q.started \in 0 .. MaxTime
  BY <1>1 DEF Checks
<1>6. endorse' = [endorse EXCEPT ![h] = t] /\ UNCHANGED <<now, certCache>>
  BY <1>1 DEF KdsAnswers, CertInv, CertTypeOK, Checks, b
<1> HIDE DEF t
<1>7. CheckAges(t) /\ EndorsedInTime(t)
  BY <1>1, <1>3, <1>5 DEF CheckAges, EndorsedInTime
<1> QED BY <1>4, <1>6, <1>7, CacheKept

\* Bytes written after their lookup began, within the timeout, are young; so is a
\* certificate that was young when the lookup began.
LEMMA YoungOnArrival ==
  ASSUME NEW n \in Nat, NEW started \in Nat, NEW at \in Nat, NEW leaf \in Nat,
         started <= at, n <= started + KdsTimeout
  PROVE  n - at < KdsTtl /\ (started - leaf < KdsTtl => n - leaf < KdsTtl + KdsTimeout)
<1>1. KdsTtl \in Nat /\ KdsTimeout \in Nat /\ KdsTimeout < KdsTtl BY KdsAssumption
<1> QED BY <1>1

LEMMA ReceiveKeeps ==
  ASSUME CertInv, NEW h \in Handshakes, ReceiveCert(h)
  PROVE  CertInv'
<1> DEFINE q == endorse[h]
           entry == [stamp |-> q.started, bytes |-> q.bytes]
<1>1. q \in Checks /\ CheckAges(q) /\ now \in 0 .. MaxTime /\ q.pc = "answered" /\ now' = now
  BY Current DEF ReceiveCert
<1>2. q.started \in 0 .. MaxTime /\ q.bytes \in BytesSet /\ q.leaf \in BytesSet
  BY <1>1 DEF Checks
<1>3. q.bytes.at \in 0 .. MaxTime /\ q.leaf.at \in 0 .. MaxTime
  BY <1>2 DEF BytesSet
<1>4. /\ q.platform \in Platforms
      /\ q.started <= q.bytes.at /\ q.bytes.at <= now /\ now <= q.started + KdsTimeout
      /\ q.stage = "chain" /\ ~q.platform.embedded => q.started - q.leaf.at < KdsTtl
  BY <1>1 DEF CheckAges
<1>5. /\ now - q.bytes.at < KdsTtl
      /\ q.stage = "chain" /\ ~q.platform.embedded => now - q.leaf.at < KdsTtl + KdsTimeout
  <2>1. now \in Nat /\ q.started \in Nat /\ q.bytes.at \in Nat /\ q.leaf.at \in Nat
    BY <1>1, <1>2, <1>3, ClockAssumption
  <2> QED BY <1>4, <2>1, YoungOnArrival
<1>6. LET t == Take(q, q.bytes) IN t \in Checks /\ CheckAges(t) /\ EndorsedInTime(t)
  BY <1>1, <1>2, <1>4, <1>5, TakeAges
<1>7. /\ endorse' = [endorse EXCEPT ![h] = Take(q, q.bytes)]
      /\ certCache' = [certCache EXCEPT ![CertUrl(q)] = entry]
  BY DEF ReceiveCert
<1>8. /\ endorse' \in [Handshakes -> Checks]
      /\ \A g \in Handshakes : CheckAges(endorse[g])' /\ EndorsedInTime(endorse[g])'
  BY <1>1, <1>6, <1>7, OneHandshake
<1>9. entry \in Entries /\ entry.bytes = q.bytes /\ entry.stamp = q.started
  <2>1. q.started \in -1 .. MaxTime BY <1>2, Basics
  <2> QED BY <1>2, <2>1 DEF Entries
<1> HIDE DEF entry
<1>10. certCache' \in [CertUrls -> Entries]
       /\ \A u \in CertUrls : certCache'[u] = entry \/ certCache'[u] = certCache[u]
  BY <1>7, <1>9 DEF CertInv, CertTypeOK
<1>11. ASSUME NEW u \in CertUrls
       PROVE  EntryAges(certCache[u])' /\ (CertFresh(u)' => (now - certCache[u].bytes.at < KdsTtl)')
  <2>1. CASE certCache'[u] = entry
    BY <1>1, <1>4, <1>5, <1>9, <2>1 DEF EntryAges, CertFresh
  <2>2. CASE certCache'[u] = certCache[u]
    <3>1. EntryAges(certCache[u]) /\ (CertFresh(u) => now - certCache[u].bytes.at < KdsTtl)
      BY DEF CertInv, CertAges, CertificatesExpire
    <3> QED BY <1>1, <2>2, <3>1 DEF EntryAges, CertFresh
  <2> QED BY <1>10, <2>1, <2>2
<1> QED
  BY <1>1, <1>8, <1>10, <1>11 DEF CertInv, CertTypeOK, CertAges, CertificatesExpire

\* Time passes only while every check waits for an answer and its timeout is not over.
LEMMA AdvanceKeeps ==
  ASSUME CertInv, Advance, \A h \in Handshakes : CertsMayWait(h), UNCHANGED certVars
  PROVE  CertInv'
<1>1. now \in 0 .. MaxTime /\ now' = now + 1 /\ now' \in 0 .. MaxTime
      /\ certCache' = certCache /\ endorse' = endorse
  BY Basics DEF CertInv, Advance, certVars
<1>2. ASSUME NEW u \in CertUrls
      PROVE  EntryAges(certCache[u])' /\ (CertFresh(u)' => (now - certCache[u].bytes.at < KdsTtl)')
  <2>1. certCache[u].stamp \in -1 .. MaxTime /\ certCache[u].bytes \in BytesSet
    BY DEF CertInv, CertTypeOK, Entries
  <2>2. certCache[u].bytes.at \in 0 .. MaxTime BY <2>1 DEF BytesSet
  <2>3. EntryAges(certCache[u]) BY DEF CertInv, CertAges
  <2> QED BY <1>1, <2>1, <2>2, <2>3, Basics, SMTT(30) DEF EntryAges, CertFresh
<1>3. ASSUME NEW h \in Handshakes
      PROVE  CheckAges(endorse[h])' /\ EndorsedInTime(endorse[h])'
  <2>1. endorse[h].pc \notin {"lookup", "endorsed"}
        /\ (endorse[h].pc \in {"asked", "answered"} => now < endorse[h].started + KdsTimeout)
    BY DEF CertsMayWait
  <2>2. endorse[h] \in Checks /\ CheckAges(endorse[h]) BY Current
  <2>3. endorse[h].started \in 0 .. MaxTime /\ endorse[h].bytes \in BytesSet
    BY <2>2 DEF Checks
  <2>4. endorse[h].bytes.at \in 0 .. MaxTime BY <2>3 DEF BytesSet
  <2>5. CheckAges(endorse[h])'
    BY <1>1, <2>1, <2>2, <2>3, <2>4, Basics DEF CheckAges
  <2> QED BY <1>1, <2>1, <2>5 DEF EndorsedInTime
<1>4. CertTypeOK' BY <1>1 DEF CertInv, CertTypeOK
<1> QED
  BY <1>1, <1>2, <1>3, <1>4 DEF CertInv, CertAges, CertificatesExpire

LEMMA StutterKeeps == CertInv /\ UNCHANGED <<now, certVars>> => CertInv'
<1> SUFFICES ASSUME CertInv, UNCHANGED <<now, certVars>> PROVE CertInv' OBVIOUS
<1>1. now' = now /\ certCache' = certCache /\ endorse' = endorse BY DEF certVars
<1>2. \A u \in CertUrls :
        EntryAges(certCache[u])' /\ (CertFresh(u)' => (now - certCache[u].bytes.at < KdsTtl)')
  BY <1>1 DEF CertInv, CertAges, CertificatesExpire, EntryAges, CertFresh
<1>3. ASSUME NEW h \in Handshakes
      PROVE  CheckAges(endorse[h])' /\ EndorsedInTime(endorse[h])'
  <2>1. CheckAges(endorse[h]) /\ EndorsedInTime(endorse[h]) BY Current
  <2> QED BY <1>1, <2>1 DEF CheckAges, EndorsedInTime
<1>4. CertTypeOK' /\ (now \in 0 .. MaxTime)' BY <1>1 DEF CertInv, CertTypeOK
<1> QED BY <1>2, <1>3, <1>4 DEF CertInv, CertAges, CertificatesExpire

LEMMA StepKeeps == CertInv /\ CertNext => CertInv'
<1> SUFFICES ASSUME CertInv, CertNext PROVE CertInv' OBVIOUS
<1>1. CASE Advance /\ (\A h \in Handshakes : CertsMayWait(h)) /\ UNCHANGED certVars
  BY <1>1, AdvanceKeeps
<1>2. ASSUME NEW h \in Handshakes, NEW p \in Platforms, StartCheck(h, p), UNCHANGED <<now, certCache>>
      PROVE  CertInv'
  BY <1>2, StartKeeps
<1>3. ASSUME NEW h \in Handshakes, CertStep(h) PROVE CertInv'
  BY <1>3, ConsultKeeps, ReceiveKeeps, FailKeeps DEF CertStep
<1>4. ASSUME NEW h \in Handshakes, NEW genuine \in BOOLEAN, KdsAnswers(h, genuine) PROVE CertInv'
  BY <1>4, AnswerKeeps
<1>5. ASSUME NEW h \in Handshakes, EndCheck(h), UNCHANGED <<now, certCache>> PROVE CertInv'
  BY <1>5, EndKeeps
<1> QED BY <1>1, <1>2, <1>3, <1>4, <1>5 DEF CertNext

\* CertInv is an invariant of the certificate cache: the ages of entries and of
\* answers on their way (fetch_cert_bytes_cached stamps before it fetches).
THEOREM CertInvariant == CertSpec => []CertInv
<1>1. CertInv /\ [CertNext]_<<now, certVars>> => CertInv' BY StepKeeps, StutterKeeps
<1> QED BY InitCertInv, <1>1, PTL DEF CertSpec

\* fetch_cert_bytes_cached, for any number of handshakes, products and platforms and
\* any lifetime longer than the fetch timeout: nothing older than KDS_CACHE_TTL is
\* handed out, and no report is endorsed by an older chain.
THEOREM CertificatesStayYoung == CertSpec => []CertificatesExpire
<1>1. CertInv => CertificatesExpire BY DEF CertInv
<1> QED BY CertInvariant, <1>1, PTL
=============================================================================
