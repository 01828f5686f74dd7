----------------------------- MODULE CertCache -----------------------------
(***************************************************************************)
(* How a client checks the signature of a SEV-SNP report:                  *)
(* verify_report_signature and fetch_cert_bytes_cached of relay-attest's   *)
(* sev_snp.rs.  The report does not say which product signed it, so the    *)
(* known products are tried in turn; for each, the signer's certificate is *)
(* taken from the evidence or from AMD's key service, and the product's    *)
(* chain from the key service.  Answers are cached in one process-wide map *)
(* whose mutex is not held while a certificate is fetched.  Unlike the key *)
(* cache of JwksCache, an entry is stamped with the time before its fetch. *)
(*                                                                         *)
(* A platform is [id, key, product, signer, embedded]: the chip the report *)
(* names, the key that signed it (the chip's own unless the report is      *)
(* self-made), its product, VCEK or VLEK, and whether the evidence carries *)
(* the certificate.                                                        *)
(***************************************************************************)
EXTENDS Clock, Sequences

CONSTANTS
  Products,     \* candidate_product_names, in order
  Platforms,    \* that reports come from
  KdsTtl,       \* KDS_CACHE_TTL
  KdsTimeout    \* the HTTP client's timeout, which covers head and body

ASSUME KdsAssumption ==
  /\ KdsTtl \in Nat /\ KdsTimeout \in Nat /\ KdsTimeout < KdsTtl
  /\ Products \in Seq(STRING) /\ Len(Products) > 0
  /\ Platforms \subseteq [id : STRING, key : STRING, product : STRING,
                          signer : {"vcek", "vlek", "none"}, embedded : BOOLEAN]

VARIABLES
  certCache,    \* cert_cache(): url -> [stamp, bytes]
  endorse       \* per handshake: the report and how far its check is

certVars == <<certCache, endorse>>

\* Bytes of a 2xx answer: a signer's certificate, a product's chain, or anything
\* else; and, as history, when the key service wrote them.
Bytes(what, signer, product, chip, at) ==
  [what |-> what, signer |-> signer, product |-> product, chip |-> chip, at |-> at]
Junk(at) == Bytes("junk", "none", "none", "none", at)
NoBytes == Junk(0)

\* vcek_url and cert_chain_url.
LeafUrl(product, p) == <<"leaf", product, p.id>>
ChainUrl(product, p) == <<"chain", product, p.signer>>
ProductSet == {Products[n] : n \in 1 .. Len(Products)}
CertUrls ==
  {LeafUrl(product, p) : product \in ProductSet, p \in Platforms} \cup
  {ChainUrl(product, p) : product \in ProductSet, p \in Platforms}

NoPlatform == [id |-> "none", key |-> "none", product |-> "none", signer |-> "none",
               embedded |-> FALSE]
NoCheck ==
  [pc |-> "idle", platform |-> NoPlatform, n |-> 1, stage |-> "leaf", started |-> 0,
   leaf |-> NoBytes, bytes |-> NoBytes]

CertInit ==
  /\ certCache = [u \in CertUrls |-> [stamp |-> -1, bytes |-> NoBytes]]
  /\ endorse = [h \in Handshakes |-> NoCheck]
-----------------------------------------------------------------------------
(* One round per product.                                                   *)

\* find_cert: the certificate the evidence carries is the named chip's.
EmbeddedLeaf(p) == Bytes("leaf", p.signer, p.product, p.id, 0)

\* The n-th product: which certificate is looked up first.  A VLEK certificate is
\* never fetched, and a report without a signer is refused outright.
Try(q, n) ==
  LET p == q.platform
      round == [NoCheck EXCEPT !.pc = "lookup", !.platform = p, !.n = n]
  IN  CASE n > Len(Products) \/ p.signer = "none" \/ (p.signer = "vlek" /\ ~p.embedded) ->
             [NoCheck EXCEPT !.pc = "refused"]
        [] n <= Len(Products) /\ p.signer # "none" /\ p.embedded ->
             [round EXCEPT !.stage = "chain", !.leaf = EmbeddedLeaf(p)]
        [] n <= Len(Products) /\ p.signer = "vcek" /\ ~p.embedded -> round

\* Slip: the chain reaches AMD's root, but nobody asks whose key signed the report.
EndorsesAnyReport(leaf, chain, p) ==
  /\ leaf.what = "leaf" /\ chain.what = "chain"
  /\ leaf.product = chain.product /\ leaf.signer = chain.signer

\* verify_vcek_chain to a pinned root, and the report's signature under the
\* certificate's key.
Endorses(leaf, chain, p) ==
  /\ leaf.what = "leaf" /\ chain.what = "chain"
  /\ leaf.product = chain.product /\ leaf.signer = chain.signer
  /\ leaf.chip = p.key

\* Bytes in hand: the chain is next, or the round is decided.
Take(q, bytes) ==
  CASE q.stage = "leaf" -> [q EXCEPT !.pc = "lookup", !.stage = "chain", !.started = 0,
                                     !.leaf = bytes, !.bytes = NoBytes]
    [] q.stage = "chain" /\ Endorses(q.leaf, bytes, q.platform) ->
         [q EXCEPT !.pc = "endorsed", !.started = 0, !.bytes = bytes]
    [] OTHER -> Try(q, q.n + 1)

CertUrl(q) ==
  IF q.stage = "leaf" THEN LeafUrl(Products[q.n], q.platform) ELSE ChainUrl(Products[q.n], q.platform)
-----------------------------------------------------------------------------
(* fetch_cert_bytes_cached.                                                 *)

\* now.duration_since(entry.fetched_at) < KDS_CACHE_TTL
CertFresh(u) == certCache[u].stamp >= 0 /\ now - certCache[u].stamp < KdsTtl

StartCheck(h, p) ==
  /\ endorse[h].pc = "idle"
  /\ endorse' = [endorse EXCEPT ![h] = Try([NoCheck EXCEPT !.platform = p], 1)]

\* The cache is consulted under its lock; on a miss the certificate is asked for.
ConsultCert(h) ==
  LET q == endorse[h] IN
  /\ q.pc = "lookup"
  /\ endorse' = [endorse EXCEPT ![h] =
       IF CertFresh(CertUrl(q))
         THEN Take(q, certCache[CertUrl(q)].bytes)
         ELSE [q EXCEPT !.pc = "asked", !.started = now]]
  /\ UNCHANGED <<now, certCache>>

\* What the key service has under a URL: every product's chain, and the
\* certificate of each of its chips that signs with a VCEK.
Kept(u, at) ==
  CASE u[1] = "chain" -> Bytes("chain", u[3], u[2], "none", at)
    [] u[1] = "leaf" /\ (\E p \in Platforms :
          p.id = u[3] /\ p.product = u[2] /\ p.signer = "vcek") ->
         Bytes("leaf", "vcek", u[2], u[3], at)
    [] OTHER -> Junk(at)

\* A server writes a 2xx answer: the key service its own, another one anything.
KdsAnswers(h, genuine) ==
  /\ endorse[h].pc = "asked"
  /\ endorse' = [endorse EXCEPT ![h].pc = "answered",
       ![h].bytes = IF genuine THEN Kept(CertUrl(endorse[h]), now) ELSE Junk(now)]
  /\ UNCHANGED <<now, certCache>>

\* Slip: the entry is stamped when it is made.
ReceiveCertStampsLate(h) ==
  LET q == endorse[h] IN
  /\ q.pc = "answered"
  /\ certCache' = [certCache EXCEPT ![CertUrl(q)] = [stamp |-> now, bytes |-> q.bytes]]
  /\ endorse' = [endorse EXCEPT ![h] = Take(q, q.bytes)]
  /\ UNCHANGED now

\* The answer goes into the cache, whatever it is, under the time its lookup
\* began, over an entry another thread may have made meanwhile.
ReceiveCert(h) ==
  LET q == endorse[h] IN
  /\ q.pc = "answered"
  /\ certCache' = [certCache EXCEPT ![CertUrl(q)] = [stamp |-> q.started, bytes |-> q.bytes]]
  /\ endorse' = [endorse EXCEPT ![h] = Take(q, q.bytes)]
  /\ UNCHANGED now

\* Slip: a failed fetch is tried again.
CertFetchFailsRetry(h) ==
  /\ endorse[h].pc \in {"asked", "answered"}
  /\ endorse' = [endorse EXCEPT ![h] = Try(@, @.n)]
  /\ UNCHANGED <<now, certCache>>

\* An HTTP error or the timeout ends the round, not the check.
CertFetchFails(h) ==
  /\ endorse[h].pc \in {"asked", "answered"}
  /\ endorse' = [endorse EXCEPT ![h] = Try(@, @.n + 1)]
  /\ UNCHANGED <<now, certCache>>

EndCheck(h) ==
  /\ endorse[h].pc \in {"endorsed", "refused"}
  /\ endorse' = [endorse EXCEPT ![h] = NoCheck]

CertsMayWait(h) ==
  /\ endorse[h].pc \notin {"lookup", "endorsed"}
  /\ endorse[h].pc \in {"asked", "answered"} => now < endorse[h].started + KdsTimeout
-----------------------------------------------------------------------------
CertStep(h) == ConsultCert(h) \/ ReceiveCert(h) \/ CertFetchFails(h)

\* The cache by itself: handshakes that check reports of any platform.
CertNext ==
  \/ Advance /\ (\A h \in Handshakes : CertsMayWait(h)) /\ UNCHANGED certVars
  \/ \E h \in Handshakes :
       \/ (\E p \in Platforms : StartCheck(h, p)) /\ UNCHANGED <<now, certCache>>
       \/ CertStep(h)
       \/ \E genuine \in BOOLEAN : KdsAnswers(h, genuine)
       \/ EndCheck(h) /\ UNCHANGED <<now, certCache>>

CertSpec == now = 0 /\ CertInit /\ [][CertNext]_<<now, certVars>>
-----------------------------------------------------------------------------
ProductNames == ProductSet \cup {p.product : p \in Platforms} \cup {"none"}
Chips == {p.id : p \in Platforms} \cup {"none"}
BytesSet ==
  [what : {"leaf", "chain", "junk"}, signer : {"vcek", "vlek", "none"},
   product : ProductNames, chip : Chips, at : 0 .. MaxTime]
Entries == [stamp : -1 .. MaxTime, bytes : BytesSet]
Checks ==
  [pc : {"idle", "lookup", "asked", "answered", "endorsed", "refused"},
   platform : Platforms \cup {NoPlatform}, n : 1 .. Len(Products), stage : {"leaf", "chain"},
   started : 0 .. MaxTime, leaf : BytesSet, bytes : BytesSet]

\* Every variable has its type.
CertTypeOK == certCache \in [CertUrls -> Entries] /\ endorse \in [Handshakes -> Checks]

\* An entry's bytes were written at or after its stamp.
EntryAges(e) == e.stamp >= 0 => e.stamp <= e.bytes.at /\ e.bytes.at <= now

\* Bytes on their way were written at or after the time their lookup began, and a
\* fetched certificate was younger than the lifetime when the chain was looked up.
CheckAges(q) ==
  LET fetched == q.stage = "chain" /\ ~q.platform.embedded IN
  /\ q.pc \in {"lookup", "asked", "answered"} => q.platform \in Platforms
  /\ q.pc = "lookup" /\ fetched => now - q.leaf.at < KdsTtl
  /\ q.pc \in {"asked", "answered"} =>
       /\ q.started <= now /\ now <= q.started + KdsTimeout
       /\ fetched => q.started - q.leaf.at < KdsTtl
  /\ q.pc = "answered" => q.started <= q.bytes.at /\ q.bytes.at <= now

\* What is known of bytes in the cache and on their way to it.
CertAges ==
  /\ \A u \in CertUrls : EntryAges(certCache[u])
  /\ \A h \in Handshakes : CheckAges(endorse[h])

EndorsedInTime(q) ==
  q.pc = "endorsed" =>
    /\ now - q.bytes.at < KdsTtl
    /\ ~q.platform.embedded => now - q.leaf.at < KdsTtl + KdsTimeout

\* fetch_cert_bytes_cached: whatever the cache hands out, wrong bytes included, was
\* written less than KDS_CACHE_TTL ago: a bad answer is forgotten in that time, and
\* a report is never endorsed by an older chain, nor by a fetched certificate older
\* than that and the fetch of its chain.
CertificatesExpire ==
  /\ \A u \in CertUrls : CertFresh(u) => now - certCache[u].bytes.at < KdsTtl
  /\ \A h \in Handshakes : EndorsedInTime(endorse[h])

\* The inductive invariant behind CertificatesExpire.
CertInv == now \in 0 .. MaxTime /\ CertTypeOK /\ CertAges /\ CertificatesExpire
=============================================================================
