------------------------- MODULE RelayRoutingProofs -------------------------
(***************************************************************************)
(* What RelayRouting promises for every configuration an operator may      *)
(* write: any number of routes, prefixes of any length, any allowlist and  *)
(* any pin table.  The lemmas of the first half say what the operators of  *)
(* RelayConfig compute; the second half is the invariance of RoutingInv.   *)
(***************************************************************************)
EXTENDS RelayRouting, TLAPS, FiniteSetTheorems, WellFoundedInduction, NaturalsInduction

-----------------------------------------------------------------------------
(* Finite sets: least elements, greatest elements, sorted enumerations.     *)

\* A non-empty set of natural numbers has a least element.
LEMMA LeastNatural ==
  ASSUME NEW T, T \subseteq Nat, T # {}
  PROVE  \E n \in T : \A m \in T : n <= m
  <1>1. IsWellFoundedOn(OpToRel(<, Nat), Nat)
    BY NatLessThanWellFounded
  <1>2. PICK n \in T : \A m \in T : ~(<<m, n>> \in OpToRel(<, Nat))
    BY <1>1, WFMin
  <1>3. \A m \in T : ~(m < n)
    BY <1>2 DEF OpToRel
  <1> QED
    BY <1>3

\* Some member of a non-empty finite set has the greatest measure: of the subsets
\* without one, a smallest would lose it by giving up a single member.
LEMMA GreatestMeasure ==
  ASSUME NEW S, IsFiniteSet(S), S # {}, NEW f \in [S -> Nat]
  PROVE  \E x \in S : \A y \in S : f[y] <= f[x]
  <1> DEFINE Good(T) == \E x \in T : \A y \in T : f[y] <= f[x]
             Bad == {T \in SUBSET S : T # {} /\ ~Good(T)}
             Sizes == {Cardinality(T) : T \in Bad}
  <1>1. \A T \in SUBSET S : IsFiniteSet(T) /\ Cardinality(T) \in Nat
    BY FS_Subset, FS_CardinalityType
  <1>2. SUFFICES ASSUME ~Good(S) PROVE FALSE
    OBVIOUS
  <1>3. Sizes \subseteq Nat /\ Sizes # {}
    BY <1>1, <1>2
  <1>4. PICK n \in Sizes : \A m \in Sizes : n <= m
    BY <1>3, LeastNatural
  <1>5. PICK T \in Bad : n = Cardinality(T)
    BY <1>4
  <1>6. PICK x \in T : TRUE
    BY <1>5
  <1> DEFINE U == T \ {x}
  <1>7. Cardinality(U) = n - 1 /\ n \in Nat
    BY <1>1, <1>5, <1>6, FS_RemoveElement
  <1>8. U \notin Bad
    <2>1. U \in Bad => Cardinality(U) \in Sizes
      OBVIOUS
    <2> QED
      BY <2>1, <1>4, <1>7, SMTT(30)
  <1>9. CASE U = {}
    <2>1. T = {x}
      BY <1>6, <1>9
    <2>2. f[x] \in Nat
      BY <1>5, <1>6
    <2> QED
      BY <2>1, <2>2, <1>5
  <1>10. CASE Good(U)
    <2>1. PICK z \in U : \A y \in U : f[y] <= f[z]
      BY <1>10
    <2>2. f[x] \in Nat /\ f[z] \in Nat /\ \A y \in T : f[y] \in Nat
      BY <1>5, <1>6, <2>1
    <2>3. CASE f[x] <= f[z]
      BY <1>5, <1>6, <2>1, <2>2, <2>3
    <2>4. CASE f[z] < f[x]
      <3>1. \A y \in T : f[y] <= f[x]
        BY <2>1, <2>2, <2>4
      <3> QED
        BY <3>1, <1>5, <1>6
    <2> QED
      BY <2>2, <2>3, <2>4
  <1> QED
    BY <1>5, <1>8, <1>9, <1>10

\* SetToSeqs: the sequences that name every member of a finite set once.
LEMMA Enumerations ==
  ASSUME NEW S, IsFiniteSet(S), NEW s \in SetToSeqs(S)
  PROVE  /\ Cardinality(S) \in Nat
         /\ s \in [1 .. Cardinality(S) -> S]
         /\ \A x \in S : \E i \in 1 .. Cardinality(S) : s[i] = x
  <1> DEFINE D == 1 .. Cardinality(S)
  <1>1. Cardinality(S) \in Nat
    BY FS_CardinalityType
  <1>2. s \in [D -> S] /\ \A i, j \in D : i # j => s[i] # s[j]
    BY DEF SetToSeqs
  <1>3. s \in Injection(D, S)
    BY <1>2 DEF Injection, IsInjective
  <1>4. Cardinality(D) = Cardinality(S)
    BY <1>1, FS_Interval
  <1>5. s \in Surjection(D, S)
    BY <1>3, <1>4, FS_Injection
  <1> QED
    BY <1>1, <1>2, <1>5 DEF Surjection

\* A finite set of sequences can be sorted by descending length: a smallest set that
\* cannot would be sorted without one of its shortest members, which may be put last.
LEMMA SortExists ==
  ASSUME NEW S, IsFiniteSet(S), \A p \in S : Len(p) \in Nat
  PROVE  \E s \in SetToSeqs(S) : \A i, j \in DOMAIN s : i < j => Len(s[i]) >= Len(s[j])
  <1> DEFINE Good(T) == \E s \in SetToSeqs(T) :
                          \A i, j \in DOMAIN s : i < j => Len(s[i]) >= Len(s[j])
             Bad == {T \in SUBSET S : ~Good(T)}
             Sizes == {Cardinality(T) : T \in Bad}
  <1>1. \A T \in SUBSET S : IsFiniteSet(T) /\ Cardinality(T) \in Nat
    BY FS_Subset, FS_CardinalityType
  <1>2. SUFFICES ASSUME ~Good(S) PROVE FALSE
    OBVIOUS
  <1>3. Sizes \subseteq Nat /\ Sizes # {}
    BY <1>1, <1>2
  <1>4. PICK n \in Sizes : \A m \in Sizes : n <= m
    BY <1>3, LeastNatural
  <1>5. PICK T \in Bad : n = Cardinality(T)
    BY <1>4
  <1>6. T # {}
    <2>1. Cardinality({}) = 0
      BY FS_EmptySet
    <2>2. <<>> \in [1 .. 0 -> {}] /\ DOMAIN <<>> = {}
      OBVIOUS
    <2>3. <<>> \in SetToSeqs({})
      BY <2>1, <2>2 DEF SetToSeqs
    <2>4. Good({})
      BY <2>2, <2>3
    <2> QED
      BY <1>5, <2>4
  <1>7. PICK x \in T : \A y \in T : Len(x) <= Len(y)
    <2> DEFINE Lens == {Len(p) : p \in T}
    <2>1. Lens \subseteq Nat /\ Lens # {}
      BY <1>5, <1>6
    <2>2. PICK l \in Lens : \A m \in Lens : l <= m
      BY <2>1, LeastNatural
    <2> QED
      BY <2>2
  <1> DEFINE U == T \ {x}
  <1>8. Cardinality(U) = n - 1 /\ n \in Nat /\ n - 1 \in Nat
    <2>1. U \in SUBSET S /\ T \in SUBSET S
      BY <1>5
    <2>2. Cardinality(U) = Cardinality(T) - 1
      BY <1>1, <1>7, <2>1, FS_RemoveElement
    <2> QED
      BY <1>1, <1>5, <2>1, <2>2
  <1>9. Good(U)
    <2>1. U \in SUBSET S
      BY <1>5
    <2>2. U \in Bad => Cardinality(U) \in Sizes
      OBVIOUS
    <2> QED
      BY <2>1, <2>2, <1>4, <1>8
  <1>10. PICK u \in SetToSeqs(U) : \A i, j \in DOMAIN u : i < j => Len(u[i]) >= Len(u[j])
    BY <1>9
  <1>11. u \in [1 .. n - 1 -> U] /\ \A i, j \in 1 .. n - 1 : i # j => u[i] # u[j]
    BY <1>8, <1>10 DEF SetToSeqs
  <1> DEFINE s == [i \in 1 .. n |-> IF i = n THEN x ELSE u[i]]
  <1>12. /\ s \in [1 .. n -> T]
         /\ \A i \in 1 .. n - 1 : s[i] = u[i] /\ u[i] \in T /\ u[i] # x
         /\ s[n] = x
         /\ \A i \in 1 .. n : i \in 1 .. n - 1 \/ i = n
    <2>1. \A i \in 1 .. n : i \in 1 .. n - 1 \/ i = n
      BY <1>8
    <2>2. \A i \in 1 .. n - 1 : u[i] \in T /\ u[i] # x /\ i \in 1 .. n /\ i # n
      BY <1>8, <1>11
    <2>3. n \in 1 .. n
      BY <1>8
    <2> QED
      BY <2>1, <2>2, <2>3, <1>7
  <1> HIDE DEF s
  <1>13. s \in SetToSeqs(T)
    <2>1. ASSUME NEW i \in 1 .. n, NEW j \in 1 .. n, i # j PROVE s[i] # s[j]
      BY <1>11, <1>12, <2>1
    <2> QED
      BY <1>5, <1>12, <2>1 DEF SetToSeqs
  <1>14. ASSUME NEW i \in DOMAIN s, NEW j \in DOMAIN s, i < j PROVE Len(s[i]) >= Len(s[j])
    <2>1. i \in 1 .. n /\ j \in 1 .. n /\ i \in 1 .. n - 1
      BY <1>8, <1>12, <1>14
    <2>2. CASE j = n
      <3>1. s[i] \in T /\ s[j] = x
        BY <1>12, <2>1, <2>2
      <3>2. Len(s[i]) \in Nat /\ Len(s[j]) \in Nat
        BY <1>5, <1>7, <3>1
      <3> QED
        BY <1>7, <3>1, <3>2
    <2>3. CASE j \in 1 .. n - 1
      BY <1>10, <1>11, <1>12, <1>14, <2>1, <2>3
    <2> QED
      BY <1>12, <2>1, <2>2, <2>3
  <1>15. Good(T)
    BY <1>13, <1>14
  <1> QED
    BY <1>5, <1>15

-----------------------------------------------------------------------------
(* RelayConfig's operators.                                                 *)

\* The sort of resolve_upstream names every prefix, none after a shorter one.
LEMMA SortedRoutesLemma ==
  ASSUME NEW c \in Configs, NEW s, s = SortedRoutes(c)
  PROVE  /\ Len(s) \in Nat /\ DOMAIN s = 1 .. Len(s)
         /\ \A i \in 1 .. Len(s) : s[i] \in DOMAIN c.routes
         /\ \A p \in DOMAIN c.routes : \E i \in 1 .. Len(s) : s[i] = p
         /\ \A i, j \in 1 .. Len(s) : i < j => Len(s[i]) >= Len(s[j])
  <1> DEFINE S == DOMAIN c.routes
             Sorted(t) == \A i, j \in DOMAIN t : i < j => Len(t[i]) >= Len(t[j])
  <1>1. IsFiniteSet(S) /\ \A p \in S : Len(p) \in Nat
    <2>1. \A p \in S : p \in Seq(Range(p))
      BY ConfigsAssumption
    <2>2. \A p : p \in Seq(Range(p)) => Len(p) \in Nat
      OBVIOUS
    <2> QED
      BY <2>1, <2>2, ConfigsAssumption
  <1>2. \E t \in SetToSeqs(S) : Sorted(t)
    BY <1>1, SortExists
  <1>3. s \in SetToSeqs(S) /\ Sorted(s)
    BY <1>2 DEF SortedRoutes
  <1>4. /\ Cardinality(S) \in Nat
        /\ s \in [1 .. Cardinality(S) -> S]
        /\ \A x \in S : \E i \in 1 .. Cardinality(S) : s[i] = x
    BY <1>1, <1>3, Enumerations
  <1>5. Len(s) = Cardinality(S) /\ DOMAIN s = 1 .. Cardinality(S)
    <2>1. s \in Seq(S)
      BY <1>4
    <2> QED
      BY <1>4, <2>1
  <1> QED
    BY <1>3, <1>4, <1>5

\* The first prefix in that order that matches is a longest one.
LEMMA ResolveIsLongest ==
  ASSUME NEW c \in Configs, NEW m
  PROVE  LET matching == {p \in DOMAIN c.routes : IsPrefix(p, m)}
         IN  IF matching = {}
               THEN ResolveUpstream(c, m) = DefaultRoute(c)
               ELSE \E p \in matching :
                      /\ \A q \in matching : Len(q) <= Len(p)
                      /\ ResolveUpstream(c, m) = c.routes[p]
  <1> DEFINE matching == {p \in DOMAIN c.routes : IsPrefix(p, m)}
             s == SortedRoutes(c)
             hits == {i \in 1 .. Len(s) : IsPrefix(s[i], m)}
             first == SelectInSeq(s, LAMBDA p : IsPrefix(p, m))
  <1>1. /\ Len(s) \in Nat
        /\ \A i \in 1 .. Len(s) : s[i] \in DOMAIN c.routes
        /\ \A p \in DOMAIN c.routes : \E i \in 1 .. Len(s) : s[i] = p
        /\ \A i, j \in 1 .. Len(s) : i < j => Len(s[i]) >= Len(s[j])
    BY SortedRoutesLemma
  <1>2. first = IF hits # {} THEN Min(hits) ELSE 0
    BY DEF SelectInSeq
  <1>3. ResolveUpstream(c, m) =
          IF first = 0 THEN DefaultRoute(c) ELSE c.routes[s[first]]
    BY DEF ResolveUpstream, DefaultRoute
  <1> HIDE DEF s, first
  <1>4. CASE hits = {}
    <2>1. matching = {}
      BY <1>1, <1>4
    <2> QED
      BY <1>2, <1>3, <1>4, <2>1
  <1>5. CASE hits # {}
    <2>1. \E i \in hits : \A j \in hits : i <= j
      <3>1. hits \subseteq Nat
        OBVIOUS
      <3> HIDE DEF hits
      <3> QED
        BY <3>1, <1>5, LeastNatural
    <2>2. first \in hits /\ \A j \in hits : first <= j
      BY <1>2, <1>5, <2>1 DEF Min
    <2>3. s[first] \in matching /\ first # 0
      BY <1>1, <2>2
    <2>4. ASSUME NEW q \in matching PROVE Len(q) <= Len(s[first])
      <3>1. PICK j \in 1 .. Len(s) : s[j] = q
        BY <1>1
      <3>2. first <= j /\ first \in 1 .. Len(s)
        BY <2>2, <3>1
      <3>3. Len(s[first]) \in Nat
        <4>1. s[first] \in Seq(Range(s[first]))
          BY <1>1, <3>2, ConfigsAssumption
        <4> QED
          BY <4>1
      <3>4. CASE first = j
        BY <3>1, <3>3, <3>4
      <3>5. CASE first < j
        <4>1. Len(s[first]) >= Len(q)
          BY <1>1, <3>1, <3>2, <3>5
        <4>2. q \in Seq(Range(q))
          BY ConfigsAssumption
        <4> QED
          BY <3>3, <4>1, <4>2
      <3> QED
        BY <1>1, <3>2, <3>4, <3>5
    <2> QED
      BY <1>3, <2>3, <2>4
  <1> QED
    BY <1>4, <1>5

\* validate() looks at every address a request can be routed to.
LEMMA ValidatedIsAllowed ==
  ASSUME NEW c \in Configs, Validate(c), NEW m
  PROVE  CheckUpstreamAllowed(c, ResolveUpstream(c, m).base_url)
  <1>1. CASE c.allowed_upstreams = {}
    BY <1>1 DEF CheckUpstreamAllowed
  <1>2. CASE c.allowed_upstreams # {}
    <2>1. /\ CheckUpstreamAllowed(c, c.default_upstream)
          /\ \A p \in DOMAIN c.routes : CheckUpstreamAllowed(c, c.routes[p].base_url)
      BY <1>2 DEF Validate
    <2>2. \/ ResolveUpstream(c, m) = DefaultRoute(c)
          \/ \E p \in DOMAIN c.routes : ResolveUpstream(c, m) = c.routes[p]
      BY ResolveIsLongest
    <2> QED
      BY <2>1, <2>2 DEF DefaultRoute
  <1> QED
    BY <1>1, <1>2

\* Of the spellings of an origin the last one in key order gives its pins.
LEMMA LastSpelling ==
  ASSUME NEW c \in Configs, NEW o, o \in {UrlOrigin(v) : v \in DOMAIN c.pins}
  PROVE  \E v \in DOMAIN c.pins :
           /\ UrlOrigin(v) = o
           /\ \A w \in DOMAIN c.pins : UrlOrigin(w) = o => w.rank <= v.rank
           /\ NormalizeUpstreamTlsPins(c)[o] = {p.digest : p \in c.pins[v]}
  <1> DEFINE spellings == {v \in DOMAIN c.pins : UrlOrigin(v) = o}
             last == CHOOSE v \in spellings : \A w \in spellings : w.rank <= v.rank
             rank == [v \in spellings |-> v.rank]
  <1>1. IsFiniteSet(spellings)
    <2>1. IsFiniteSet(DOMAIN c.pins)
      BY ConfigsAssumption
    <2> QED
      BY <2>1, FS_Subset
  <1>2. spellings # {}
    OBVIOUS
  <1>3. rank \in [spellings -> Nat]
    BY ConfigsAssumption
  <1>4. \E v \in spellings : \A w \in spellings : rank[w] <= rank[v]
    <2> HIDE DEF rank
    <2> QED
      BY <1>1, <1>2, <1>3, GreatestMeasure
  <1>5. last \in spellings /\ \A w \in spellings : w.rank <= last.rank
    BY <1>4
  <1>6. NormalizeUpstreamTlsPins(c)[o] = {NormalizeSha256Pin(p) : p \in c.pins[last]}
    BY DEF NormalizeUpstreamTlsPins
  <1> HIDE DEF last
  <1> QED
    BY <1>5, <1>6 DEF NormalizeSha256Pin

\* The table by host: what it has for a host are the pins of the host's origins.
LEMMA PinTableIs ==
  ASSUME NEW c \in Configs, PinsWellFormed(c), NEW host
  PROVE  /\ \A v \in DOMAIN c.pins : UrlOrigin(v).host = v.host
         /\ host \in DOMAIN UpstreamTlsPinHosts(c) <=> \E v \in DOMAIN c.pins : v.host = host
         /\ \A d : host \in DOMAIN UpstreamTlsPinHosts(c) =>
              (d \in UpstreamTlsPinHosts(c)[host] <=>
                 \E v \in DOMAIN c.pins :
                   v.host = host /\ d \in NormalizeUpstreamTlsPins(c)[UrlOrigin(v)])
  <1> DEFINE N == NormalizeUpstreamTlsPins(c)
             H == UpstreamTlsPinHosts(c)
  <1>1. \A v \in DOMAIN c.pins :
          UrlOrigin(v) = [scheme |-> v.scheme, host |-> v.host, port |-> v.port]
    BY DEF PinsWellFormed, UrlOrigin
  <1>2. DOMAIN N = {UrlOrigin(v) : v \in DOMAIN c.pins}
    BY DEF NormalizeUpstreamTlsPins
  <1>3. /\ DOMAIN H = {o.host : o \in DOMAIN N}
        /\ \A h \in DOMAIN H : H[h] = UNION {N[o] : o \in {p \in DOMAIN N : p.host = h}}
    BY DEF UpstreamTlsPinHosts
  <1> HIDE DEF N, H
  <1>4. \A v \in DOMAIN c.pins : UrlOrigin(v).host = v.host
    BY <1>1
  <1>5. host \in DOMAIN H <=> \E v \in DOMAIN c.pins : v.host = host
    BY <1>2, <1>3, <1>4
  <1>6. ASSUME NEW d, host \in DOMAIN H
        PROVE  d \in H[host] <=> \E v \in DOMAIN c.pins : v.host = host /\ d \in N[UrlOrigin(v)]
    <2>1. d \in H[host] <=> \E o \in DOMAIN N : o.host = host /\ d \in N[o]
      BY <1>3, <1>6
    <2> QED
      BY <1>2, <1>4, <2>1
  <1> QED
    BY <1>4, <1>5, <1>6 DEF N, H

\* A certificate that passes PinnedServerCertVerifier for a name with pins carries
\* a digest that somebody wrote for that name, although of two spellings of an
\* origin only one survives in the normalised table.
LEMMA PinsAreEnforced ==
  ASSUME NEW c \in Configs, PinsWellFormed(c), NEW host, NEW cert,
         VerifyServerCert(c, host, cert),
         NEW u \in DOMAIN c.pins, u.host = host
  PROVE  \E v \in DOMAIN c.pins : v.host = host /\ \E p \in c.pins[v] : p.digest = cert.digest
  <1>1. host \in DOMAIN UpstreamTlsPinHosts(c)
    BY PinTableIs
  <1>2. cert.digest \in UpstreamTlsPinHosts(c)[host]
    BY <1>1 DEF VerifyServerCert
  <1>3. PICK v \in DOMAIN c.pins : v.host = host /\ cert.digest \in NormalizeUpstreamTlsPins(c)[UrlOrigin(v)]
    BY <1>1, <1>2, PinTableIs
  <1>4. PICK w \in DOMAIN c.pins :
          /\ UrlOrigin(w) = UrlOrigin(v)
          /\ NormalizeUpstreamTlsPins(c)[UrlOrigin(v)] = {p.digest : p \in c.pins[w]}
    BY LastSpelling
  <1>5. w.host = host
    <2>1. UrlOrigin(w).host = w.host /\ UrlOrigin(v).host = v.host
      BY PinTableIs
    <2> QED
      BY <1>3, <1>4, <2>1
  <1> QED
    BY <1>3, <1>4, <1>5

\* A certificate that WebPKI accepts and a pin of the last spelling of some origin
\* names passes for the host of that origin.
LEMMA LastPinsPass ==
  ASSUME NEW c \in Configs, PinsWellFormed(c), NEW host, NEW cert, cert.webpki,
         ~VerifyServerCert(c, host, cert),
         NEW u \in DOMAIN c.pins, u.host = host,
         \E p \in c.pins[u] : p.digest = cert.digest
  PROVE  \E v \in DOMAIN c.pins : UrlOrigin(v) = UrlOrigin(u) /\ v.rank > u.rank
  <1>1. host \in DOMAIN UpstreamTlsPinHosts(c) /\ cert.digest \notin UpstreamTlsPinHosts(c)[host]
    BY DEF VerifyServerCert
  <1>2. cert.digest \notin NormalizeUpstreamTlsPins(c)[UrlOrigin(u)]
    BY <1>1, PinTableIs
  <1>3. PICK v \in DOMAIN c.pins :
          /\ UrlOrigin(v) = UrlOrigin(u)
          /\ \A w \in DOMAIN c.pins : UrlOrigin(w) = UrlOrigin(u) => w.rank <= v.rank
          /\ NormalizeUpstreamTlsPins(c)[UrlOrigin(u)] = {p.digest : p \in c.pins[v]}
    BY LastSpelling
  <1>4. v # u
    BY <1>2, <1>3
  <1>5. u.rank <= v.rank /\ u.rank \in Nat /\ v.rank \in Nat
    BY <1>3, ConfigsAssumption
  <1>6. u.rank # v.rank
    BY <1>3, <1>4, ConfigsAssumption
  <1> QED
    BY <1>3, <1>5, <1>6

-----------------------------------------------------------------------------
(* The invariant.                                                           *)

\* RoutingInv holds at every await of the process, from start-up on.
THEOREM RoutingInvariance == Spec => []RoutingInv
<1>1. Init => RoutingInv
  BY DEF Init, RoutingInv, Outcome
<1>2. RoutingInv /\ [Next]_vars => RoutingInv'
  <2> SUFFICES ASSUME RoutingInv, [Next]_vars PROVE RoutingInv'
    OBVIOUS
  <2> USE DEF RoutingInv
  <2>1. CASE Start
    BY <2>1 DEF Start
  <2>2. ASSUME NEW m \in Models, Route(m) PROVE RoutingInv'
    <3>1. Validate(cfg)
      BY <2>2 DEF Route
    <3>2. CheckUpstreamAllowed(cfg, route'.base_url)
      BY <2>2, <3>1, ValidatedIsAllowed DEF Route
    <3>3. phase' = "routed" /\ UNCHANGED <<cfg, outcome>> /\ route' = ResolveUpstream(cfg, m) /\ model' = m
      BY <2>2, <3>2 DEF Route
    <3> QED
      BY <3>1, <3>2, <3>3
  <2>3. ASSUME NEW cert \in Certs, Connect(cert) PROVE RoutingInv'
    <3>1. Validate(cfg) /\ UNCHANGED cfg /\ phase' = "ready"
      BY <2>3 DEF Connect
    <3>2. /\ outcome'.kind \in {"sent", "refused"}
          /\ outcome'.kind = "sent" => VerifyServerCert(cfg, ServerName(outcome'.url.host), outcome'.cert)
          /\ outcome'.kind = "refused" => ~VerifyServerCert(cfg, ServerName(outcome'.url.host), outcome'.cert)
      BY <2>3 DEF Connect, Outcome
    <3> QED
      BY <3>1, <3>2
  <2>4. CASE ConnectPlain
    <3>1. Validate(cfg) /\ UNCHANGED <<cfg, route>> /\ phase' = "ready"
      BY <2>4 DEF ConnectPlain
    <3>2. /\ outcome'.kind \in {"sent_plain", "refused"}
          /\ outcome'.url = UpstreamUrl(route)
          /\ outcome'.kind = "sent_plain" => outcome'.url.valid /\ outcome'.url.scheme # "https"
          /\ ~outcome'.cert.webpki
      BY <2>4 DEF ConnectPlain, Outcome, NoCert
    <3>3. CheckUpstreamAllowed(cfg, route.base_url)
      BY <2>4 DEF ConnectPlain
    <3> QED
      BY <3>1, <3>2, <3>3
  <2>5. CASE Exited
    BY <2>5 DEF Exited, vars
  <2>6. CASE UNCHANGED vars
    BY <2>6 DEF vars
  <2> QED
    BY <2>1, <2>2, <2>3, <2>4, <2>5, <2>6 DEF Next
<1> QED
  BY <1>1, <1>2, PTL DEF Spec

\* resolve_upstream: however many routes there are and however their prefixes nest,
\* a request takes the route of the longest one that matches its model.
THEOREM LongestPrefix == Spec => []LongestPrefixWins
<1>1. RoutingInv => LongestPrefixWins
  BY ResolveIsLongest DEF RoutingInv, LongestPrefixWins
<1> QED
  BY <1>1, RoutingInvariance, PTL

\* proxy_chat_completions' check of the allowlist never refuses what validate accepted.
THEOREM NeverBlocked == Spec => []ValidatedNeverBlocked
<1>1. RoutingInv => ValidatedNeverBlocked
  BY DEF RoutingInv, ValidatedNeverBlocked
<1> QED
  BY <1>1, RoutingInvariance, PTL

\* check_upstream_allowed: with an allowlist, the base URL of a request that leaves
\* in the clear is the local machine, whatever routes and lists are configured.
THEOREM PlainHttpBasesAreLocal == Spec => []PlainHttpBaseIsLocal
<1>1. RoutingInv => PlainHttpBaseIsLocal
  <2> SUFFICES ASSUME RoutingInv, phase = "ready", outcome.kind = "sent_plain",
                      cfg.allowed_upstreams # {}
               PROVE  route.base_url.scheme = "http" /\ route.base_url.host \in LocalHosts
    BY DEF PlainHttpBaseIsLocal
  <2>1. /\ outcome.url = UpstreamUrl(route) /\ outcome.url.scheme # "https"
        /\ CheckUpstreamAllowed(cfg, route.base_url)
    BY DEF RoutingInv
  <2>2. route.base_url.scheme # "https"
    BY <2>1 DEF UpstreamUrl
  <2> QED
    BY <2>1, <2>2 DEF CheckUpstreamAllowed, UrlOrigin, IsLocalHttpUrl
<1> QED
  BY <1>1, RoutingInvariance, PTL

\* A host that is no IPv6 literal is its own server name.
LEMMA NamesOfHosts ==
  ASSUME NEW host, ~host.brackets
  PROVE  ServerName(host) = host
  BY DEF ServerName

\* PinnedServerCertVerifier: a host with pins is only talked to over a certificate
\* that one of them names, for every table of pins validate accepts; hosts that are
\* IPv6 literals apart.
THEOREM PinsHold == Spec => []PinnedHostsChecked
<1>1. RoutingInv => PinnedHostsChecked
  <2> SUFFICES ASSUME RoutingInv, outcome.kind = "sent", ~outcome.url.host.brackets,
                      NEW u \in DOMAIN cfg.pins, u.host = outcome.url.host
               PROVE  \E v \in DOMAIN cfg.pins :
                        /\ v.host = outcome.url.host
                        /\ \E p \in cfg.pins[v] : p.digest = outcome.cert.digest
    BY DEF PinnedHostsChecked, PinnedSpellings
  <2>1. /\ cfg \in Configs /\ PinsWellFormed(cfg)
        /\ VerifyServerCert(cfg, ServerName(outcome.url.host), outcome.cert)
    BY DEF RoutingInv, Validate
  <2>2. ServerName(outcome.url.host) = outcome.url.host
    BY <2>1, NamesOfHosts
  <2> QED
    BY <2>1, <2>2, PinsAreEnforced
<1> QED
  BY <1>1, RoutingInvariance, PTL

\* normalize_upstream_tls_pins and upstream_tls_pin_hosts: a written pin counts unless
\* its origin was written again in a spelling that sorts behind it, for every table.
THEOREM PinsCount == Spec => []PinsLostOnlyToRespelling
<1>1. RoutingInv => PinsLostOnlyToRespelling
  <2> SUFFICES ASSUME RoutingInv, outcome.kind = "refused", outcome.cert.webpki,
                      ~outcome.url.host.brackets,
                      NEW u \in DOMAIN cfg.pins, u.host = outcome.url.host,
                      \E p \in cfg.pins[u] : p.digest = outcome.cert.digest
               PROVE  \E v \in DOMAIN cfg.pins : UrlOrigin(v) = UrlOrigin(u) /\ v.rank > u.rank
    BY DEF PinsLostOnlyToRespelling, PinnedSpellings
  <2>1. /\ cfg \in Configs /\ PinsWellFormed(cfg)
        /\ ~VerifyServerCert(cfg, ServerName(outcome.url.host), outcome.cert)
    BY DEF RoutingInv, Validate
  <2>2. ServerName(outcome.url.host) = outcome.url.host
    BY <2>1, NamesOfHosts
  <2> QED
    BY <2>1, <2>2, LastPinsPass
<1> QED
  BY <1>1, RoutingInvariance, PTL
=============================================================================
