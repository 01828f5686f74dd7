--------------------------- MODULE AttesterProofs ---------------------------
(***************************************************************************)
(* How the relay obtains its evidence, for every answer of the launcher    *)
(* and every table of the device.                                          *)
(*                                                                         *)
(*   - What cert_blob_used_len keeps of a certificate table is enough for  *)
(*     find_cert to give the answer it would give on the whole.            *)
(*   - decode_chunked_body decodes exactly the chunked bodies.  While it   *)
(*     decodes, DecodeInv holds: the body says what has come out, followed *)
(*     by what the rest of it says.                                        *)
(*   - A chunked body that was cut is never taken for the whole: what a    *)
(*     beginning says the whole says, and a body says one thing at most.   *)
(***************************************************************************)
EXTENDS Attester, TLAPS, SequenceTheorems, WellFoundedInduction, NaturalsInduction

-----------------------------------------------------------------------------
(* Least and greatest numbers.                                              *)

LEMMA LeastNatural ==
  ASSUME NEW T, T \subseteq Nat, T # {}
  PROVE  Min(T) \in T /\ \A m \in T : Min(T) <= m
  <1>1. IsWellFoundedOn(OpToRel(<, Nat), Nat)
    BY NatLessThanWellFounded
  <1>2. PICK n \in T : \A m \in T : ~(<<m, n>> \in OpToRel(<, Nat))
    BY <1>1, WFMin
  <1>3. \A m \in T : ~(m < n)
    BY <1>2 DEF OpToRel
  <1>4. \E x \in T : \A m \in T : x =< m
    BY <1>3
  <1> QED
    BY <1>4 DEF Min

\* Of two numbers.
LEMMA LessOfTwo ==
  ASSUME NEW m \in Nat, NEW n \in Nat
  PROVE  Min({m, n}) = IF m <= n THEN m ELSE n
  BY LeastNatural

LEMMA GreaterOfTwo ==
  ASSUME NEW m \in Nat, NEW n \in Nat
  PROVE  Max({m, n}) = IF m >= n THEN m ELSE n
  BY DEF Max

\* Below a bound there is a greatest: the one with the least distance from it.
LEMMA GreatestBounded ==
  ASSUME NEW b \in Nat, NEW T, T \subseteq 0 .. b, T # {}
  PROVE  Max(T) \in T /\ \A m \in T : m <= Max(T)
  <1> DEFINE D == {b - m : m \in T}
  <1>1. D \subseteq Nat /\ D # {}
    <2>1. \A m \in T : b - m \in Nat
      OBVIOUS
    <2>2. PICK m \in T : TRUE
      OBVIOUS
    <2>3. b - m \in D
      OBVIOUS
    <2> QED
      BY <2>1, <2>3
  <1>2. Min(D) \in D /\ \A d \in D : Min(D) <= d
    BY <1>1, LeastNatural
  <1>3. PICK x \in T : Min(D) = b - x
    BY <1>2
  <1>4. \A m \in T : m <= x
    <2> TAKE m \in T
    <2>1. b - x <= b - m
      BY <1>2, <1>3
    <2> QED
      BY <2>1
  <1> QED
    BY <1>3, <1>4 DEF Max

-----------------------------------------------------------------------------
(* The part of the table that is read.                                      *)

\* A table as the device returns one; what there is before it answers is one, too.
WellFormed(t) ==
  /\ t.size \in Nat /\ Len(t.cells) \in Nat
  /\ \A i \in 1 .. Len(t.cells) : t.cells[i].offset \in Nat /\ t.cells[i].length \in Nat

Zeros(t, n) == {i \in 1 .. n : t.cells[i].guid = "zero"}

LEMMA HalfType ==
  ASSUME NEW n \in Nat
  PROVE  n \div CellSize \in Nat /\ CellSize * (n \div CellSize) <= n
  BY DEF CellSize

\* n cells fit, and the ones before the first cell of zeros are read.
LEMMA ReadIs ==
  ASSUME NEW t, WellFormed(t), NEW len \in Nat,
         NEW n, n = Min({len \div CellSize, Len(t.cells)})
  PROVE  /\ n \in Nat /\ n <= len \div CellSize /\ n <= Len(t.cells)
         /\ n = len \div CellSize \/ n = Len(t.cells)
         /\ CellsRead(t, len) = IF Zeros(t, n) = {} THEN n ELSE Min(Zeros(t, n)) - 1
         /\ CellsRead(t, len) \in 0 .. n
         /\ HeaderEnd(t, len) \in Nat /\ HeaderEnd(t, len) <= len
  <1>1. len \div CellSize \in Nat /\ Len(t.cells) \in Nat /\ CellSize * (len \div CellSize) <= len
    BY HalfType DEF WellFormed
  <1>2. n \in Nat /\ n <= len \div CellSize /\ n <= Len(t.cells) /\ (n = len \div CellSize \/ n = Len(t.cells))
    BY <1>1, LessOfTwo
  <1>3. CellsRead(t, len) = IF Zeros(t, n) = {} THEN n ELSE Min(Zeros(t, n)) - 1
    BY DEF CellsRead, Zeros
  <1>4. CellsRead(t, len) \in 0 .. n
    <2>1. CASE Zeros(t, n) = {}
      BY <1>2, <1>3, <2>1
    <2>2. CASE Zeros(t, n) # {}
      <3>1. Zeros(t, n) \subseteq 1 .. n /\ Zeros(t, n) \subseteq Nat
        BY <1>2 DEF Zeros
      <3>2. Min(Zeros(t, n)) \in 1 .. n
        BY <2>2, <3>1, LeastNatural
      <3> QED
        BY <1>2, <1>3, <2>2, <3>2
    <2> QED
      BY <2>1, <2>2
  <1>5. HeaderEnd(t, len) \in Nat /\ HeaderEnd(t, len) <= len
    BY <1>1, <1>2, <1>4 DEF HeaderEnd, CellSize
  <1> QED
    BY <1>2, <1>3, <1>4, <1>5

LEMMA ReadBounds ==
  ASSUME NEW t, WellFormed(t)
  PROVE  /\ CellsRead(t, t.size) \in Nat /\ CellsRead(t, t.size) <= Len(t.cells)
         /\ HeaderEnd(t, t.size) \in Nat /\ HeaderEnd(t, t.size) <= t.size
  <1>1. t.size \in Nat /\ Len(t.cells) \in Nat
    BY DEF WellFormed
  <1>2. PICK n : n = Min({t.size \div CellSize, Len(t.cells)})
    OBVIOUS
  <1>3. /\ n \in Nat /\ n <= Len(t.cells) /\ CellsRead(t, t.size) \in 0 .. n
        /\ HeaderEnd(t, t.size) \in Nat /\ HeaderEnd(t, t.size) <= t.size
    BY <1>1, <1>2, ReadIs
  <1> QED
    BY <1>1, <1>3

\* A part that reaches as far as the header has the same header.
LEMMA SameHeader ==
  ASSUME NEW t, WellFormed(t), NEW len \in Nat, len <= t.size, HeaderEnd(t, t.size) <= len
  PROVE  CellsRead(t, len) = CellsRead(t, t.size) /\ HeaderEnd(t, len) = HeaderEnd(t, t.size)
  <1> DEFINE q == len \div CellSize
             Q == t.size \div CellSize
             n == Min({q, Len(t.cells)})
             N == Min({Q, Len(t.cells)})
             c == CellsRead(t, len)
             C == CellsRead(t, t.size)
  <1>1. t.size \in Nat /\ Len(t.cells) \in Nat
    BY DEF WellFormed
  <1>2. q \in Nat /\ Q \in Nat /\ q <= Q
    BY <1>1 DEF CellSize
  <1>3. /\ n \in Nat /\ n <= q /\ n <= Len(t.cells) /\ (n = q \/ n = Len(t.cells))
        /\ c = IF Zeros(t, n) = {} THEN n ELSE Min(Zeros(t, n)) - 1
        /\ c \in 0 .. n
    BY ReadIs
  <1>4. /\ N \in Nat /\ N <= Q /\ N <= Len(t.cells) /\ (N = Q \/ N = Len(t.cells))
        /\ C = IF Zeros(t, N) = {} THEN N ELSE Min(Zeros(t, N)) - 1
        /\ C \in 0 .. N
    <2>1. PICK size \in Nat : size = t.size
      BY <1>1
    <2>2. PICK m : m = Min({size \div CellSize, Len(t.cells)})
      OBVIOUS
    <2>3. /\ m \in Nat /\ m <= size \div CellSize /\ m <= Len(t.cells)
          /\ m = size \div CellSize \/ m = Len(t.cells)
          /\ CellsRead(t, size) = IF Zeros(t, m) = {} THEN m ELSE Min(Zeros(t, m)) - 1
          /\ CellsRead(t, size) \in 0 .. m
      BY <2>2, ReadIs
    <2> QED
      BY <2>1, <2>2, <2>3
  <1>5. C <= q /\ (C < Q => C < q)
    <2>1. \A k \in Nat : CellSize * k <= len => k <= q
      BY DEF CellSize
    <2>2. C \in Nat /\ CellSize * (C + (IF C < Q THEN 1 ELSE 0)) <= len
      <3>1. C \in Nat
        BY ReadBounds
      <3>2. HeaderEnd(t, t.size) = CellSize * (C + (IF C < Q THEN 1 ELSE 0))
        BY DEF HeaderEnd
      <3> QED
        BY <3>1, <3>2
    <2> HIDE DEF q, Q, C
    <2>3. CASE C < Q
      <3>1. C + 1 <= q
        BY <2>1, <2>2, <2>3
      <3> QED
        BY <1>2, <2>2, <3>1
    <2>4. CASE ~(C < Q)
      <3>1. C + 0 <= q
        BY <2>1, <2>2, <2>4
      <3> QED
        BY <2>2, <2>4, <3>1
    <2> QED
      BY <2>3, <2>4
  <1> HIDE DEF q, Q, n, N, c, C
  <1>6. n <= N
    BY <1>1, <1>2, <1>3, <1>4
  <1>7. c = C
    <2>1. CASE Zeros(t, N) = {}
      <3>1. Zeros(t, n) = {}
        BY <1>3, <1>4, <1>6, <2>1 DEF Zeros
      <3> QED
        BY <1>1, <1>2, <1>3, <1>4, <1>5, <1>6, <2>1, <3>1
    <2>2. CASE Zeros(t, N) # {}
      <3> DEFINE z == Min(Zeros(t, N))
      <3>1. Zeros(t, N) \subseteq Nat /\ Zeros(t, n) \subseteq Nat
        BY <1>3, <1>4 DEF Zeros
      <3>2. z \in Zeros(t, N) /\ \A m \in Zeros(t, N) : z <= m
        BY <2>2, <3>1, LeastNatural
      <3>3. z \in 1 .. N /\ t.cells[z].guid = "zero" /\ C = z - 1
        BY <1>4, <2>2, <3>2 DEF Zeros
      <3> HIDE DEF z
      <3>4. z <= n
        BY <1>1, <1>2, <1>3, <1>4, <1>5, <3>3
      <3>5. z \in Zeros(t, n)
        BY <1>3, <3>3, <3>4 DEF Zeros
      <3>6. \A m \in Zeros(t, n) : m \in Zeros(t, N)
        BY <1>3, <1>4, <1>6 DEF Zeros
      <3>7. Min(Zeros(t, n)) \in Zeros(t, n) /\ \A m \in Zeros(t, n) : Min(Zeros(t, n)) <= m
        BY <3>1, <3>5, LeastNatural
      <3>8. Min(Zeros(t, n)) = z
        BY <3>1, <3>2, <3>5, <3>6, <3>7
      <3> QED
        BY <1>3, <3>3, <3>5, <3>8
    <2> QED
      BY <2>1, <2>2
  <1>8. HeaderEnd(t, len) = HeaderEnd(t, t.size)
    <2>1. HeaderEnd(t, len) = CellSize * (c + (IF c < q THEN 1 ELSE 0))
      BY DEF HeaderEnd, c, q
    <2>2. HeaderEnd(t, t.size) = CellSize * (C + (IF C < Q THEN 1 ELSE 0))
      BY DEF HeaderEnd, C, Q
    <2>3. (c < q) <=> (C < Q)
      BY <1>2, <1>4, <1>5, <1>7
    <2> QED
      BY <1>7, <2>1, <2>2, <2>3
  <1> QED
    BY <1>7, <1>8 DEF c, C

-----------------------------------------------------------------------------
(* The part that is kept.                                                   *)

\* Where the last certificate ends within the table.
LastEnd(t) == Max({0} \cup {Min({End(t.cells[i]), t.size}) : i \in 1 .. CellsRead(t, t.size)})

LEMMA LastEndIs ==
  ASSUME NEW t, WellFormed(t)
  PROVE  /\ LastEnd(t) \in 0 .. t.size
         /\ \A i \in 1 .. CellsRead(t, t.size) :
              /\ t.cells[i].offset \in Nat /\ End(t.cells[i]) \in Nat
              /\ End(t.cells[i]) <= t.size => End(t.cells[i]) <= LastEnd(t)
  <1> DEFINE C == CellsRead(t, t.size)
             m(i) == Min({End(t.cells[i]), t.size})
             T == {0} \cup {m(i) : i \in 1 .. C}
  <1>1. t.size \in Nat /\ C \in Nat /\ C <= Len(t.cells) /\ Len(t.cells) \in Nat
    <2>1. t.size \in Nat /\ Len(t.cells) \in Nat
      BY DEF WellFormed
    <2> QED
      BY <2>1, ReadBounds
  <1> HIDE DEF C
  <1>2. \A i \in 1 .. C : t.cells[i].offset \in Nat /\ End(t.cells[i]) \in Nat
    BY <1>1 DEF WellFormed, End
  <1>3. \A i \in 1 .. C : m(i) = IF End(t.cells[i]) <= t.size THEN End(t.cells[i]) ELSE t.size
    BY <1>1, <1>2, LessOfTwo
  <1> HIDE DEF m
  <1>4. T \subseteq 0 .. t.size /\ T # {}
    BY <1>1, <1>2, <1>3
  <1>5. Max(T) \in T /\ \A k \in T : k <= Max(T)
    BY <1>1, <1>4, GreatestBounded
  <1>6. \A i \in 1 .. C : m(i) <= Max(T)
    BY <1>5
  <1>7. LastEnd(t) = Max(T)
    BY DEF LastEnd, m, C
  <1> QED
    BY <1>2, <1>3, <1>4, <1>5, <1>6, <1>7 DEF C

\* find_cert answers on the part that cert_blob_used_len keeps what it answers on
\* the whole table.
LEMMA FindsTheSame ==
  ASSUME NEW t, WellFormed(t), NEW guid
  PROVE  FindCert(t, CertBlobUsedLen(t), guid) = FindCert(t, t.size, guid)
  <1> DEFINE keep == CertBlobUsedLen(t)
             last == LastEnd(t)
             C == CellsRead(t, t.size)
             H == HeaderEnd(t, t.size)
  <1>1. t.size \in Nat /\ Len(t.cells) \in Nat
    BY DEF WellFormed
  <1>2. H \in Nat /\ H <= t.size /\ C \in Nat
    BY ReadBounds
  <1>3. /\ last \in 0 .. t.size
        /\ \A i \in 1 .. C : /\ t.cells[i].offset \in Nat /\ End(t.cells[i]) \in Nat
                             /\ End(t.cells[i]) <= t.size => End(t.cells[i]) <= last
    BY LastEndIs
  <1>4. keep = IF last = 0 THEN 0 ELSE Max({last, H})
    BY DEF CertBlobUsedLen, LastEnd
  <1>5. CASE last = 0
    <2>1. keep = 0
      BY <1>4, <1>5
    <2>2. CellsRead(t, 0) = 0
      <3>1. CellsRead(t, 0) \in 0 .. Min({0 \div CellSize, Len(t.cells)}) /\ Min({0 \div CellSize, Len(t.cells)}) <= 0 \div CellSize
        BY ReadIs
      <3>2. Min({0 \div CellSize, Len(t.cells)}) \in Nat
        BY ReadIs
      <3> QED
        BY <3>1, <3>2 DEF CellSize
    <2>3. FindCert(t, 0, guid) = <<>>
      BY <2>2 DEF FindCert
    <2>4. C > 0 => H > 0
      BY <1>1, <1>2 DEF HeaderEnd, CellSize
    <2>5. \A i \in 1 .. C : ~(t.cells[i].offset >= H /\ End(t.cells[i]) <= t.size)
      <3> SUFFICES ASSUME NEW i \in 1 .. C, t.cells[i].offset >= H, End(t.cells[i]) <= t.size PROVE FALSE
        OBVIOUS
      <3>1. End(t.cells[i]) = 0 /\ t.cells[i].offset > 0
        BY <1>2, <1>3, <1>5, <2>4
      <3>2. t.cells[i].length \in Nat
        <4>1. C <= Len(t.cells)
          BY ReadBounds
        <4> QED
          BY <1>1, <1>2, <4>1 DEF WellFormed
      <3> QED
        BY <1>3, <3>1, <3>2 DEF End
    <2>6. FindCert(t, t.size, guid) = <<>>
      BY <2>5 DEF FindCert
    <2> QED
      BY <2>1, <2>3, <2>6
  <1>6. CASE last # 0
    <2>1. keep \in Nat /\ keep <= t.size /\ H <= keep /\ last <= keep
      BY <1>1, <1>2, <1>3, <1>4, <1>6, GreaterOfTwo
    <2>2. CellsRead(t, keep) = C /\ HeaderEnd(t, keep) = H
      BY <2>1, SameHeader
    <2> HIDE DEF keep, last, C, H
    <2>3. \A i \in 1 .. C : End(t.cells[i]) <= keep <=> End(t.cells[i]) <= t.size
      BY <1>1, <1>3, <2>1
    <2> DEFINE kept == {i \in 1 .. C : t.cells[i].guid = guid /\ t.cells[i].offset >= H /\ End(t.cells[i]) <= keep}
               whole == {i \in 1 .. C : t.cells[i].guid = guid /\ t.cells[i].offset >= H /\ End(t.cells[i]) <= t.size}
    <2>4. kept = whole
      BY <2>3
    <2>5. FindCert(t, keep, guid) =
            IF kept = {} THEN <<>> ELSE <<t.cells[Min(kept)].offset, End(t.cells[Min(kept)])>>
      BY <2>2 DEF FindCert
    <2>6. FindCert(t, t.size, guid) =
            IF whole = {} THEN <<>> ELSE <<t.cells[Min(whole)].offset, End(t.cells[Min(whole)])>>
      BY DEF FindCert, C, H
    <2> HIDE DEF kept, whole
    <2> QED
      BY <2>4, <2>5, <2>6 DEF keep
  <1> QED
    BY <1>5, <1>6

-----------------------------------------------------------------------------
\* The relay keeps of a table what cert_blob_used_len says, and of no table nothing.
TableInv == WellFormed(table) /\ used = CertBlobUsedLen(table)

LEMMA TableInvariance == Spec => []TableInv
<1>1. Init => TableInv
  <2> SUFFICES ASSUME Init PROVE TableInv
    OBVIOUS
  <2>1. table.size = 0 /\ table.cells = <<>> /\ Len(table.cells) = 0 /\ used = 0
    BY DEF Init, NoTable
  <2>2. WellFormed(table)
    BY <2>1 DEF WellFormed
  <2>3. LastEnd(table) \in 0 .. 0
    BY <2>1, <2>2, LastEndIs
  <2>4. LastEnd(table) = 0
    BY <2>3
  <2> QED
    BY <2>1, <2>2, <2>4 DEF TableInv, CertBlobUsedLen, LastEnd
<1>2. TableInv /\ [Next]_vars => TableInv'
  <2> SUFFICES ASSUME TableInv, [Next]_vars PROVE TableInv'
    OBVIOUS
  <2>1. CASE UNCHANGED <<table, used>>
    BY <2>1 DEF TableInv, WellFormed, CertBlobUsedLen, CellsRead, HeaderEnd
  <2>2. CASE \E t \in Tables : ExtendedReport(t)
    BY <2>2, TableAssumption DEF ExtendedReport, TableInv, WellFormed
  <2>3. CASE ~(\E t \in Tables : ExtendedReport(t))
    <3>1. UNCHANGED <<table, used>>
      BY <2>3 DEF Next, SocketAppears, TryConnect, LauncherAnswers, ParseHead, DecodeChunk, TakeToken,
                  PlainReport, Ended, vars, tableVars
    <3> QED
      BY <2>1, <3>1
  <2> QED
    BY <2>2, <2>3
<1> QED
  BY <1>1, <1>2, PTL DEF Spec

\* attest() of the SEV-SNP backend against find_cert: verifiers find in the evidence
\* the certificate the device gave and no other, for tables of any size with any
\* cells, also ones that overlap the header or point behind the end.
THEOREM CertificatesSurvive == Spec => []CertificateSurvives
<1>1. TableInv => CertificateSurvives
  BY FindsTheSame DEF TableInv, CertificateSurvives
<1> QED
  BY <1>1, TableInvariance, PTL
-----------------------------------------------------------------------------
(* Slices and lines.                                                        *)

LEMMA SizeType ==
  ASSUME NEW line
  PROVE  SizeOf(line) = None \/ (SizeOf(line) \in 0 .. MaxUsize /\ SizeOf(line) \in Nat /\ SizeOf(line) # None)
  <1>1. \A n \in 0 .. MaxUsize : n \in Nat /\ n # None
    BY UsizeAssumption DEF None
  <1>2. SizeOf(line) = None \/ SizeOf(line) \in 0 .. MaxUsize
    BY DEF SizeOf
  <1> QED
    BY <1>1, <1>2

LEMMA SliceIs ==
  ASSUME NEW b \in Seq(Bytes), NEW from \in Nat, NEW k \in Nat, from + k <= Len(b)
  PROVE  /\ Slice(b, from, from + k) \in Seq(Bytes) /\ Len(Slice(b, from, from + k)) = k
         /\ \A i \in 1 .. k : Slice(b, from, from + k)[i] = b[from + i]
  <1>1. PICK m \in Int, n \in Int : m = from + 1 /\ n = from + k
    OBVIOUS
  <1>2. Slice(b, from, from + k) = SubSeq(b, m, n)
    BY <1>1 DEF Slice
  <1>3. \A i \in m .. n : i \in 1 .. Len(b)
    BY <1>1, LenProperties
  <1>4. \A i \in m .. n : b[i] \in Bytes
    BY <1>3, ElementOfSeq
  <1>5. /\ SubSeq(b, m, n) \in Seq(Bytes) /\ Len(SubSeq(b, m, n)) = IF m <= n THEN n - m + 1 ELSE 0
        /\ \A i \in 1 .. n - m + 1 : SubSeq(b, m, n)[i] = b[m + i - 1]
    BY ONLY <1>4, SubSeqProperties
  <1>6. n - m + 1 = k /\ (m <= n \/ k = 0) /\ \A i \in 1 .. k : m + i - 1 = from + i
    BY <1>1
  <1> QED
    BY <1>1, <1>2, <1>5, <1>6

LEMMA EolIs ==
  ASSUME NEW b \in Seq(Bytes), NEW i \in Nat
  PROVE  Eol(b, i) <=> i + 2 <= Len(b) /\ b[i + 1] = CR /\ b[i + 2] = LF
  <1> SUFFICES ASSUME i + 2 <= Len(b)
               PROVE  Slice(b, i, i + 2) = CRLF <=> b[i + 1] = CR /\ b[i + 2] = LF
    BY DEF Eol
  <1> DEFINE s == Slice(b, i, i + 2)
  <1>1. CR \in Bytes /\ LF \in Bytes
    BY DEF Bytes
  <1>2. CRLF \in Seq(Bytes) /\ Len(CRLF) = 2 /\ CRLF[1] = CR /\ CRLF[2] = LF
    BY <1>1 DEF CRLF
  <1>3. s \in Seq(Bytes) /\ Len(s) = 2 /\ s[1] = b[i + 1] /\ s[2] = b[i + 2]
    BY DEF Slice
  <1> HIDE DEF s
  <1>4. ASSUME b[i + 1] = CR, b[i + 2] = LF PROVE s = CRLF
    <2>1. \A j \in 1 .. 2 : j = 1 \/ j = 2
      OBVIOUS
    <2>2. \A j \in 1 .. Len(s) : s[j] = CRLF[j]
      BY <1>2, <1>3, <1>4, <2>1
    <2> QED
      BY <1>2, <1>3, <2>2, SeqEqual
  <1> QED
    BY <1>2, <1>3, <1>4 DEF s

\* c is a piece of b, from p on.
Within(c, b, p) == p + Len(c) <= Len(b) /\ \A i \in 1 .. Len(c) : c[i] = b[p + i]

LEMMA RestIs ==
  ASSUME NEW b \in Seq(Bytes), NEW p \in 0 .. Len(b)
  PROVE  /\ Rest(b, p) \in Seq(Bytes) /\ Len(Rest(b, p)) = Len(b) - p
         /\ \A i \in 1 .. Len(b) - p : Rest(b, p)[i] = b[p + i]
         /\ Within(Rest(b, p), b, p)
  <1>1. /\ Rest(b, p) \in Seq(Bytes) /\ Len(Rest(b, p)) = Len(b) - p
        /\ \A i \in 1 .. Len(b) - p : Rest(b, p)[i] = b[p + i]
    BY DEF Rest, Slice
  <1>2. Len(b) \in Nat
    BY LenProperties
  <1> QED
    BY <1>1, <1>2 DEF Within

\* Parts of a piece are parts of the whole.
LEMMA SliceWithin ==
  ASSUME NEW b \in Seq(Bytes), NEW c \in Seq(Bytes), NEW p \in Nat, Within(c, b, p),
         NEW i \in Nat, NEW k \in Nat, i + k <= Len(c)
  PROVE  Slice(c, i, i + k) = Slice(b, p + i, p + i + k)
  <1> DEFINE s == Slice(c, i, i + k)
             t == Slice(b, p + i, p + i + k)
  <1>1. Len(b) \in Nat /\ Len(c) \in Nat /\ p + Len(c) <= Len(b) /\ \A j \in 1 .. Len(c) : c[j] = b[p + j]
    BY LenProperties DEF Within
  <1>2. s \in Seq(Bytes) /\ Len(s) = k /\ \A j \in 1 .. k : s[j] = c[i + j]
    BY SliceIs
  <1>3. t \in Seq(Bytes) /\ Len(t) = k /\ \A j \in 1 .. k : t[j] = b[p + i + j]
    <2>1. p + i \in Nat /\ p + i + k <= Len(b)
      BY <1>1
    <2> QED
      BY <2>1, SliceIs
  <1>4. \A j \in 1 .. k : c[i + j] = b[p + i + j]
    <2>1. \A j \in 1 .. k : i + j \in 1 .. Len(c) /\ p + (i + j) = p + i + j
      BY <1>1
    <2> QED
      BY <1>1, <2>1
  <1> HIDE DEF s, t
  <1> QED
    BY <1>2, <1>3, <1>4, SeqEqual DEF s, t

LEMMA EolWithin ==
  ASSUME NEW b \in Seq(Bytes), NEW c \in Seq(Bytes), NEW p \in Nat, Within(c, b, p),
         NEW i \in Nat, i + 2 <= Len(c)
  PROVE  Eol(c, i) <=> Eol(b, p + i)
  <1>1. Len(b) \in Nat /\ Len(c) \in Nat /\ p + Len(c) <= Len(b)
    BY LenProperties DEF Within
  <1>2. Slice(c, i, i + 2) = Slice(b, p + i, p + i + 2)
    BY SliceWithin
  <1>3. p + i + 2 <= Len(b)
    BY <1>1
  <1> QED
    BY <1>2, <1>3 DEF Eol

\* The line that begins at p ends at e.
LineAt(b, p, e) == e \in Nat /\ p <= e /\ Eol(b, e) /\ \A j \in p .. e - 1 : ~Eol(b, j)

LEMMA LineFits ==
  ASSUME NEW b \in Seq(Bytes), NEW p \in Nat, NEW e, LineAt(b, p, e)
  PROVE  e \in Nat /\ p <= e /\ e + 2 <= Len(b) /\ Len(b) \in Nat
  BY LenProperties DEF LineAt, Eol

LEMMA OneLine ==
  ASSUME NEW b, NEW p \in Nat, NEW e, NEW f, LineAt(b, p, e), LineAt(b, p, f)
  PROVE  e = f
  <1>1. e \in Nat /\ f \in Nat /\ p <= e /\ p <= f
    BY DEF LineAt
  <1>2. ~(e < f)
    <2>1. e < f => e \in p .. f - 1
      BY <1>1
    <2> QED
      BY <2>1 DEF LineAt
  <1>3. ~(f < e)
    <2>1. f < e => f \in p .. e - 1
      BY <1>1
    <2> QED
      BY <2>1 DEF LineAt
  <1> QED
    BY <1>1, <1>2, <1>3

LEMMA LineWithin ==
  ASSUME NEW b \in Seq(Bytes), NEW c \in Seq(Bytes), NEW p \in Nat, Within(c, b, p),
         NEW e, LineAt(c, 0, e)
  PROVE  LineAt(b, p, p + e)
  <1>1. e \in Nat /\ e + 2 <= Len(c) /\ Len(c) \in Nat
    BY LineFits
  <1>2. Eol(b, p + e)
    BY <1>1, EolWithin DEF LineAt
  <1>3. ASSUME NEW j \in p .. p + e - 1 PROVE ~Eol(b, j)
    <2>1. PICK i \in Nat : i = j - p
      BY <1>1
    <2>2. i + 2 <= Len(c) /\ i \in 0 .. e - 1 /\ p + i = j
      BY <1>1, <2>1
    <2>3. ~Eol(c, i)
      BY <2>2 DEF LineAt
    <2> QED
      BY <2>2, <2>3, EolWithin
  <1>4. p + e \in Nat /\ p <= p + e
    BY <1>1
  <1> QED
    BY <1>2, <1>3, <1>4 DEF LineAt

LEMMA LineOfRest ==
  ASSUME NEW b \in Seq(Bytes), NEW p \in 0 .. Len(b), NEW e, LineAt(b, p, e)
  PROVE  LineAt(Rest(b, p), 0, e - p)
  <1> DEFINE r == Rest(b, p)
  <1>1. Len(b) \in Nat /\ p \in Nat
    BY LenProperties
  <1>2. r \in Seq(Bytes) /\ Len(r) = Len(b) - p /\ Within(r, b, p)
    BY RestIs
  <1>3. e \in Nat /\ p <= e /\ e + 2 <= Len(b)
    BY <1>1, LineFits
  <1> HIDE DEF r
  <1>4. ASSUME NEW i \in 0 .. e - p PROVE Eol(r, i) <=> Eol(b, p + i)
    <2>1. i \in Nat /\ i + 2 <= Len(r)
      BY <1>1, <1>2, <1>3
    <2> QED
      BY <1>1, <1>2, <2>1, EolWithin
  <1>5. e - p \in 0 .. e - p /\ p + (e - p) = e /\ e - p \in Nat
    BY <1>1, <1>3
  <1>6. Eol(r, e - p)
    BY <1>4, <1>5 DEF LineAt
  <1>7. ASSUME NEW j \in 0 .. (e - p) - 1 PROVE ~Eol(r, j)
    <2>1. j \in 0 .. e - p /\ p + j \in p .. e - 1
      BY <1>1, <1>3
    <2> QED
      BY <1>4, <2>1 DEF LineAt
  <1> QED
    BY <1>5, <1>6, <1>7 DEF LineAt, r

\* What LineEnd finds.
LEMMA LineEndIs ==
  ASSUME NEW b \in Seq(Bytes), NEW p \in Nat
  PROVE  \/ LineEnd(b, p) = None /\ \A e : ~LineAt(b, p, e)
         \/ LineEnd(b, p) # None /\ LineAt(b, p, LineEnd(b, p))
  <1> DEFINE ends == {i \in p .. Len(b) - 2 : Eol(b, i)}
  <1>1. Len(b) \in Nat
    BY LenProperties
  <1>2. LineEnd(b, p) = IF ends = {} THEN None ELSE Min(ends)
    BY DEF LineEnd
  <1>3. ends \subseteq Nat
    BY <1>1
  <1>4. \A e : LineAt(b, p, e) => e \in ends
    BY <1>1, LineFits DEF LineAt
  <1>5. ASSUME ends # {} PROVE Min(ends) # None /\ LineAt(b, p, Min(ends))
    <2>1. Min(ends) \in ends /\ \A i \in ends : Min(ends) <= i
      BY <1>3, <1>5, LeastNatural
    <2>2. PICK e \in ends : e = Min(ends)
      BY <2>1
    <2>3. e \in Nat /\ p <= e /\ e + 2 <= Len(b) /\ Eol(b, e)
      BY <1>1
    <2>4. \A j \in p .. e - 1 : ~Eol(b, j)
      <3>1. \A j \in p .. e - 1 : j \in p .. Len(b) - 2 /\ ~(e <= j)
        BY <1>1, <2>3
      <3> QED
        BY <2>1, <2>2, <3>1
    <2>5. e # None
      BY <2>3 DEF None
    <2> QED
      BY <2>2, <2>3, <2>4, <2>5 DEF LineAt
  <1> HIDE DEF ends
  <1> QED
    BY <1>2, <1>4, <1>5

-----------------------------------------------------------------------------
(* What a chunked body says.  Said is a recursive function: that it obeys   *)
(* its equation is proved by looking at a shortest body that spoils it.     *)

\* What is said behind d.
After(d, S) == {d \o more : more \in S}

\* The right-hand side of Said's equation, for any function in its place.
Term(f, b, k) ==
  LET n == SizeOf(Slice(b, 0, k))
      end == k + 2 + n
  IN  IF n = 0 THEN {<<>>}
      ELSE IF n # None /\ Eol(b, end)
        THEN After(Slice(b, k + 2, end), f[Rest(b, end + 2)])
        ELSE {}
Parts(f, b) == UNION {Term(f, b, k) : k \in FirstLine(b)}

Short(n) == {b \in Seq(Bytes) : Len(b) < n}
Solves(f, n) == f = [b \in Short(n) |-> Parts(f, b)]

LEMMA Shortest ==
  ASSUME NEW S, S \subseteq Seq(Bytes), S # {}
  PROVE  \E b \in S : \A c \in S : Len(b) <= Len(c)
  <1> DEFINE L == {Len(b) : b \in S}
  <1>1. L \subseteq Nat /\ L # {}
    <2>1. \A b \in S : Len(b) \in Nat
      BY LenProperties
    <2>2. PICK b \in S : TRUE
      OBVIOUS
    <2>3. Len(b) \in L
      OBVIOUS
    <2> QED
      BY <2>1, <2>3
  <1>2. Min(L) \in L /\ \A m \in L : Min(L) <= m
    BY <1>1, LeastNatural
  <1> QED
    BY <1>2

\* The rest of a body behind a chunk is shorter.
LEMMA RestIsShorter ==
  ASSUME NEW b \in Seq(Bytes), NEW i \in Nat, Eol(b, i)
  PROVE  Rest(b, i + 2) \in Seq(Bytes) /\ Len(Rest(b, i + 2)) < Len(b) /\ Len(Rest(b, i + 2)) \in Nat
  <1>1. Len(b) \in Nat /\ i + 2 <= Len(b)
    BY LenProperties DEF Eol
  <1>2. PICK p \in 0 .. Len(b) : p = i + 2
    BY <1>1
  <1>3. Rest(b, p) \in Seq(Bytes) /\ Len(Rest(b, p)) = Len(b) - p
    BY RestIs
  <1> QED
    BY <1>1, <1>2, <1>3

\* Only shorter bodies matter on the right-hand side.
LEMMA PartsAreShorter ==
  ASSUME NEW f, NEW g, NEW b \in Seq(Bytes),
         \A c \in Seq(Bytes) : Len(c) < Len(b) => f[c] = g[c]
  PROVE  Parts(f, b) = Parts(g, b)
  <1>1. ASSUME NEW k \in FirstLine(b) PROVE Term(f, b, k) = Term(g, b, k)
    <2> DEFINE n == SizeOf(Slice(b, 0, k))
    <2>1. k \in Nat
      BY DEF FirstLine
    <2>2. n = None \/ n \in Nat
      BY SizeType
    <2>3. CASE n # None /\ n # 0 /\ Eol(b, k + 2 + n)
      <3>1. k + 2 + n \in Nat
        BY <2>1, <2>2, <2>3
      <3>2. f[Rest(b, k + 2 + n + 2)] = g[Rest(b, k + 2 + n + 2)]
        BY <2>3, <3>1, RestIsShorter
      <3> QED
        BY <2>3, <3>2 DEF Term
    <2>4. CASE ~(n # None /\ n # 0 /\ Eol(b, k + 2 + n))
      BY <2>4 DEF Term
    <2> QED
      BY <2>3, <2>4
  <1>2. {Term(f, b, k) : k \in FirstLine(b)} = {Term(g, b, k) : k \in FirstLine(b)}
    BY <1>1
  <1> QED
    BY <1>2 DEF Parts

\* Two solutions agree where both are defined.
LEMMA SolutionsAgree ==
  ASSUME NEW f, NEW g, NEW m \in Nat, NEW n \in Nat, Solves(f, m), Solves(g, n)
  PROVE  \A b \in Short(m) \cap Short(n) : f[b] = g[b]
  <1> DEFINE S == {b \in Short(m) \cap Short(n) : f[b] # g[b]}
  <1>1. SUFFICES ASSUME S # {} PROVE FALSE
    OBVIOUS
  <1>2. S \subseteq Seq(Bytes)
    BY DEF Short
  <1>3. PICK b \in S : \A c \in S : Len(b) <= Len(c)
    BY <1>1, <1>2, Shortest
  <1>4. b \in Seq(Bytes) /\ b \in Short(m) /\ b \in Short(n) /\ Len(b) \in Nat /\ Len(b) < m /\ Len(b) < n /\ f[b] # g[b]
    BY <1>2, <1>3 DEF Short
  <1>5. \A c \in Seq(Bytes) : Len(c) < Len(b) => f[c] = g[c]
    <2> SUFFICES ASSUME NEW c \in Seq(Bytes), Len(c) < Len(b) PROVE f[c] = g[c]
      OBVIOUS
    <2>1. Len(c) \in Nat /\ Len(c) < m /\ Len(c) < n /\ ~(Len(b) <= Len(c))
      BY <1>4
    <2>2. c \in Short(m) \cap Short(n)
      BY <2>1 DEF Short
    <2> QED
      BY <1>3, <2>1, <2>2
  <1>6. Parts(f, b) = Parts(g, b)
    BY <1>4, <1>5, PartsAreShorter
  <1>7. f[b] = Parts(f, b) /\ g[b] = Parts(g, b)
    BY <1>4 DEF Solves
  <1> QED
    BY <1>4, <1>6, <1>7

\* There is a solution up to every length.
LEMMA SolutionsExist == \A n \in Nat : \E f : Solves(f, n)
  <1> DEFINE Bad == {n \in Nat : ~ \E f : Solves(f, n)}
  <1>1. SUFFICES ASSUME Bad # {} PROVE FALSE
    OBVIOUS
  <1>2. Min(Bad) \in Bad /\ \A m \in Bad : Min(Bad) <= m
    BY <1>1, LeastNatural
  <1>3. PICK n \in Bad : \A m \in Bad : n <= m
    BY <1>2
  <1>4. n # 0
    <2>1. Short(0) = {}
      BY DEF Short
    <2> DEFINE f == [b \in Short(0) |-> {}]
    <2>2. f = [b \in Short(0) |-> Parts(f, b)]
      BY <2>1
    <2>3. Solves(f, 0)
      BY <2>2 DEF Solves
    <2> QED
      BY <1>3, <2>3
  <1>5. n \in Nat /\ n - 1 \in Nat /\ n - 1 < n
    BY <1>3, <1>4
  <1>6. PICK f : Solves(f, n - 1)
    BY <1>3, <1>5
  <1> DEFINE g == [b \in Short(n) |-> Parts(f, b)]
  <1>7. \A c \in Short(n - 1) : c \in Short(n) /\ f[c] = g[c]
    <2>1. \A c \in Short(n - 1) : c \in Short(n)
      BY <1>5 DEF Short
    <2>2. \A c \in Short(n - 1) : f[c] = Parts(f, c)
      BY <1>6 DEF Solves
    <2> QED
      BY <2>1, <2>2
  <1> HIDE DEF g
  <1>8. \A b \in Short(n) : Parts(f, b) = Parts(g, b)
    <2> SUFFICES ASSUME NEW b \in Short(n) PROVE Parts(f, b) = Parts(g, b)
      OBVIOUS
    <2>1. b \in Seq(Bytes) /\ Len(b) \in Nat /\ Len(b) < n
      BY DEF Short
    <2>2. \A c \in Seq(Bytes) : Len(c) < Len(b) => c \in Short(n - 1)
      BY <1>5, <2>1 DEF Short
    <2> QED
      BY <1>7, <2>1, <2>2, PartsAreShorter
  <1>9. Solves(g, n)
    BY <1>8 DEF Solves, g
  <1> QED
    BY <1>3, <1>9

\* decode_chunked_body's reference obeys its equation.
LEMMA SaidUnfolds == \A b \in Seq(Bytes) : Said[b] = Parts(Said, b)
  <1> DEFINE Sol(n) == CHOOSE f : Solves(f, n)
             F == [b \in Seq(Bytes) |-> Sol(Len(b) + 1)[b]]
  <1>1. \A n \in Nat : Solves(Sol(n), n)
    BY SolutionsExist
  <1> HIDE DEF Sol
  <1>2. \A b \in Seq(Bytes) : F[b] = Parts(F, b)
    <2> SUFFICES ASSUME NEW b \in Seq(Bytes) PROVE F[b] = Parts(F, b)
      OBVIOUS
    <2> DEFINE n == Len(b) + 1
    <2>1. n \in Nat /\ b \in Short(n) /\ F[b] = Sol(n)[b]
      BY DEF Short
    <2>2. Solves(Sol(n), n)
      BY <1>1, <2>1
    <2>3. Sol(n)[b] = Parts(Sol(n), b)
      BY <2>1, <2>2 DEF Solves
    <2>4. \A c \in Seq(Bytes) : Len(c) < Len(b) => Sol(n)[c] = F[c]
      <3> SUFFICES ASSUME NEW c \in Seq(Bytes), Len(c) < Len(b) PROVE Sol(n)[c] = F[c]
        OBVIOUS
      <3> DEFINE m == Len(c) + 1
      <3>1. m \in Nat /\ c \in Short(m) /\ c \in Short(n) /\ F[c] = Sol(m)[c]
        BY DEF Short
      <3>2. Solves(Sol(m), m)
        BY <1>1, <3>1
      <3> HIDE DEF F, m, n
      <3> QED
        BY <2>1, <2>2, <3>1, <3>2, SolutionsAgree
    <2> HIDE DEF F, n
    <2>5. Parts(Sol(n), b) = Parts(F, b)
      BY <2>4, PartsAreShorter
    <2> QED
      BY <2>1, <2>3, <2>5
  <1>3. \E f : f = [b \in Seq(Bytes) |-> Parts(f, b)]
    <2>1. F = [b \in Seq(Bytes) |-> Parts(F, b)]
      BY <1>2
    <2> QED
      BY <2>1
  <1>4. Said = [b \in Seq(Bytes) |-> Parts(Said, b)]
    BY <1>3 DEF Said, Parts, Term, After
  <1> QED
    BY <1>4

-----------------------------------------------------------------------------
(* What a body says, by its first line.                                     *)

\* A chunk of n bytes whose size line goes from p to e, and the empty chunk.
Chunk(b, p, e, n) == LineAt(b, p, e) /\ n = SizeOf(Slice(b, p, e)) /\ n \in Nat \ {0} /\ Eol(b, e + 2 + n)
LastLine(b, p, e) == LineAt(b, p, e) /\ SizeOf(Slice(b, p, e)) = 0

LEMMA FirstLineIs ==
  ASSUME NEW b \in Seq(Bytes), NEW k
  PROVE  k \in FirstLine(b) <=> LineAt(b, 0, k)
  <1>1. LineAt(b, 0, k) => k \in 0 .. Len(b) - 2
    BY LineFits
  <1>2. k \in 0 .. Len(b) - 2 => k \in Nat /\ 0 <= k
    BY LenProperties
  <1> QED
    BY <1>1, <1>2 DEF FirstLine, LineAt

LEMMA LineSays ==
  ASSUME NEW b \in Seq(Bytes), NEW k, LineAt(b, 0, k)
  PROVE  Said[b] = Term(Said, b, k)
  <1>1. FirstLine(b) = {k}
    BY FirstLineIs, OneLine
  <1> QED
    BY <1>1, SaidUnfolds DEF Parts

LEMMA NoLineSays ==
  ASSUME NEW b \in Seq(Bytes), \A k : ~LineAt(b, 0, k)
  PROVE  Said[b] = {}
  <1>1. FirstLine(b) = {}
    BY FirstLineIs
  <1> QED
    BY <1>1, SaidUnfolds DEF Parts

LEMMA SaysNothing ==
  ASSUME NEW b \in Seq(Bytes), NEW e, LastLine(b, 0, e)
  PROVE  Said[b] = {<<>>}
  BY LineSays DEF LastLine, Term

LEMMA SaysRest ==
  ASSUME NEW b \in Seq(Bytes), NEW e, NEW n, Chunk(b, 0, e, n)
  PROVE  Said[b] = After(Slice(b, e + 2, e + 2 + n), Said[Rest(b, e + 2 + n + 2)])
  <1>1. n # 0 /\ n # None /\ n = SizeOf(Slice(b, 0, e)) /\ Eol(b, e + 2 + n) /\ LineAt(b, 0, e)
    BY SizeType DEF Chunk, None
  <1>2. Said[b] = Term(Said, b, e)
    BY <1>1, LineSays
  <1> QED
    BY <1>1, <1>2 DEF Term

LEMMA SaidCases ==
  ASSUME NEW b \in Seq(Bytes), Said[b] # {}
  PROVE  (\E e : LastLine(b, 0, e)) \/ (\E e, n : Chunk(b, 0, e, n))
  <1>1. PICK e : LineAt(b, 0, e)
    BY NoLineSays
  <1>2. PICK n : n = SizeOf(Slice(b, 0, e))
    OBVIOUS
  <1>3. CASE n = 0
    BY <1>1, <1>2, <1>3 DEF LastLine
  <1>4. CASE n # 0
    <2>1. n # None /\ Eol(b, e + 2 + n)
      BY <1>1, <1>2, <1>4, LineSays DEF Term
    <2>2. n \in Nat \ {0}
      BY <1>2, <1>4, <2>1, SizeType
    <2> QED
      BY <1>1, <1>2, <2>1, <2>2 DEF Chunk
  <1> QED
    BY <1>3, <1>4

\* The data and the rest of a body behind a chunk.
LEMMA ChunkFits ==
  ASSUME NEW b \in Seq(Bytes), NEW p \in Nat, NEW e, NEW n, Chunk(b, p, e, n)
  PROVE  /\ e \in Nat /\ n \in Nat /\ n > 0 /\ e + 2 + n + 2 \in 0 .. Len(b)
         /\ Slice(b, e + 2, e + 2 + n) \in Seq(Bytes)
         /\ Rest(b, e + 2 + n + 2) \in Seq(Bytes)
         /\ Len(Rest(b, e + 2 + n + 2)) < Len(b) /\ Len(Rest(b, e + 2 + n + 2)) \in Nat
  <1>1. e \in Nat /\ n \in Nat /\ n > 0 /\ Eol(b, e + 2 + n) /\ Len(b) \in Nat
    BY LineFits DEF Chunk
  <1>2. e + 2 + n + 2 <= Len(b)
    BY <1>1 DEF Eol
  <1>3. e + 2 \in Nat /\ e + 2 + n \in Nat /\ e + 2 + n <= Len(b) /\ e + 2 + n + 2 \in 0 .. Len(b)
    BY <1>1, <1>2
  <1>4. Slice(b, e + 2, e + 2 + n) \in Seq(Bytes)
    BY <1>1, <1>3, SliceIs
  <1>5. /\ Rest(b, e + 2 + n + 2) \in Seq(Bytes)
        /\ Len(Rest(b, e + 2 + n + 2)) < Len(b) /\ Len(Rest(b, e + 2 + n + 2)) \in Nat
    BY <1>1, <1>3, RestIsShorter
  <1> QED
    BY <1>1, <1>3, <1>4, <1>5

\* What is said are bytes.
LEMMA SaidType == \A b \in Seq(Bytes) : Said[b] \subseteq Seq(Bytes)
  <1> DEFINE S == {b \in Seq(Bytes) : ~(Said[b] \subseteq Seq(Bytes))}
  <1>1. SUFFICES ASSUME S # {} PROVE FALSE
    OBVIOUS
  <1>2. PICK b \in S : \A c \in S : Len(b) <= Len(c)
    BY <1>1, Shortest
  <1>3. b \in Seq(Bytes) /\ Len(b) \in Nat /\ ~(Said[b] \subseteq Seq(Bytes))
    BY <1>2, LenProperties
  <1>4. \A e : ~LastLine(b, 0, e)
    <2>1. {<<>>} \subseteq Seq(Bytes)
      OBVIOUS
    <2> QED
      BY <1>3, <2>1, SaysNothing
  <1>5. PICK e, n : Chunk(b, 0, e, n)
    <2>1. Said[b] # {}
      BY <1>3
    <2> QED
      BY <1>3, <1>4, <2>1, SaidCases
  <1> DEFINE r == Rest(b, e + 2 + n + 2)
             d == Slice(b, e + 2, e + 2 + n)
  <1>6. Said[b] = After(d, Said[r])
    BY <1>3, <1>5, SaysRest
  <1>7. r \in Seq(Bytes) /\ Len(r) < Len(b) /\ Len(r) \in Nat /\ d \in Seq(Bytes)
    BY <1>3, <1>5, ChunkFits
  <1> HIDE DEF r, d
  <1>8. r \notin S
    BY <1>2, <1>3, <1>7
  <1>9. Said[r] \subseteq Seq(Bytes)
    BY <1>7, <1>8
  <1>10. \A more \in Said[r] : d \o more \in Seq(Bytes)
    BY <1>7, <1>9, ConcatProperties
  <1> QED
    BY <1>3, <1>6, <1>10 DEF After

-----------------------------------------------------------------------------
(* One turn of decode_chunked_body against it.                              *)

\* The chunks of a piece are chunks of the whole.
LEMMA ChunkWithin ==
  ASSUME NEW b \in Seq(Bytes), NEW c \in Seq(Bytes), NEW p \in Nat, Within(c, b, p),
         NEW e, NEW n, Chunk(c, 0, e, n)
  PROVE  /\ Chunk(b, p, p + e, n)
         /\ Slice(b, p + e + 2, p + e + 2 + n) = Slice(c, e + 2, e + 2 + n)
  <1>1. e \in Nat /\ n \in Nat /\ n > 0 /\ Len(c) \in Nat /\ e + 2 + n + 2 <= Len(c)
    BY ChunkFits, LenProperties
  <1>2. LineAt(b, p, p + e)
    BY LineWithin DEF Chunk
  <1>3. Slice(c, 0, 0 + e) = Slice(b, p + 0, p + 0 + e)
    <2>1. 0 \in Nat /\ 0 + e <= Len(c)
      BY <1>1
    <2> QED
      BY <1>1, <2>1, SliceWithin
  <1>4. 0 + e = e /\ p + 0 = p /\ p + 0 + e = p + e
    BY <1>1
  <1>5. n = SizeOf(Slice(b, p, p + e))
    BY <1>3, <1>4 DEF Chunk
  <1>6. PICK i \in Nat : i = e + 2
    BY <1>1
  <1>7. /\ i + n \in Nat /\ i + n + 2 <= Len(c) /\ i + n <= Len(c) /\ i + n = e + 2 + n
        /\ p + (i + n) = p + e + 2 + n /\ p + i = p + e + 2 /\ p + i + n = p + e + 2 + n
    BY <1>1, <1>6
  <1>8. Eol(b, p + (i + n))
    <2>1. Eol(c, i + n)
      BY <1>7 DEF Chunk
    <2> QED
      BY <1>7, <2>1, EolWithin
  <1>9. Slice(c, i, i + n) = Slice(b, p + i, p + i + n)
    <2>1. PICK k \in Nat : k = n
      BY <1>1
    <2>2. i + k <= Len(c)
      BY <1>7, <2>1
    <2>3. Slice(c, i, i + k) = Slice(b, p + i, p + i + k)
      BY <2>2, SliceWithin, ZenonT(60)
    <2> QED
      BY <2>1, <2>3
  <1> QED
    BY <1>1, <1>2, <1>5, <1>6, <1>7, <1>8, <1>9 DEF Chunk

LEMMA LastWithin ==
  ASSUME NEW b \in Seq(Bytes), NEW c \in Seq(Bytes), NEW p \in Nat, Within(c, b, p),
         NEW e, LastLine(c, 0, e)
  PROVE  LastLine(b, p, p + e)
  <1>1. e \in Nat /\ Len(c) \in Nat /\ e + 2 <= Len(c)
    BY LineFits DEF LastLine
  <1>2. LineAt(b, p, p + e)
    BY LineWithin DEF LastLine
  <1>3. Slice(c, 0, 0 + e) = Slice(b, p + 0, p + 0 + e)
    <2>1. 0 \in Nat /\ 0 + e <= Len(c)
      BY <1>1
    <2> QED
      BY <1>1, <2>1, SliceWithin
  <1>4. 0 + e = e /\ p + 0 = p /\ p + 0 + e = p + e
    BY <1>1
  <1> QED
    BY <1>2, <1>3, <1>4 DEF LastLine

\* Places behind a chunk, counted from p.
LEMMA Shifted ==
  ASSUME NEW p \in Nat, NEW e \in Nat, NEW n \in Nat, NEW k \in Nat, NEW l \in Nat, NEW m \in Nat,
         l = m - p, k = e - p, e + 2 + n + 2 <= m
  PROVE  /\ k + 2 + n \in Nat /\ k + 2 \in Nat /\ k + 2 + n + 2 <= l /\ k <= l /\ k + 2 + n <= l
         /\ p + 0 + k = e /\ p + 0 = p /\ 0 + k = k
         /\ p + (k + 2 + n) = e + 2 + n /\ p + (k + 2 + n + 2) = e + 2 + n + 2
  OBVIOUS

\* Behind a chunk the body says the chunk's data and then what the rest says.
LEMMA ReadChunk ==
  ASSUME NEW b \in Seq(Bytes), NEW p \in 0 .. Len(b), NEW e, NEW n, Chunk(b, p, e, n)
  PROVE  Said[Rest(b, p)] = After(Slice(b, e + 2, e + 2 + n), Said[Rest(b, e + 2 + n + 2)])
  <1> DEFINE r == Rest(b, p)
  <1>1. Len(b) \in Nat /\ p \in Nat
    BY LenProperties
  <1>2. r \in Seq(Bytes) /\ Len(r) = Len(b) - p /\ Within(r, b, p)
    BY RestIs
  <1>3. /\ e \in Nat /\ n \in Nat /\ n > 0 /\ e + 2 + n + 2 \in 0 .. Len(b) /\ p <= e
        /\ LineAt(b, p, e) /\ n = SizeOf(Slice(b, p, e)) /\ Eol(b, e + 2 + n)
    BY <1>1, ChunkFits, LineFits DEF Chunk
  <1>4. PICK k \in Nat : k = e - p
    BY <1>1, <1>3
  <1>5. LineAt(r, 0, k)
    BY <1>3, <1>4, LineOfRest
  <1> HIDE DEF r
  <1>6. /\ k + 2 + n \in Nat /\ k + 2 \in Nat /\ k + 2 + n + 2 <= Len(r) /\ k <= Len(r) /\ k + 2 + n <= Len(r)
        /\ p + 0 + k = e /\ p + 0 = p /\ 0 + k = k
        /\ p + (k + 2 + n) = e + 2 + n /\ p + (k + 2 + n + 2) = e + 2 + n + 2
    <2>1. PICK l \in Nat, m \in Nat, i \in Nat, j \in Nat : l = Len(r) /\ m = Len(b) /\ i = n /\ j = e
      BY <1>1, <1>2, <1>3, LenProperties
    <2>2. l = m - p /\ k = j - p /\ j + 2 + i + 2 <= m
      BY <1>1, <1>2, <1>3, <1>4, <2>1
    <2>3. /\ k + 2 + i \in Nat /\ k + 2 \in Nat /\ k + 2 + i + 2 <= l /\ k <= l /\ k + 2 + i <= l
          /\ p + 0 + k = j /\ p + 0 = p /\ 0 + k = k
          /\ p + (k + 2 + i) = j + 2 + i /\ p + (k + 2 + i + 2) = j + 2 + i + 2
      BY <1>1, <2>2, Shifted
    <2> QED
      BY <2>1, <2>3
  <1>7. n = SizeOf(Slice(r, 0, k))
    <2>1. 0 \in Nat /\ 0 + k <= Len(r)
      BY <1>6
    <2>2. Slice(r, 0, 0 + k) = Slice(b, p + 0, p + 0 + k)
      BY <1>1, <1>2, <2>1, SliceWithin
    <2> QED
      BY <1>3, <1>6, <2>2
  <1>8. Eol(r, k + 2 + n)
    <2>1. Eol(r, k + 2 + n) <=> Eol(b, p + (k + 2 + n))
      BY <1>1, <1>2, <1>6, EolWithin
    <2> QED
      BY <1>3, <1>6, <2>1
  <1>9. Chunk(r, 0, k, n)
    BY <1>3, <1>5, <1>7, <1>8 DEF Chunk
  <1>10. Said[r] = After(Slice(r, k + 2, k + 2 + n), Said[Rest(r, k + 2 + n + 2)])
    BY <1>2, <1>9, SaysRest
  <1>11. Slice(b, e + 2, e + 2 + n) = Slice(r, k + 2, k + 2 + n)
    <2>1. Slice(b, p + k + 2, p + k + 2 + n) = Slice(r, k + 2, k + 2 + n)
      BY <1>1, <1>2, <1>9, ChunkWithin
    <2>2. p + k + 2 = e + 2 /\ p + k + 2 + n = e + 2 + n
      BY <1>1, <1>3, <1>4
    <2> QED
      BY <2>1, <2>2
  <1>12. Rest(r, k + 2 + n + 2) = Rest(b, e + 2 + n + 2)
    <2>1. PICK q \in 0 .. Len(r) : q = k + 2 + n + 2
      BY <1>6
    <2>2. PICK m \in 0 .. Len(b) : m = e + 2 + n + 2
      BY <1>3
    <2>3. p + q = m /\ q \in Nat /\ m \in Nat /\ Len(r) \in Nat
      <3>1. p + q = m
        BY <1>6, <2>1, <2>2
      <3>2. Len(r) \in Nat
        BY <1>2, LenProperties
      <3> QED
        BY <1>1, <3>1, <3>2
    <2>4. PICK s, t : s = Rest(r, q) /\ t = Rest(b, m)
      OBVIOUS
    <2>5. s \in Seq(Bytes) /\ Len(s) = Len(r) - q /\ \A i \in 1 .. Len(r) - q : s[i] = r[q + i]
      BY <1>2, <2>4, RestIs
    <2>6. t \in Seq(Bytes) /\ Len(t) = Len(b) - m /\ \A i \in 1 .. Len(b) - m : t[i] = b[m + i]
      BY <2>4, RestIs
    <2>7. Len(r) - q = Len(b) - m
      BY <1>1, <1>2, <2>3
    <2>8. ASSUME NEW i \in 1 .. Len(r) - q PROVE r[q + i] = b[m + i]
      <3>1. q + i \in 1 .. Len(r) /\ p + (q + i) = m + i
        BY <1>1, <2>3
      <3> QED
        BY <1>2, <3>1 DEF Within
    <2>9. s = t
      BY <2>5, <2>6, <2>7, <2>8, SeqEqual
    <2> QED
      BY <2>1, <2>2, <2>4, <2>9
  <1> QED
    BY <1>10, <1>11, <1>12 DEF r

-----------------------------------------------------------------------------
(* decode_chunked_body as a whole.                                          *)

\* While it decodes: the body says what has come out and then what the rest says.
ReadSoFar(b, p, o) == p \in 0 .. Len(b) /\ Said[b] = After(o, Said[Rest(b, p)])

\* What the states of attest() have to do with the answer.
DecodeInv ==
  /\ answer \in Answers \cup {NoAnswer}
  /\ out \in Seq(Bytes)
  /\ tee = "gcp" /\ pc \in {"connecting", "requested"} => answer = NoAnswer
  /\ tee = "gcp" /\ pc \in {"connecting", "requested", "parsing"} => pos = 0 /\ out = <<>>
  /\ pc \in {"asking", "connecting", "requested", "parsing", "decoding", "decoded", "done", "failed", "panicked"}
  /\ pc \in {"connecting", "requested", "parsing", "decoding", "decoded"} => tee = "gcp"
  /\ pc = "asking" => tee # "gcp"
  /\ pc = "decoding" => ReadSoFar(answer.body, pos, out)
  /\ pc = "decoded" /\ answer.chunked => Said[answer.body] = {out}
  /\ DecodesWhatIsSaid

\* The bodies decode_chunked_body is given.
LEMMA BodyType ==
  ASSUME NEW a \in Answers \cup {NoAnswer}
  PROVE  a.body \in Seq(Bytes) /\ Len(a.body) \in Nat /\ Len(a.body) < MaxUsize /\ MaxUsize \in Nat
  <1>1. CASE a \in Answers
    BY <1>1, AnswerAssumption, UsizeAssumption, LenProperties
  <1>2. CASE a = NoAnswer
    <2>1. a.body = <<>>
      BY <1>2 DEF NoAnswer
    <2> QED
      BY <2>1, UsizeAssumption
  <1> QED
    BY <1>1, <1>2

\* At its beginning.
LEMMA NothingRead ==
  ASSUME NEW b \in Seq(Bytes)
  PROVE  ReadSoFar(b, 0, <<>>)
  <1>1. Rest(b, 0) = b /\ 0 \in 0 .. Len(b)
    BY SubSeqFull, LenProperties DEF Rest, Slice
  <1>2. \A m \in Said[b] : <<>> \o m = m
    BY SaidType, ConcatEmptySeq
  <1> QED
    BY <1>1, <1>2 DEF ReadSoFar, After

LEMMA Regroup ==
  ASSUME NEW x \in Seq(Bytes), NEW y \in Seq(Bytes), NEW z \in Seq(Bytes)
  PROVE  x \o (y \o z) = (x \o y) \o z
  <1>1. \A s, t \in Seq(Bytes) :
          /\ s \o t \in Seq(Bytes) /\ Len(s) \in Nat /\ Len(s \o t) = Len(s) + Len(t)
          /\ \A i \in 1 .. Len(s) + Len(t) : (s \o t)[i] = IF i <= Len(s) THEN s[i] ELSE t[i - Len(s)]
    BY ConcatProperties, LenProperties
  <1>2. PICK v \in Seq(Bytes), w \in Seq(Bytes) : v = x \o y /\ w = y \o z
    BY <1>1
  <1>3. PICK l \in Seq(Bytes), r \in Seq(Bytes) : l = x \o w /\ r = v \o z
    BY <1>1
  <1>4. /\ Len(v) = Len(x) + Len(y) /\ Len(w) = Len(y) + Len(z)
        /\ Len(l) = Len(x) + Len(w) /\ Len(r) = Len(v) + Len(z)
        /\ Len(x) \in Nat /\ Len(y) \in Nat /\ Len(z) \in Nat
    BY <1>1, <1>2, <1>3
  <1>5. Len(l) = Len(r)
    BY <1>4
  <1>6. ASSUME NEW i \in 1 .. Len(l) PROVE l[i] = r[i]
    <2>0. i \in 1 .. Len(x) + Len(w) /\ i \in 1 .. Len(v) + Len(z)
      BY <1>4
    <2>1. l[i] = IF i <= Len(x) THEN x[i] ELSE w[i - Len(x)]
      BY <1>1, <1>3, <2>0
    <2>2. r[i] = IF i <= Len(v) THEN v[i] ELSE z[i - Len(v)]
      BY <1>1, <1>3, <2>0
    <2>3. CASE i <= Len(x)
      <3>1. i \in 1 .. Len(x) + Len(y) /\ i <= Len(v)
        BY <1>4, <2>3
      <3>2. v[i] = x[i]
        BY <1>1, <1>2, <2>3, <3>1
      <3> QED
        BY <2>1, <2>2, <2>3, <3>1, <3>2
    <2>4. CASE ~(i <= Len(x)) /\ i <= Len(v)
      <3>1. i \in 1 .. Len(x) + Len(y) /\ i - Len(x) \in 1 .. Len(y) + Len(z) /\ i - Len(x) <= Len(y)
        BY <1>4, <2>4
      <3>2. v[i] = y[i - Len(x)]
        BY <1>1, <1>2, <2>4, <3>1
      <3>3. w[i - Len(x)] = y[i - Len(x)]
        BY <1>1, <1>2, <3>1
      <3> QED
        BY <2>1, <2>2, <2>4, <3>2, <3>3
    <2>5. CASE ~(i <= Len(x)) /\ ~(i <= Len(v))
      <3>1. i - Len(x) \in 1 .. Len(y) + Len(z) /\ ~(i - Len(x) <= Len(y)) /\ i - Len(x) - Len(y) = i - Len(v)
        BY <1>4, <2>0, <2>5
      <3>2. w[i - Len(x)] = z[i - Len(v)]
        BY <1>1, <1>2, <3>1
      <3> QED
        BY <2>1, <2>2, <2>5, <3>2
    <2> QED
      BY <2>3, <2>4, <2>5
  <1>7. l = r
    BY <1>5, <1>6, SeqEqual
  <1> QED
    BY <1>2, <1>3, <1>7

\* Behind a chunk.
LEMMA ChunkRead ==
  ASSUME NEW b \in Seq(Bytes), NEW p, NEW o \in Seq(Bytes), ReadSoFar(b, p, o),
         NEW e, NEW n, Chunk(b, p, e, n)
  PROVE  /\ o \o Slice(b, e + 2, e + 2 + n) \in Seq(Bytes)
         /\ ReadSoFar(b, e + 2 + n + 2, o \o Slice(b, e + 2, e + 2 + n))
  <1> DEFINE d == Slice(b, e + 2, e + 2 + n)
             t == Rest(b, e + 2 + n + 2)
  <1>1. p \in 0 .. Len(b) /\ p \in Nat /\ Said[b] = After(o, Said[Rest(b, p)])
    BY LenProperties DEF ReadSoFar
  <1>2. e + 2 + n + 2 \in 0 .. Len(b) /\ d \in Seq(Bytes) /\ t \in Seq(Bytes)
    BY <1>1, ChunkFits
  <1>3. Said[Rest(b, p)] = After(d, Said[t])
    BY <1>1, ReadChunk
  <1> HIDE DEF d, t
  <1>4. \A m \in Said[t] : o \o (d \o m) = (o \o d) \o m
    <2> SUFFICES ASSUME NEW m \in Said[t] PROVE o \o (d \o m) = (o \o d) \o m
      OBVIOUS
    <2>1. m \in Seq(Bytes)
      BY <1>2, SaidType
    <2> QED
      BY <1>2, <2>1, Regroup
  <1>5. Said[b] = {o \o (d \o m) : m \in Said[t]}
    BY <1>1, <1>3 DEF After
  <1>6. Said[b] = After(o \o d, Said[t])
    BY <1>4, <1>5 DEF After
  <1>7. o \o d \in Seq(Bytes)
    BY <1>2, ConcatProperties
  <1> QED
    BY <1>2, <1>6, <1>7 DEF ReadSoFar, d, t

\* At the empty chunk.
LEMMA AllRead ==
  ASSUME NEW b \in Seq(Bytes), NEW p, NEW o \in Seq(Bytes), ReadSoFar(b, p, o), NEW e, LastLine(b, p, e)
  PROVE  Said[b] = {o}
  <1> DEFINE r == Rest(b, p)
  <1>1. Len(b) \in Nat /\ p \in 0 .. Len(b) /\ p \in Nat /\ Said[b] = After(o, Said[r])
    BY LenProperties DEF ReadSoFar
  <1>2. r \in Seq(Bytes) /\ Len(r) = Len(b) - p /\ Within(r, b, p)
    BY <1>1, RestIs
  <1>3. e \in Nat /\ p <= e /\ e + 2 <= Len(b) /\ LineAt(b, p, e)
    BY <1>1, LineFits DEF LastLine
  <1>4. PICK k \in Nat : k = e - p
    BY <1>1, <1>3
  <1>5. LineAt(r, 0, k)
    BY <1>1, <1>3, <1>4, LineOfRest
  <1> HIDE DEF r
  <1>6. Slice(r, 0, 0 + k) = Slice(b, p + 0, p + 0 + k)
    <2>1. 0 \in Nat /\ 0 + k <= Len(r)
      BY <1>1, <1>2, <1>3, <1>4
    <2> QED
      BY <1>1, <1>2, <2>1, SliceWithin
  <1>7. 0 + k = k /\ p + 0 = p /\ p + 0 + k = e
    BY <1>1, <1>3, <1>4
  <1>8. LastLine(r, 0, k)
    BY <1>5, <1>6, <1>7 DEF LastLine
  <1>9. Said[r] = {<<>>}
    BY <1>2, <1>8, SaysNothing
  <1>10. o \o <<>> = o
    BY ConcatEmptySeq
  <1> QED
    BY <1>1, <1>9, <1>10 DEF After

\* Where there is neither, the body is none.
LEMMA NoBody ==
  ASSUME NEW b \in Seq(Bytes), NEW p, NEW o, ReadSoFar(b, p, o),
         \A e : ~LastLine(b, p, e), \A e, n : ~Chunk(b, p, e, n)
  PROVE  Said[b] = {}
  <1> DEFINE r == Rest(b, p)
  <1>1. p \in 0 .. Len(b) /\ p \in Nat /\ Said[b] = After(o, Said[r])
    BY LenProperties DEF ReadSoFar
  <1>2. r \in Seq(Bytes) /\ Within(r, b, p)
    BY <1>1, RestIs
  <1> HIDE DEF r
  <1>3. \A e : ~LastLine(r, 0, e)
    BY <1>1, <1>2, LastWithin
  <1>4. \A e, n : ~Chunk(r, 0, e, n)
    BY <1>1, <1>2, ChunkWithin
  <1>5. Said[r] = {}
    BY <1>2, <1>3, <1>4, SaidCases
  <1> QED
    BY <1>1, <1>5 DEF After

\* The size of the line from p to end; None if there is none.
SizeAt(b, p, end) == IF end = None THEN None ELSE SizeOf(Slice(b, p, end))

\* One turn of the loop, with the names it has in DecodeChunk.
TurnSays(b, p, o, end, size) ==
  /\ size = None \/ (size \in Nat /\ end \in Nat /\ end + 2 <= Len(b) /\ end # None)
  /\ size = 0 => Said[b] = {o}
  /\ size = None => Said[b] = {}
  /\ size # None /\ size # 0 /\ ~Eol(b, end + 2 + size) => Said[b] = {}
  /\ size # None /\ size # 0 /\ Eol(b, end + 2 + size) =>
       /\ o \o Slice(b, end + 2, end + 2 + size) \in Seq(Bytes)
       /\ ReadSoFar(b, end + 2 + size + 2, o \o Slice(b, end + 2, end + 2 + size))

LEMMA DecodeTurn ==
  ASSUME NEW b \in Seq(Bytes), NEW p, NEW o \in Seq(Bytes), ReadSoFar(b, p, o),
         NEW end, end = LineEnd(b, p),
         NEW size, size = SizeAt(b, p, end)
  PROVE  TurnSays(b, p, o, end, size)
  <1>1. p \in 0 .. Len(b) /\ Len(b) \in Nat /\ p \in Nat
    BY LenProperties DEF ReadSoFar
  <1>2. \/ end = None /\ \A e : ~LineAt(b, p, e)
        \/ end # None /\ LineAt(b, p, end)
    BY <1>1, LineEndIs
  <1>3. CASE end = None /\ \A e : ~LineAt(b, p, e)
    <2>1. size = None
      BY <1>3 DEF SizeAt
    <2>2. Said[b] = {}
      <3>1. \A e : ~LastLine(b, p, e)
        BY <1>3 DEF LastLine
      <3>2. \A e, n : ~Chunk(b, p, e, n)
        BY <1>3 DEF Chunk
      <3> QED
        BY <3>1, <3>2, NoBody
    <2>3. None # 0
      BY DEF None
    <2> QED
      BY <2>1, <2>2, <2>3 DEF TurnSays
  <1>4. CASE end # None /\ LineAt(b, p, end)
    <2>1. size = SizeOf(Slice(b, p, end))
      BY <1>4 DEF SizeAt
    <2>2. size = None \/ size \in Nat
      BY <2>1, SizeType
    <2>3. end \in Nat /\ end + 2 <= Len(b)
      BY <1>1, <1>4, LineFits
    <2>4. \A e : LineAt(b, p, e) => e = end
      BY <1>1, <1>4, OneLine
    <2>5. \A e : LastLine(b, p, e) => size = 0
      BY <2>1, <2>4 DEF LastLine
    <2>6. \A e, n : Chunk(b, p, e, n) => size = n /\ n \in Nat \ {0} /\ Eol(b, end + 2 + size)
      BY <2>1, <2>4 DEF Chunk
    <2>7. None \notin Nat
      BY DEF None
    <2>8. size = 0 => Said[b] = {o}
      BY <1>4, <2>1, AllRead DEF LastLine
    <2>9. size = None => Said[b] = {}
      BY <2>5, <2>6, <2>7, NoBody
    <2>10. size # None /\ size # 0 /\ ~Eol(b, end + 2 + size) => Said[b] = {}
      BY <2>5, <2>6, NoBody
    <2>11. ASSUME size # None, size # 0, Eol(b, end + 2 + size)
           PROVE  /\ o \o Slice(b, end + 2, end + 2 + size) \in Seq(Bytes)
                  /\ ReadSoFar(b, end + 2 + size + 2, o \o Slice(b, end + 2, end + 2 + size))
      <3>1. Chunk(b, p, end, size)
        BY <1>4, <2>1, <2>2, <2>11 DEF Chunk
      <3> QED
        BY <3>1, ChunkRead
    <2> QED
      BY <1>4, <2>2, <2>3, <2>8, <2>9, <2>10, <2>11 DEF TurnSays
  <1> QED
    BY <1>2, <1>3, <1>4

\* What the property says of an end that is none: nothing is said, or what is said
\* is not a token.
LEMMA EndsWell ==
  ASSUME DecodeInv, pc = "decoding", pc' = "failed", UNCHANGED <<tee, answer, out>>,
         Said[answer.body] = {}
  PROVE  DecodeInv'
  BY DEF DecodeInv, DecodesWhatIsSaid, Parsed

\* A chunk that meets the limit of usize is none.
LEMMA Beyond ==
  ASSUME NEW m \in Nat, NEW n \in Nat, n < m, NEW end \in Nat, NEW size \in Nat, end + 2 + size + 2 > m
  PROVE  ~(end + 2 + size + 2 <= n) /\ (end + 2 <= n => size + n >= m - 1)
  OBVIOUS

LEMMA DecodeChunkKeeps == ASSUME DecodeInv, DecodeChunk PROVE DecodeInv'
  <1> DEFINE b == answer.body
             end == LineEnd(b, pos)
             size == SizeAt(b, pos, end)
  <1>1. b \in Seq(Bytes) /\ Len(b) \in Nat /\ Len(b) < MaxUsize /\ MaxUsize \in Nat
    BY BodyType DEF DecodeInv
  <1>2. pc = "decoding" /\ tee = "gcp" /\ out \in Seq(Bytes) /\ ReadSoFar(b, pos, out) /\ UNCHANGED <<tee, answer>>
    BY DEF DecodeInv, DecodeChunk
  <1>3. TurnSays(b, pos, out, end, size)
    <2>1. PICK bb, ee, ss : bb = b /\ ee = end /\ ss = size
      OBVIOUS
    <2>2. TurnSays(bb, pos, out, ee, ss)
      BY <1>1, <1>2, <2>1, DecodeTurn
    <2> QED
      BY <2>1, <2>2
  <1>4. \/ (size = None \/ (size > 0 /\ end + 2 + size > MaxUsize)) /\ Fails
        \/ size = 0 /\ pc' = "decoded" /\ UNCHANGED <<out, token>>
        \/ /\ size > 0 /\ end + 2 + size <= MaxUsize /\ end + 2 + size + 2 > MaxUsize
           /\ pc' = "panicked" /\ UNCHANGED <<pos, out, token>>
        \/ /\ size > 0 /\ end + 2 + size + 2 <= MaxUsize /\ ~Eol(b, end + 2 + size)
           /\ Fails
        \/ /\ size # None /\ size # 0
           /\ ~(size > 0 /\ end + 2 + size > MaxUsize)
           /\ ~(size > 0 /\ end + 2 + size <= MaxUsize /\ end + 2 + size + 2 > MaxUsize)
           /\ ~(size > 0 /\ end + 2 + size + 2 <= MaxUsize /\ ~Eol(b, end + 2 + size))
           /\ out' = out \o Slice(b, end + 2, end + 2 + size)
           /\ pos' = end + 2 + size + 2 /\ UNCHANGED <<pc, token>>
    BY DEF DecodeChunk, SizeAt
  <1> HIDE DEF b, end, size
  <1>5. /\ size = None \/ (size \in Nat /\ end \in Nat /\ end + 2 <= Len(b) /\ end # None)
        /\ size = 0 => Said[b] = {out}
        /\ size = None => Said[b] = {}
        /\ size # None /\ size # 0 /\ ~Eol(b, end + 2 + size) => Said[b] = {}
        /\ size # None /\ size # 0 /\ Eol(b, end + 2 + size) =>
             /\ out \o Slice(b, end + 2, end + 2 + size) \in Seq(Bytes)
             /\ ReadSoFar(b, end + 2 + size + 2, out \o Slice(b, end + 2, end + 2 + size))
    BY <1>3 DEF TurnSays
  <1>6. size > 0 => size # None /\ size # 0 /\ size \in Nat /\ end \in Nat /\ end + 2 <= Len(b) /\ end # None
    <2>1. ~(None > 0)
      BY DEF None
    <2>2. ~(0 > 0)
      OBVIOUS
    <2> QED
      BY <1>5, <2>1, <2>2
  <1>7. size > 0 /\ end + 2 + size + 2 > MaxUsize => Said[b] = {} /\ size + Len(b) >= MaxUsize - 1
    <2> SUFFICES ASSUME size > 0, end + 2 + size + 2 > MaxUsize
                 PROVE  Said[b] = {} /\ size + Len(b) >= MaxUsize - 1
      OBVIOUS
    <2>1. PICK m \in Nat, n \in Nat, e \in Nat, s \in Nat : m = MaxUsize /\ n = Len(b) /\ e = end /\ s = size
      BY <1>1, <1>6
    <2>2. n < m /\ e + 2 + s + 2 > m /\ e + 2 <= n
      BY <1>1, <1>6, <2>1
    <2>3. ~(e + 2 + s + 2 <= n) /\ s + n >= m - 1
      BY <2>2, Beyond
    <2>4. ~Eol(b, end + 2 + size)
      BY <2>1, <2>3 DEF Eol
    <2> QED
      BY <1>5, <1>6, <2>1, <2>3, <2>4
  <1>8. CASE (size = None \/ (size > 0 /\ end + 2 + size > MaxUsize)) /\ Fails
    <2>1. Said[b] = {}
      <3>1. CASE size = None
        BY <1>5, <3>1
      <3>2. CASE size > 0 /\ end + 2 + size > MaxUsize
        <4>1. end + 2 + size + 2 > MaxUsize
          BY <1>1, <1>6, <3>2
        <4> QED
          BY <1>7, <3>2, <4>1
      <3> QED
        BY <1>8, <3>1, <3>2
    <2> QED
      BY <1>2, <1>8, <2>1, EndsWell DEF Fails, b
  <1>9. CASE size = 0 /\ pc' = "decoded" /\ UNCHANGED <<out, token>>
    BY <1>2, <1>5, <1>9 DEF DecodeInv, DecodesWhatIsSaid, Parsed, b
  <1>10. CASE /\ size > 0 /\ end + 2 + size <= MaxUsize /\ end + 2 + size + 2 > MaxUsize
              /\ pc' = "panicked" /\ UNCHANGED <<pos, out, token>>
    <2>1. Said[b] = {} /\ size + Len(b) >= MaxUsize - 1
      BY <1>7, <1>10
    <2>2. size = SizeOf(Slice(b, pos, LineEnd(b, pos)))
      BY <1>6, <1>10 DEF size, SizeAt, end
    <2>3. DecodesWhatIsSaid'
      BY <1>2, <1>10, <2>1, <2>2 DEF DecodesWhatIsSaid, b
    <2> QED
      BY <1>2, <1>10, <2>3 DEF DecodeInv
  <1>11. CASE size > 0 /\ end + 2 + size + 2 <= MaxUsize /\ ~Eol(b, end + 2 + size) /\ Fails
    <2>1. Said[b] = {}
      BY <1>5, <1>6, <1>11
    <2> QED
      BY <1>2, <1>11, <2>1, EndsWell DEF Fails, b
  <1>12. CASE /\ size # None /\ size # 0
              /\ ~(size > 0 /\ end + 2 + size > MaxUsize)
              /\ ~(size > 0 /\ end + 2 + size <= MaxUsize /\ end + 2 + size + 2 > MaxUsize)
              /\ ~(size > 0 /\ end + 2 + size + 2 <= MaxUsize /\ ~Eol(b, end + 2 + size))
              /\ out' = out \o Slice(b, end + 2, end + 2 + size)
              /\ pos' = end + 2 + size + 2 /\ UNCHANGED <<pc, token>>
    <2>1. size \in Nat /\ end \in Nat /\ size > 0
      BY <1>5, <1>12
    <2>2. Eol(b, end + 2 + size)
      BY <1>1, <1>12, <2>1
    <2>3. out' \in Seq(Bytes) /\ ReadSoFar(b, pos', out')
      BY <1>5, <1>12, <2>2
    <2>4. ReadSoFar(answer'.body, pos', out')
      BY <1>2, <2>3 DEF b
    <2> QED
      BY <1>2, <1>12, <2>3, <2>4 DEF DecodeInv, DecodesWhatIsSaid, Parsed
  <1> QED
    BY <1>4, <1>8, <1>9, <1>10, <1>11, <1>12

LEMMA ParseHeadKeeps == ASSUME DecodeInv, ParseHead PROVE DecodeInv'
  <1>1. pc = "parsing" /\ tee = "gcp" /\ pos = 0 /\ out = <<>> /\ UNCHANGED <<tee, answer>>
    BY DEF DecodeInv, ParseHead
  <1>2. answer.body \in Seq(Bytes) /\ Len(answer.body) < MaxUsize
    BY BodyType DEF DecodeInv
  <1>3. CASE ~answer.head \/ ~answer.ok
    <2>1. Fails
      BY <1>3 DEF ParseHead
    <2> QED
      BY <1>1, <1>3, <2>1 DEF Fails, DecodeInv, DecodesWhatIsSaid, Parsed
  <1>4. CASE answer.head /\ answer.ok /\ answer.chunked
    <2>1. pc' = "decoding" /\ UNCHANGED <<pos, out, token>>
      BY <1>4 DEF ParseHead
    <2>2. ReadSoFar(answer.body, 0, <<>>)
      BY <1>2, NothingRead
    <2>3. ReadSoFar(answer'.body, pos', out')
      BY <1>1, <2>1, <2>2
    <2> QED
      BY <1>1, <2>1, <2>3 DEF DecodeInv, DecodesWhatIsSaid, Parsed
  <1>5. CASE answer.head /\ answer.ok /\ ~answer.chunked
    <2>1. pc' = "decoded" /\ out' = answer.body
      BY <1>5 DEF ParseHead
    <2> QED
      BY <1>1, <1>2, <1>5, <2>1 DEF DecodeInv, DecodesWhatIsSaid, Parsed
  <1> QED
    BY <1>3, <1>4, <1>5

LEMMA TakeTokenKeeps == ASSUME DecodeInv, TakeToken PROVE DecodeInv'
  <1>1. pc = "decoded" /\ tee = "gcp" /\ UNCHANGED <<tee, answer, out>>
    BY DEF DecodeInv, TakeToken, Fails
  <1>2. IF Trim(out) = <<>> THEN pc' = "failed" ELSE pc' = "done" /\ token' = Trim(out)
    BY DEF TakeToken, Fails
  <1>3. answer.chunked => Said[answer.body] = {out}
    BY <1>1 DEF DecodeInv
  <1>4. DecodesWhatIsSaid'
    BY <1>1, <1>2, <1>3 DEF DecodesWhatIsSaid, Parsed
  <1> QED
    BY <1>1, <1>2, <1>4 DEF DecodeInv

LEMMA DecodeInvariance == Spec => []DecodeInv
<1>1. Init => DecodeInv
  <2> SUFFICES ASSUME Init PROVE DecodeInv
    OBVIOUS
  <2>1. <<>> \in Seq(Bytes)
    OBVIOUS
  <2> QED
    BY <2>1 DEF Init, DecodeInv, DecodesWhatIsSaid, Parsed
<1>2. DecodeInv /\ [Next]_vars => DecodeInv'
  <2> SUFFICES ASSUME DecodeInv, [Next]_vars PROVE DecodeInv'
    OBVIOUS
  <2>1. CASE SocketAppears \/ UNCHANGED vars \/ Ended
    BY <2>1 DEF SocketAppears, Ended, vars, tokenVars, DecodeInv, DecodesWhatIsSaid, Parsed
  <2>2. CASE TryConnect
    <3>1. tee = "gcp" /\ answer = NoAnswer /\ answer.head = FALSE
      BY <2>2 DEF TryConnect, DecodeInv, NoAnswer
    <3> QED
      BY <2>2, <3>1 DEF TryConnect, DecodeInv, DecodesWhatIsSaid, Parsed
  <2>3. CASE \E a \in Answers : LauncherAnswers(a)
    BY <2>3 DEF LauncherAnswers, DecodeInv, DecodesWhatIsSaid, Parsed
  <2>4. CASE (\E t \in Tables : ExtendedReport(t)) \/ PlainReport
    BY <2>4 DEF ExtendedReport, PlainReport, tokenVars, DecodeInv, DecodesWhatIsSaid, Parsed
  <2> QED
    BY <2>1, <2>2, <2>3, <2>4, ParseHeadKeeps, DecodeChunkKeeps, TakeTokenKeeps DEF Next
<1> QED
  BY <1>1, <1>2, PTL DEF Spec

\* decode_chunked_body decodes exactly the chunked bodies: for every usize::MAX, every
\* body that fits into memory, of any bytes and any number of chunks, and every way to
\* write a size that from_str_radix takes or refuses.
THEOREM DecodesAllBodies == Spec => []DecodesWhatIsSaid
<1>1. DecodeInv => DecodesWhatIsSaid
  BY DEF DecodeInv
<1> QED
  BY <1>1, DecodeInvariance, PTL

-----------------------------------------------------------------------------
(* A body that was cut.                                                     *)

\* A body says one thing at most.
LEMMA SaysOneThing == \A b \in Seq(Bytes) : \A x, y \in Said[b] : x = y
  <1> DEFINE S == {b \in Seq(Bytes) : \E x, y \in Said[b] : x # y}
  <1>1. SUFFICES ASSUME S # {} PROVE FALSE
    OBVIOUS
  <1>2. PICK b \in S : \A c \in S : Len(b) <= Len(c)
    BY <1>1, Shortest
  <1>3. b \in Seq(Bytes) /\ Len(b) \in Nat /\ \E x, y \in Said[b] : x # y
    BY <1>2, LenProperties
  <1>4. \A e : ~LastLine(b, 0, e)
    BY <1>3, SaysNothing
  <1>5. PICK e, n : Chunk(b, 0, e, n)
    BY <1>3, <1>4, SaidCases
  <1> DEFINE r == Rest(b, e + 2 + n + 2)
             d == Slice(b, e + 2, e + 2 + n)
  <1>6. Said[b] = After(d, Said[r])
    BY <1>3, <1>5, SaysRest
  <1>7. r \in Seq(Bytes) /\ Len(r) < Len(b) /\ Len(r) \in Nat
    BY <1>3, <1>5, ChunkFits
  <1> HIDE DEF r, d
  <1>8. r \notin S
    BY <1>2, <1>3, <1>7
  <1>9. \A x, y \in Said[r] : x = y
    BY <1>7, <1>8
  <1> QED
    BY <1>3, <1>6, <1>9 DEF After

\* b is the beginning of e.
Begins(b, e) == Within(b, e, 0)

LEMMA PrefixBegins ==
  ASSUME NEW b \in Seq(Bytes), NEW e \in Seq(Bytes), IsPrefix(b, e)
  PROVE  Begins(b, e)
  <1>1. Len(b) \in Nat /\ Len(e) \in Nat /\ Len(b) <= Len(e) /\ SubSeq(b, 1, Len(b)) = SubSeq(e, 1, Len(b))
    BY LenProperties DEF IsPrefix
  <1>2. \A i \in 1 .. Len(b) : SubSeq(b, 1, Len(b))[i] = b[i]
    BY <1>1
  <1>3. \A i \in 1 .. Len(b) : SubSeq(e, 1, Len(b))[i] = e[i]
    BY <1>1
  <1>4. 0 + Len(b) = Len(b) /\ \A i \in 1 .. Len(b) : 0 + i = i
    BY <1>1
  <1> QED
    BY <1>1, <1>2, <1>3, <1>4 DEF Begins, Within

\* The rests of both, behind a chunk of the beginning.
LEMMA RestBegins ==
  ASSUME NEW b \in Seq(Bytes), NEW e \in Seq(Bytes), Begins(b, e), NEW q \in 0 .. Len(b)
  PROVE  q \in 0 .. Len(e) /\ Rest(e, q) \in Seq(Bytes) /\ Begins(Rest(b, q), Rest(e, q))
  <1>1. Len(b) \in Nat /\ Len(e) \in Nat /\ Len(b) <= Len(e) /\ q \in Nat
    BY LenProperties DEF Begins, Within
  <1>2. \A i \in 1 .. Len(b) : b[i] = e[i]
    <2>1. \A i \in 1 .. Len(b) : 0 + i = i
      BY <1>1
    <2> QED
      BY <2>1 DEF Begins, Within
  <1>3. q \in 0 .. Len(e)
    BY <1>1
  <1>4. PICK s, t : s = Rest(b, q) /\ t = Rest(e, q)
    OBVIOUS
  <1>5. s \in Seq(Bytes) /\ Len(s) = Len(b) - q /\ \A i \in 1 .. Len(b) - q : s[i] = b[q + i]
    BY <1>4, RestIs
  <1>6. t \in Seq(Bytes) /\ Len(t) = Len(e) - q /\ \A i \in 1 .. Len(e) - q : t[i] = e[q + i]
    BY <1>3, <1>4, RestIs
  <1>7. 0 + Len(s) <= Len(t)
    BY <1>1, <1>5, <1>6
  <1>8. ASSUME NEW i \in 1 .. Len(s) PROVE s[i] = t[0 + i]
    <2>1. i \in 1 .. Len(b) - q /\ i \in 1 .. Len(e) - q /\ q + i \in 1 .. Len(b) /\ 0 + i = i
      BY <1>1, <1>5
    <2> QED
      BY <1>2, <1>5, <1>6, <2>1
  <1> QED
    BY <1>3, <1>4, <1>6, <1>7, <1>8 DEF Begins, Within

\* What a beginning says, the whole says.
LEMMA BeginningSays ==
  \A b, e \in Seq(Bytes) : Begins(b, e) => Said[b] \subseteq Said[e]
  <1> DEFINE S == {b \in Seq(Bytes) : \E e \in Seq(Bytes) : Begins(b, e) /\ ~(Said[b] \subseteq Said[e])}
  <1>1. SUFFICES ASSUME S # {} PROVE FALSE
    OBVIOUS
  <1>2. PICK b \in S : \A c \in S : Len(b) <= Len(c)
    BY <1>1, Shortest
  <1>3. b \in Seq(Bytes) /\ Len(b) \in Nat
    BY <1>2, LenProperties
  <1>4. PICK e \in Seq(Bytes) : Begins(b, e) /\ ~(Said[b] \subseteq Said[e])
    BY <1>2
  <1>5. ASSUME NEW k, LastLine(b, 0, k) PROVE FALSE
    <2>1. LastLine(e, 0, 0 + k)
      <3>1. 0 \in Nat /\ Within(b, e, 0)
        BY <1>4 DEF Begins
      <3> QED
        BY <1>3, <1>5, <3>1, LastWithin
    <2> QED
      BY <1>3, <1>4, <1>5, <2>1, SaysNothing
  <1>6. PICK k, n : Chunk(b, 0, k, n)
    <2>1. Said[b] # {}
      BY <1>4
    <2> QED
      BY <1>3, <1>5, <2>1, SaidCases
  <1>7. /\ k \in Nat /\ n \in Nat /\ k + 2 + n + 2 \in 0 .. Len(b)
        /\ Rest(b, k + 2 + n + 2) \in Seq(Bytes)
        /\ Len(Rest(b, k + 2 + n + 2)) < Len(b) /\ Len(Rest(b, k + 2 + n + 2)) \in Nat
    BY <1>3, <1>6, ChunkFits
  <1> DEFINE rb == Rest(b, k + 2 + n + 2)
             re == Rest(e, k + 2 + n + 2)
             d == Slice(b, k + 2, k + 2 + n)
  <1>8. Said[b] = After(d, Said[rb])
    BY <1>3, <1>6, SaysRest
  <1>9. Chunk(e, 0, k, n) /\ Slice(e, k + 2, k + 2 + n) = d
    <2>1. 0 \in Nat /\ Within(b, e, 0)
      BY <1>4 DEF Begins
    <2>2. Chunk(e, 0, 0 + k, n) /\ Slice(e, 0 + k + 2, 0 + k + 2 + n) = d
      BY <1>3, <1>6, <2>1, ChunkWithin
    <2>3. 0 + k = k
      BY <1>7
    <2> QED
      BY <2>2, <2>3
  <1>10. Said[e] = After(d, Said[re])
    <2>1. Said[e] = After(Slice(e, k + 2, k + 2 + n), Said[re])
      BY <1>9, SaysRest
    <2> QED
      BY <1>9, <2>1
  <1>11. re \in Seq(Bytes) /\ Begins(rb, re)
    BY <1>3, <1>4, <1>7, RestBegins
  <1>12. rb \in Seq(Bytes) /\ Len(rb) < Len(b) /\ Len(rb) \in Nat
    BY <1>7
  <1> HIDE DEF rb, re, d
  <1>13. rb \notin S
    <2> HIDE DEF S
    <2> QED
      BY <1>2, <1>3, <1>12
  <1>14. Said[rb] \subseteq Said[re]
    BY <1>11, <1>12, <1>13
  <1> QED
    BY <1>4, <1>8, <1>10, <1>14 DEF After

\* decode_chunked_body never takes a part of a token for the token: for every chunked
\* answer, wherever the connection broke and whatever the launcher was about to send.
\* (A plain body that was cut is not told from a whole one, and nothing is said of it.)
THEOREM NoCutPasses == Spec => []CutsAreNoticed
<1>1. DecodeInv => CutsAreNoticed
  <2> SUFFICES ASSUME DecodeInv, Parsed, pc = "done", answer.whole # <<>>
               PROVE  {Trim(s) : s \in Said[answer.whole]} = {token}
    BY DEF CutsAreNoticed
  <2>1. answer \in Answers
    BY DEF DecodeInv, NoAnswer
  <2>2. PICK b, e : b = answer.body /\ e = answer.whole
    OBVIOUS
  <2>3. b \in Seq(Bytes) /\ e \in Seq(Bytes) /\ IsPrefix(b, e)
    BY <2>1, <2>2, AnswerAssumption
  <2>4. Said[b] \subseteq Said[e]
    BY <2>3, PrefixBegins, BeginningSays
  <2>5. PICK s \in Said[b] : token = Trim(s)
    BY <2>2 DEF DecodeInv, DecodesWhatIsSaid
  <2>6. Said[e] = {s}
    BY <2>3, <2>4, <2>5, SaysOneThing
  <2> QED
    BY <2>2, <2>5, <2>6
<1> QED
  BY <1>1, DecodeInvariance, PTL
=============================================================================
