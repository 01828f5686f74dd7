---------------------------- MODULE TunnelProofs ----------------------------
(***************************************************************************)
(* The tunnel through the gateway, for every set of client requests, any   *)
(* number of TLS records and every way the streams are cut into reads.     *)
(* TunnelInv is the inductive invariant: at each moment the bytes that were*)
(* read, the ones in a BufReader and the ones in flight, put together, are *)
(* what was written.                                                       *)
(***************************************************************************)
EXTENDS Tunnel, TLAPS, SequenceTheorems

-----------------------------------------------------------------------------
(* Moving an item from one part of a stream to the next.                    *)

LEMMA Move ==
  ASSUME NEW A, NEW s \in Seq(A), NEW t \in Seq(A), t # <<>>
  PROVE  /\ Head(t) \in A /\ Tail(t) \in Seq(A) /\ Append(s, Head(t)) \in Seq(A)
         /\ Append(s, Head(t)) \o Tail(t) = s \o t
  <1>1. Head(t) \in A /\ Tail(t) \in Seq(A) /\ Append(s, Head(t)) \in Seq(A)
    BY HeadTailProperties, AppendProperties
  <1> DEFINE l == Append(s, Head(t)) \o Tail(t)
             r == s \o t
  <1>2. l \in Seq(A) /\ r \in Seq(A)
    BY <1>1, ConcatProperties
  <1>3. Len(l) = Len(r)
    BY <1>1
  <1>4. \A i \in 1 .. Len(l) : l[i] = r[i]
    BY <1>1
  <1> QED
    BY <1>2, <1>3, <1>4, SeqEqual

LEMMA AppendBehind ==
  ASSUME NEW A, NEW s \in Seq(A), NEW t \in Seq(A), NEW x \in A
  PROVE  s \o Append(t, x) = Append(s \o t, x) /\ s \o t \in Seq(A)
  <1> DEFINE l == s \o Append(t, x)
             r == Append(s \o t, x)
  <1>1. Append(t, x) \in Seq(A) /\ s \o t \in Seq(A)
    BY AppendProperties, ConcatProperties
  <1>2. l \in Seq(A) /\ r \in Seq(A)
    BY <1>1, AppendProperties, ConcatProperties
  <1>3. Len(l) = Len(r)
    BY <1>1
  <1>4. \A i \in 1 .. Len(l) : l[i] = r[i]
    BY <1>1
  <1> QED
    BY <1>1, <1>2, <1>3, <1>4, SeqEqual

\* A read cuts the link in two.
LEMMA Cut ==
  ASSUME NEW A, NEW s \in Seq(A), NEW n \in 1 .. Len(s)
  PROVE  /\ SubSeq(s, 1, n) \in Seq(A) /\ SubSeq(s, n + 1, Len(s)) \in Seq(A)
         /\ SubSeq(s, 1, n) \o SubSeq(s, n + 1, Len(s)) = s
         /\ \A i \in 1 .. n : SubSeq(s, 1, n)[i] = s[i]
         /\ Len(SubSeq(s, 1, n)) = n
  <1>1. SubSeq(s, 1, n) \in Seq(A) /\ SubSeq(s, n + 1, Len(s)) \in Seq(A)
    OBVIOUS
  <1>2. SubSeq(s, 1, n) \o SubSeq(s, n + 1, Len(s)) = SubSeq(s, 1, Len(s))
    BY ConcatAdjacentSubSeq
  <1> QED
    BY <1>1, <1>2, SubSeqFull

\* The first item of a non-empty buffer is the first of the stream.
LEMMA TakeFirst ==
  ASSUME NEW A, NEW s \in Seq(A), NEW t \in Seq(A), s # <<>>
  PROVE  /\ s[1] = (s \o t)[1] /\ Tail(s) \in Seq(A) /\ s \o t # <<>>
         /\ Tail(s) \o t = Tail(s \o t)
  <1>1. Tail(s) \in Seq(A) /\ s \o t \in Seq(A) /\ Len(s) >= 1
    BY HeadTailProperties, ConcatProperties, LenProperties
  <1>2. Len(s \o t) = Len(s) + Len(t) /\ s \o t # <<>> /\ (s \o t)[1] = s[1]
    BY <1>1
  <1>3. Tail(s \o t) \in Seq(A) /\ Tail(s) \o t \in Seq(A)
    BY <1>1, <1>2, HeadTailProperties, ConcatProperties
  <1>4. Len(Tail(s \o t)) = Len(Tail(s) \o t)
    BY <1>1, <1>2
  <1>5. \A i \in 1 .. Len(Tail(s) \o t) : (Tail(s) \o t)[i] = Tail(s \o t)[i]
    BY <1>1, <1>2
  <1> QED
    BY <1>1, <1>2, <1>3, <1>4, <1>5, SeqEqual

-----------------------------------------------------------------------------
(* What was written.                                                        *)

LEMMA WrittenIs ==
  ASSUME NEW n \in 0 .. MaxRecords, NEW b \in BOOLEAN
  PROVE  /\ Written(n, b) \in Seq(Items) /\ Ending(b) \in Seq(Items)
         /\ Len(Written(n, b)) = IF b THEN n + 1 ELSE n
         /\ \A i \in 1 .. Len(Written(n, b)) :
              Written(n, b)[i] = IF i <= n THEN Record(i) ELSE Eof
         /\ n = 0 => Written(n, b) = Ending(b)
  <1>1. n \in Nat /\ \A i \in 1 .. n : Record(i) \in Items
    BY RecordsAssumption DEF Items
  <1>2. Eof \in Items
    BY DEF Items
  <1> DEFINE R == Records(n)
             E == Ending(b)
  <1>3. R \in Seq(Items) /\ Len(R) = n /\ \A i \in 1 .. n : R[i] = Record(i)
    BY <1>1 DEF Records
  <1>4. /\ E \in Seq(Items) /\ Len(E) = IF b THEN 1 ELSE 0
        /\ b => E[1] = Eof
    BY <1>2 DEF Ending
  <1>5. Written(n, b) = R \o E
    BY DEF Written
  <1> HIDE DEF R, E
  <1>6. /\ R \o E \in Seq(Items) /\ Len(R \o E) = Len(R) + Len(E)
        /\ \A i \in 1 .. Len(R) + Len(E) :
             (R \o E)[i] = IF i <= Len(R) THEN R[i] ELSE E[i - Len(R)]
    BY <1>3, <1>4, ConcatProperties
  <1>7. n = 0 => R \o E = E
    <2>1. n = 0 => R = <<>>
      BY <1>3
    <2> QED
      BY <1>4, <2>1, ConcatEmptySeq
  <1>8. \A i \in 1 .. Len(R) + Len(E) : (R \o E)[i] = IF i <= n THEN Record(i) ELSE Eof
    <2> SUFFICES ASSUME NEW i \in 1 .. Len(R) + Len(E)
                 PROVE  (R \o E)[i] = IF i <= n THEN Record(i) ELSE Eof
      OBVIOUS
    <2>1. CASE i <= n
      BY <1>1, <1>3, <1>4, <1>6, <2>1
    <2>2. CASE i > n
      BY <1>1, <1>3, <1>4, <1>6, <2>2
    <2> QED
      BY <1>1, <2>1, <2>2
  <1> QED
    BY <1>3, <1>4, <1>5, <1>6, <1>7, <1>8 DEF E

LEMMA KindsDiffer ==
  /\ Eof \notin Lines
  /\ \A i : Record(i) # Eof /\ Record(i) \notin Lines
  /\ Blank # Eof /\ \A b \in BOOLEAN : StatusLine(b) # Eof /\ StatusLine(b) # Blank
  /\ Lines \subseteq Items /\ Eof \in Items
  <1>1. \A l \in Lines : l.kind # "eof" /\ l.kind # "record"
    BY DEF Lines, RequestLine, AuthLine, StatusLine, OtherLine, Blank
  <1>2. Eof.kind = "eof" /\ \A i : Record(i).kind = "record"
    BY DEF Eof, Record
  <1>3. Blank.kind = "blank" /\ \A b : StatusLine(b).kind = "status"
    BY DEF Blank, StatusLine
  <1> QED
    BY <1>1, <1>2, <1>3 DEF Items

\* Writing goes on where the stream ends.
LEMMA WriteMore ==
  ASSUME NEW n \in 0 .. MaxRecords
  PROVE  /\ Append(Written(n, FALSE), Eof) = Written(n, TRUE)
         /\ n < MaxRecords => Append(Written(n, FALSE), Record(n + 1)) = Written(n + 1, FALSE)
  <1> DEFINE W == Written(n, FALSE)
             T == Written(n, TRUE)
             M == Written(n + 1, FALSE)
  <1>0. n \in Nat
    BY RecordsAssumption
  <1>1. /\ W \in Seq(Items) /\ Len(W) = n
        /\ \A i \in 1 .. n : W[i] = Record(i)
    <2>1. /\ W \in Seq(Items) /\ Len(W) = n
          /\ \A i \in 1 .. Len(W) : W[i] = IF i <= n THEN Record(i) ELSE Eof
      BY WrittenIs
    <2> HIDE DEF W
    <2> QED
      BY <1>0, <2>1
  <1>2. /\ T \in Seq(Items) /\ Len(T) = n + 1
        /\ \A i \in 1 .. n + 1 : T[i] = IF i <= n THEN Record(i) ELSE Eof
    BY WrittenIs
  <1>3. n < MaxRecords =>
          /\ M \in Seq(Items) /\ Len(M) = n + 1
          /\ \A i \in 1 .. n + 1 : M[i] = IF i <= n + 1 THEN Record(i) ELSE Eof
          /\ Record(n + 1) \in Items
    <2>1. n < MaxRecords => n + 1 \in 0 .. MaxRecords /\ n + 1 \in 1 .. MaxRecords
      BY RecordsAssumption
    <2> QED
      BY <2>1, WrittenIs DEF Items
  <1> HIDE DEF W, T, M
  <1>4. Append(W, Eof) = T
    <2>1. Eof \in Items
      BY KindsDiffer
    <2>2. /\ Append(W, Eof) \in Seq(Items) /\ Len(Append(W, Eof)) = n + 1
          /\ \A i \in 1 .. n : Append(W, Eof)[i] = W[i]
          /\ Append(W, Eof)[n + 1] = Eof
      BY <1>1, <2>1, AppendProperties
    <2>3. \A i \in 1 .. n + 1 : Append(W, Eof)[i] = T[i]
      BY <1>0, <1>1, <1>2, <2>2
    <2> QED
      BY <1>2, <2>2, <2>3, SeqEqual
  <1>5. ASSUME n < MaxRecords PROVE Append(W, Record(n + 1)) = M
    <2> DEFINE V == Append(W, Record(n + 1))
    <2>2. /\ V \in Seq(Items) /\ Len(V) = n + 1
          /\ \A i \in 1 .. n : V[i] = W[i]
          /\ V[n + 1] = Record(n + 1)
      BY <1>1, <1>3, <1>5, AppendProperties
    <2>3. \A i \in 1 .. n + 1 : V[i] = M[i]
      BY <1>0, <1>1, <1>3, <1>5, <2>2
    <2> QED
      BY <1>3, <1>5, <2>2, <2>3, SeqEqual
  <1> QED
    BY <1>4, <1>5 DEF W, T, M

-----------------------------------------------------------------------------
(* What was read.                                                           *)

LEMMA PrefixOfWritten ==
  ASSUME NEW n \in 0 .. MaxRecords, NEW b \in BOOLEAN,
         NEW s \in Seq(Items), NEW t \in Seq(Items), s \o t = Written(n, b)
  PROVE  ReadsPrefix(s, n)
  <1>1. /\ Len(s \o t) = Len(s) + Len(t)
        /\ \A i \in 1 .. Len(s) : (s \o t)[i] = s[i]
    OBVIOUS
  <1>2. \A i \in 1 .. Len(s \o t) : (s \o t)[i] = IF i <= n THEN Record(i) ELSE Eof
    BY WrittenIs
  <1>3. DOMAIN s = 1 .. Len(s) /\ Len(s) \in Nat /\ Len(t) \in Nat /\ n \in 0 .. n
    BY RecordsAssumption
  <1>4. \A i \in DOMAIN s : s[i] = IF i <= n THEN Record(i) ELSE Eof
    BY <1>1, <1>2, <1>3
  <1> QED
    BY <1>3, <1>4 DEF ReadsPrefix

LEMMA PrefixShrinks ==
  ASSUME NEW n \in 0 .. MaxRecords, NEW s \in Seq(Items), NEW t \in Seq(Items),
         ReadsPrefix(s \o t, n)
  PROVE  ReadsPrefix(s, n)
  <1>1. PICK k \in 0 .. n :
          \A i \in DOMAIN (s \o t) : (s \o t)[i] = IF i <= k THEN Record(i) ELSE Eof
    BY DEF ReadsPrefix
  <1>2. \A i \in DOMAIN s : i \in DOMAIN (s \o t) /\ (s \o t)[i] = s[i]
    OBVIOUS
  <1>3. \A i \in DOMAIN s : s[i] = IF i <= k THEN Record(i) ELSE Eof
    BY <1>1, <1>2
  <1> QED
    BY <1>3 DEF ReadsPrefix

LEMMA PrefixStays ==
  ASSUME NEW n \in 0 .. MaxRecords, NEW m \in 0 .. MaxRecords, n <= m, NEW s, ReadsPrefix(s, n)
  PROVE  ReadsPrefix(s, m)
  <1>1. 0 .. n \subseteq 0 .. m
    BY RecordsAssumption
  <1> QED
    BY <1>1 DEF ReadsPrefix

LEMMA PrefixCut ==
  ASSUME NEW n \in 0 .. MaxRecords, NEW b \in BOOLEAN,
         NEW s \in Seq(Items), NEW t \in Seq(Items), s \o t = Written(n, b)
  PROVE  ReadsPrefix(Append(s, Eof), n)
  <1> DEFINE k == IF Len(s) <= n THEN Len(s) ELSE n
             a == Append(s, Eof)
  <1>1. /\ Len(s \o t) = Len(s) + Len(t)
        /\ \A i \in 1 .. Len(s) : (s \o t)[i] = s[i]
    OBVIOUS
  <1>2. \A i \in 1 .. Len(s \o t) : (s \o t)[i] = IF i <= n THEN Record(i) ELSE Eof
    BY WrittenIs
  <1>3. Len(s) \in Nat /\ Len(t) \in Nat /\ n \in Nat /\ k \in 0 .. n
    BY RecordsAssumption
  <1>4. \A i \in 1 .. Len(s) : s[i] = IF i <= n THEN Record(i) ELSE Eof
    BY <1>1, <1>2, <1>3
  <1>5. /\ DOMAIN a = 1 .. Len(s) + 1
        /\ \A i \in 1 .. Len(s) : a[i] = s[i]
        /\ a[Len(s) + 1] = Eof
    OBVIOUS
  <1> HIDE DEF a
  <1>6. \A i \in DOMAIN a : a[i] = IF i <= k THEN Record(i) ELSE Eof
    BY <1>3, <1>4, <1>5
  <1> QED
    BY <1>3, <1>6 DEF ReadsPrefix, a

\* The end of stream is the last thing written.
LEMMA EofIsLast ==
  ASSUME NEW n \in 0 .. MaxRecords, NEW b \in BOOLEAN,
         NEW s \in Seq(Items), NEW t \in Seq(Items), s \o t = Written(n, b),
         t # <<>>, Head(t) = Eof
  PROVE  b /\ Tail(t) = <<>>
  <1>1. Len(s) \in Nat /\ Len(t) \in Nat /\ Len(t) >= 1 /\ n \in Nat
    BY RecordsAssumption
  <1>2. Len(s \o t) = Len(s) + Len(t) /\ (s \o t)[Len(s) + 1] = Eof
    BY <1>1
  <1>3. /\ Len(s \o t) = IF b THEN n + 1 ELSE n
        /\ \A i \in 1 .. Len(s \o t) : (s \o t)[i] = IF i <= n THEN Record(i) ELSE Eof
    BY WrittenIs
  <1>4. Len(s) + 1 > n
    BY <1>1, <1>2, <1>3, KindsDiffer
  <1>5. b
    <2>1. CASE ~b
      <3>1. Len(s \o t) = n
        BY <1>3, <2>1
      <3> QED
        BY <1>1, <1>2, <1>4, <3>1
    <2> QED
      BY <2>1
  <1>6. Len(t) = 1
    <2>1. Len(s \o t) = n + 1
      BY <1>3, <1>5
    <2>2. Len(s) + Len(t) = n + 1
      BY <1>2, <2>1
    <2>3. \A x, y, z \in Nat : x + y = z + 1 /\ y >= 1 /\ x + 1 > z => y = 1
      OBVIOUS
    <2> QED
      BY <1>1, <1>4, <2>2, <2>3
  <1>7. Tail(t) = <<>>
    <2>1. Tail(t) \in Seq(Items) /\ Len(Tail(t)) = 0
      BY <1>6, HeadTailProperties
    <2> QED
      BY <2>1, EmptySeq
  <1> QED
    BY <1>5, <1>7

-----------------------------------------------------------------------------
(* Types, and the parts of the invariant that an action does not touch.     *)

LEMMA TypeParts ==
  ASSUME TypeOK
  PROVE  /\ target \in BOOLEAN /\ authorized \in BOOLEAN /\ broken \in BOOLEAN
         /\ dialled \in BOOLEAN /\ shutUp \in BOOLEAN /\ shutDown \in BOOLEAN
         /\ up \in Seq(Items) /\ down \in Seq(Items) /\ relayUp \in Seq(Items)
         /\ relayDown \in Seq(Items) /\ gotUp \in Seq(Items) /\ gotDown \in Seq(Items)
         /\ gbuf \in Seq(Items \ {Eof}) /\ cbuf \in Seq(Items \ {Eof})
         /\ gbuf \in Seq(Items) /\ cbuf \in Seq(Items)
         /\ sentUp \in 0 .. MaxRecords /\ sentDown \in 0 .. MaxRecords
         /\ head \in Seq(Lines) /\ head \in Seq(Items)
         /\ \A i \in DOMAIN head : head[i] = Blank => i = Len(head)
  <1>1. gbuf \in Seq(Items \ {Eof}) /\ cbuf \in Seq(Items \ {Eof})
    BY DEF TypeOK
  <1>2. gbuf \in Seq(Items) /\ cbuf \in Seq(Items)
    BY <1>1, SeqMonotonic
  <1>3. head \in Seq(Lines) /\ \A i \in DOMAIN head : head[i] = Blank => i = Len(head)
    BY HeadsAssumption DEF TypeOK
  <1>4. head \in Seq(Items)
    BY <1>3, KindsDiffer, SeqMonotonic
  <1> QED
    BY <1>1, <1>2, <1>3, <1>4 DEF TypeOK

LEMMA TypeByParts ==
  ASSUME client' \in {"new", "status", "headers", "open", "failed", "gone"},
         gateway' \in {"request", "headers", "dial", "dialled", "copy", "done"},
         head' \in Heads,
         target' \in BOOLEAN, authorized' \in BOOLEAN, broken' \in BOOLEAN,
         dialled' \in BOOLEAN, shutUp' \in BOOLEAN, shutDown' \in BOOLEAN,
         up' \in Seq(Items), down' \in Seq(Items), relayUp' \in Seq(Items),
         relayDown' \in Seq(Items), gotUp' \in Seq(Items), gotDown' \in Seq(Items),
         gbuf' \in Seq(Items \ {Eof}), cbuf' \in Seq(Items \ {Eof}),
         halves' \subseteq {"up", "down"},
         sentUp' \in 0 .. MaxRecords, sentDown' \in 0 .. MaxRecords
  PROVE  TypeOK'
  BY DEF TypeOK

LEMMA LineFacts == \A l \in Lines : l.ok \in BOOLEAN
  <1> SUFFICES ASSUME NEW l \in Lines PROVE l.ok \in BOOLEAN
    OBVIOUS
  <1>1. \/ \E c \in BOOLEAN, ok \in BOOLEAN : l = RequestLine(c, ok)
        \/ \E ok \in BOOLEAN : l = AuthLine(ok)
        \/ \E ok \in BOOLEAN : l = StatusLine(ok)
        \/ l = OtherLine \/ l = Blank
    BY DEF Lines
  <1>2. CASE \E c \in BOOLEAN, ok \in BOOLEAN : l = RequestLine(c, ok)
    BY <1>2 DEF RequestLine
  <1>3. CASE \E ok \in BOOLEAN : l = AuthLine(ok)
    BY <1>3 DEF AuthLine
  <1>4. CASE \E ok \in BOOLEAN : l = StatusLine(ok)
    BY <1>4 DEF StatusLine
  <1>5. CASE l = OtherLine \/ l = Blank
    <2>1. l.ok = FALSE
      BY <1>5 DEF OtherLine, Blank
    <2> QED
      BY <2>1
  <1> QED
    BY <1>1, <1>2, <1>3, <1>4, <1>5

LEMMA ItemFacts ==
  /\ <<>> \in Seq(Items) /\ <<>> \in Seq(Items \ {Eof}) /\ <<Eof>> \in Seq(Items)
  /\ Rejection \in Seq(Items) /\ <<StatusLine(TRUE), Blank>> \in Seq(Items)
  /\ \A n \in 0 .. MaxRecords : n < MaxRecords =>
       Record(n + 1) \in Items /\ n + 1 \in 0 .. MaxRecords
  <1>1. StatusLine(FALSE) \in Items /\ StatusLine(TRUE) \in Items /\ OtherLine \in Items /\ Blank \in Items
    <2>1. \A b \in BOOLEAN : StatusLine(b) \in Lines
      BY DEF Lines
    <2>2. OtherLine \in Lines /\ Blank \in Lines
      BY DEF Lines
    <2>3. StatusLine(FALSE) \in Lines /\ StatusLine(TRUE) \in Lines
      BY <2>1
    <2> QED
      BY <2>2, <2>3, KindsDiffer
  <1>2. Eof \in Items
    BY KindsDiffer
  <1>3. \A n \in 0 .. MaxRecords : n < MaxRecords =>
          Record(n + 1) \in Items /\ n + 1 \in 0 .. MaxRecords
    <2>1. \A n \in 0 .. MaxRecords : n < MaxRecords => n + 1 \in 1 .. MaxRecords
      BY RecordsAssumption
    <2> QED
      BY <2>1, RecordsAssumption DEF Items
  <1> HIDE DEF Items
  <1>4. <<>> \in Seq(Items) /\ <<>> \in Seq(Items \ {Eof})
    BY EmptySeq
  <1>5. \A A : \A a, b, c, d \in A : <<a, b, c, d>> \in Seq(A) /\ <<a, b>> \in Seq(A) /\ <<a>> \in Seq(A)
    OBVIOUS
  <1>6. Rejection \in Seq(Items)
    BY <1>1, <1>5 DEF Rejection
  <1>7. <<StatusLine(TRUE), Blank>> \in Seq(Items) /\ <<Eof>> \in Seq(Items)
    BY <1>1, <1>2, <1>5
  <1> QED
    BY <1>3, <1>4, <1>6, <1>7

\* The next line the gateway reads is a line of the request, and taking it leaves
\* the rest of the request.
LEMMA NextLine ==
  ASSUME TypeOK, RequestInv, gateway \in {"request", "headers"}, gbuf # <<>>
  PROVE  \E k \in 0 .. Len(head) - 1 :
           /\ gbuf[1] = head[k + 1] /\ gbuf[1] \in Lines
           /\ Tail(gbuf) \o up = SubSeq(head, k + 2, Len(head)) \o Ending(shutUp)
           /\ IF gateway = "request" THEN k = 0 ELSE k > 0 /\ target = head[1].ok
           /\ authorized => LastTokenIsRight(head, k)
  <1>0. /\ gbuf \in Seq(Items) /\ gbuf \in Seq(Items \ {Eof}) /\ up \in Seq(Items)
        /\ head \in Seq(Lines) /\ head \in Seq(Items)
    BY TypeParts
  <1>1. PICK k \in 0 .. Len(head) :
           /\ gbuf \o up = SubSeq(head, k + 1, Len(head)) \o Ending(shutUp)
           /\ IF gateway = "request" THEN k = 0 ELSE k > 0 /\ target = head[1].ok
           /\ authorized => LastTokenIsRight(head, k)
    BY DEF RequestInv
  <1> DEFINE h == SubSeq(head, k + 1, Len(head))
             e == Ending(shutUp)
  <1>2. gbuf[1] = (gbuf \o up)[1] /\ Tail(gbuf) \o up = Tail(gbuf \o up) /\ gbuf \o up # <<>>
    BY <1>0, TakeFirst
  <1>3. gbuf[1] \in Items \ {Eof}
    <2>1. Len(gbuf) >= 1
      BY <1>0, EmptySeq
    <2> QED
      BY <1>0, <2>1, ElementOfSeq
  <1>4. Len(head) \in Nat /\ \A i \in 1 .. Len(head) : head[i] \in Lines
    BY <1>0, LenProperties, ElementOfSeq
  <1>5. h \in Seq(Items) /\ e \in Seq(Items)
    <2>1. e \in Seq(Items)
      BY ItemFacts DEF Ending
    <2>2. \A i \in k + 1 .. Len(head) : head[i] \in Items
      BY <1>4, KindsDiffer
    <2> QED
      BY <2>1, <2>2, <1>4, SubSeqProperties
  <1>6. k # Len(head)
    <2> SUFFICES ASSUME k = Len(head) PROVE FALSE
      OBVIOUS
    <2>1. h = <<>>
      BY <1>4, SubSeqEmpty
    <2>2. gbuf \o up = e
      BY <1>1, <1>5, <2>1, ConcatEmptySeq
    <2>3. e = <<Eof>> \/ e = <<>>
      BY DEF Ending
    <2> HIDE DEF e
    <2>4. (gbuf \o up)[1] = Eof
      BY <1>2, <2>2, <2>3
    <2> QED
      BY <1>2, <1>3, <2>4
  <1>7. k \in 0 .. Len(head) - 1 /\ k + 1 \in 1 .. Len(head)
    BY <1>4, <1>6
  <1>8. Head(h) = head[k + 1] /\ Tail(h) = SubSeq(head, k + 2, Len(head)) /\ h # <<>> /\ h[1] = head[k + 1]
    <2>1. Len(head) \in (k + 1) .. Len(head) /\ (k + 1) + 1 = k + 2
      BY <1>4, <1>7
    <2>2. Head(h) = head[k + 1] /\ Tail(h) = SubSeq(head, k + 2, Len(head))
      BY <1>0, <1>7, <2>1, HeadTailOfSubSeq
    <2>3. Len(h) >= 1 /\ h[1] = head[k + 1]
      BY <1>0, <1>4, <1>7
    <2> HIDE DEF h
    <2>4. h # <<>>
      BY <2>3, EmptySeq
    <2> QED
      BY <2>2, <2>3, <2>4
  <1> HIDE DEF h, e
  <1>9. h[1] = (h \o e)[1] /\ Tail(h) \o e = Tail(h \o e)
    BY <1>5, <1>8, TakeFirst, SMTT(30)
  <1>10. gbuf[1] = head[k + 1] /\ gbuf[1] \in Lines
    BY <1>1, <1>2, <1>4, <1>7, <1>8, <1>9 DEF h, e
  <1>11. Tail(gbuf) \o up = SubSeq(head, k + 2, Len(head)) \o Ending(shutUp)
    BY <1>1, <1>2, <1>8, <1>9 DEF h, e
  <1> QED
    BY <1>1, <1>7, <1>10, <1>11

\* Every part of every stream stays a sequence of items.
LEMMA TypeStep ==
  ASSUME TypeOK, RequestInv, [Next]_vars
  PROVE  TypeOK'
  <1> USE TypeParts, ItemFacts
  <1>0. Eof \in Items
    BY KindsDiffer
  <1>1. \A s, t : s \in Seq(Items) /\ t \in Seq(Items) => s \o t \in Seq(Items)
    BY ConcatProperties
  <1>2. \A s, x : s \in Seq(Items) /\ x \in Items => Append(s, x) \in Seq(Items)
    BY AppendProperties
  <1>3. \A s : s \in Seq(Items \ {Eof}) /\ s # <<>> => Tail(s) \in Seq(Items \ {Eof})
    BY HeadTailProperties
  <1>4. \A s : s \in Seq(Items) /\ s # <<>> => Tail(s) \in Seq(Items) /\ Head(s) \in Items
    BY HeadTailProperties
  <1>5. /\ client \in {"new", "status", "headers", "open", "failed", "gone"}
        /\ gateway \in {"request", "headers", "dial", "dialled", "copy", "done"}
        /\ head \in Heads /\ halves \subseteq {"up", "down"}
    BY DEF TypeOK
  <1>6. \A s \in Seq(Items) : \A n \in 1 .. Len(s) : CanRead(s, n) =>
          SubSeq(s, 1, n) \in Seq(Items \ {Eof}) /\ SubSeq(s, n + 1, Len(s)) \in Seq(Items)
    <2> SUFFICES ASSUME NEW s \in Seq(Items), NEW n \in 1 .. Len(s), CanRead(s, n)
                 PROVE  SubSeq(s, 1, n) \in Seq(Items \ {Eof}) /\ SubSeq(s, n + 1, Len(s)) \in Seq(Items)
      OBVIOUS
    <2>1. \A i \in 1 .. n : s[i] \in Items \ {Eof}
      BY DEF CanRead
    <2>2. SubSeq(s, 1, n) \in Seq(Items \ {Eof})
      BY <2>1, SubSeqProperties
    <2> QED
      BY <2>2, Cut
  <1>7. ASSUME NEW last \in Seq(Items), GatewayReturns(last),
               target' \in BOOLEAN, authorized' \in BOOLEAN
        PROVE  TypeOK'
    <2>1. down \o last \o <<Eof>> \in Seq(Items)
      BY <1>0, <1>1
    <2> QED
      BY <1>0, <1>5, <1>7, <2>1, TypeByParts DEF GatewayReturns, clientVars, relayVars
  <1>8. ASSUME ClientFails PROVE TypeOK'
    <2>1. Append(up, Eof) \in Seq(Items)
      BY <1>0, <1>2
    <2> QED
      BY <1>5, <1>8, <2>1, TypeByParts DEF ClientFails, gatewayVars, relayVars
  <1>9. gateway \in {"request", "headers"} /\ gbuf # <<>> => gbuf[1].ok \in BOOLEAN
    BY NextLine, LineFacts
  <1> USE DEF clientVars, gatewayVars, relayVars, links
  <1>10. CASE DialGateway
    BY <1>1, <1>5, <1>10, TypeByParts DEF DialGateway
  <1>11. ASSUME NEW n \in 1 .. Len(down), FillClient(n) PROVE TypeOK'
    BY <1>5, <1>6, <1>11, TypeByParts DEF FillClient
  <1>12. CASE ReadStatus
    BY <1>3, <1>5, <1>8, <1>12, TypeByParts, ZenonT(60) DEF ReadStatus
  <1>13. CASE ReadResponseHeader
    BY <1>3, <1>5, <1>8, <1>13, TypeByParts, ZenonT(60) DEF ReadResponseHeader
  <1>14. CASE ClientWrite
    BY <1>2, <1>5, <1>14, TypeByParts DEF ClientWrite
  <1>15. CASE ClientRead
    BY <1>2, <1>4, <1>5, <1>15, TypeByParts DEF ClientRead
  <1>16. CASE ClientShutdown
    BY <1>0, <1>2, <1>5, <1>16, TypeByParts DEF ClientShutdown
  <1>17. CASE ClientLeaves
    BY <1>0, <1>2, <1>5, <1>17, TypeByParts DEF ClientLeaves
  <1>18. ASSUME NEW n \in 1 .. Len(up), FillGateway(n) PROVE TypeOK'
    BY <1>5, <1>6, <1>18, TypeByParts DEF FillGateway
  <1>19. CASE ReadRequestLine
    <2>1. gbuf # <<>> => gbuf[1].ok \in BOOLEAN
      BY <1>9, <1>19 DEF ReadRequestLine
    <2> QED
      BY <1>3, <1>5, <1>7, <1>19, <2>1, TypeByParts DEF ReadRequestLine
  <1>20. CASE ReadHeader
    <2>1. gbuf # <<>> => gbuf[1].ok \in BOOLEAN
      BY <1>9, <1>20 DEF ReadHeader
    <2> QED
      BY <1>3, <1>5, <1>7, <1>20, <2>1, TypeByParts, ZenonT(60) DEF ReadHeader
  <1>21. CASE DialRelay
    BY <1>5, <1>21, TypeByParts DEF DialRelay
  <1>22. CASE RelayRefuses
    BY <1>7, <1>22 DEF RelayRefuses
  <1>23. CASE Establish
    BY <1>1, <1>5, <1>23, TypeByParts DEF Establish
  <1>24. CASE CopyUp
    BY <1>2, <1>4, <1>5, <1>24, TypeByParts DEF CopyUp, Finish
  <1>25. CASE CopyDown
    BY <1>2, <1>4, <1>5, <1>25, TypeByParts DEF CopyDown, Finish
  <1>26. CASE CopyBreaks
    BY <1>0, <1>2, <1>5, <1>26, TypeByParts DEF CopyBreaks
  <1>27. CASE RelayRead
    BY <1>2, <1>4, <1>5, <1>27, TypeByParts DEF RelayRead
  <1>28. CASE RelayWrite
    BY <1>2, <1>5, <1>28, TypeByParts DEF RelayWrite
  <1>29. CASE RelayShutdown
    BY <1>0, <1>2, <1>5, <1>29, TypeByParts DEF RelayShutdown
  <1>30. CASE UNCHANGED vars
    BY <1>5, <1>30, TypeByParts DEF vars
  <1> QED
    BY <1>10, <1>11, <1>12, <1>13, <1>14, <1>15, <1>16, <1>17, <1>18, <1>19, <1>20, <1>21, <1>22,
       <1>23, <1>24, <1>25, <1>26, <1>27, <1>28, <1>29, <1>30
    DEF Next, ClientStep, GatewayStep

LEMMA RequestFrame ==
  ASSUME RequestInv,
         UNCHANGED <<client, gateway, head, target, authorized, up, gbuf, shutUp, dialled>>
  PROVE  RequestInv'
  BY DEF RequestInv, Engaged

\* Once the gateway is past the request, only token and authority matter of it.
LEMMA RequestDone ==
  ASSUME RequestInv, UNCHANGED <<head, dialled, gateway>>, client' # "new",
         gateway \notin {"request", "headers"}, gbuf' = gbuf
  PROVE  RequestInv'
  BY DEF RequestInv, Engaged

LEMMA UpFrame ==
  ASSUME UpInv,
         UNCHANGED <<client, sentUp, shutUp, dialled, gotUp, relayUp, up, gateway, broken, halves>>
  PROVE  UpInv'
  BY DEF UpInv, Engaged, Established

LEMMA DownFrame ==
  ASSUME DownInv,
         UNCHANGED <<client, cbuf, down, relayDown, gotDown, sentDown, shutDown, dialled,
                     gateway, broken, halves>>
  PROVE  DownInv'
  BY DEF DownInv, Established, Greeting

\* The client's end of the tunnel writes an item: the end of stream, or a record.
LEMMA UpAppend ==
  ASSUME TypeOK, UpInv, NEW x \in Items, up' = Append(up, x),
         UNCHANGED <<gotUp, relayUp>>, Engaged, ~broken
  PROVE  (gotUp' \o relayUp') \o up' = Append(Written(sentUp, shutUp), x)
  <1>1. gotUp \in Seq(Items) /\ relayUp \in Seq(Items) /\ up \in Seq(Items)
    BY TypeParts
  <1>2. gotUp \o relayUp \in Seq(Items)
    BY <1>1, ConcatProperties
  <1>3. (gotUp \o relayUp) \o Append(up, x) = Append((gotUp \o relayUp) \o up, x)
    BY <1>1, <1>2, AppendBehind
  <1> QED
    BY <1>3 DEF UpInv

\* The end of stream behind what is left of the request.
LEMMA RequestAppend ==
  ASSUME TypeOK, NEW k \in 0 .. Len(head),
         gbuf \o up = SubSeq(head, k + 1, Len(head)) \o Ending(FALSE)
  PROVE  gbuf \o Append(up, Eof) = SubSeq(head, k + 1, Len(head)) \o Ending(TRUE)
  <1> DEFINE h == SubSeq(head, k + 1, Len(head))
  <1>1. gbuf \in Seq(Items) /\ up \in Seq(Items) /\ head \in Seq(Items) /\ Eof \in Items
    BY TypeParts, KindsDiffer
  <1>2. h \in Seq(Items)
    <2>1. Len(head) \in Nat /\ \A i \in k + 1 .. Len(head) : head[i] \in Items
      BY <1>1, LenProperties, ElementOfSeq
    <2> QED
      BY <2>1, SubSeqProperties
  <1> HIDE DEF h
  <1>3. gbuf \o Append(up, Eof) = Append(gbuf \o up, Eof)
    <2>1. \A s, t \in Seq(Items) : s \o Append(t, Eof) = Append(s \o t, Eof)
      BY <1>1, AppendBehind
    <2> QED
      BY <1>1, <2>1
  <1>4. gbuf \o up = h
    BY <1>2, ConcatEmptySeq DEF Ending, h
  <1>5. Append(h, Eof) = h \o <<Eof>>
    BY <1>1, <1>2, AppendIsConcat
  <1> QED
    BY <1>3, <1>4, <1>5 DEF Ending, h

-----------------------------------------------------------------------------
(* The client.                                                              *)

LEMMA ClientFailsKeeps ==
  ASSUME TunnelInv, ClientFails, ~Established, gateway = "done"
  PROVE  RequestInv' /\ UpInv' /\ DownInv'
  <1>1. /\ client' = "failed" /\ shutUp' = TRUE
        /\ UNCHANGED <<head, sentUp, gotDown, gateway, target, authorized, gbuf, halves, broken,
                       dialled, sentDown, gotUp, shutDown, down, relayUp, relayDown>>
    BY DEF ClientFails, gatewayVars, relayVars
  <1>2. RequestInv /\ UpInv /\ DownInv /\ ~dialled
    BY DEF TunnelInv, Established
  <1>3. RequestInv'
    BY <1>1, <1>2 DEF RequestInv, Engaged
  <1>4. UpInv'
    <2>1. halves = {} /\ ~broken /\ sentUp = 0
      BY <1>2 DEF DownInv, UpInv, Established, ClientFails
    <2> QED
      BY <1>1, <1>2, <2>1 DEF UpInv, Engaged, Established
  <1>5. DownInv'
    BY <1>1, <1>2 DEF DownInv, Established
  <1> QED
    BY <1>3, <1>4, <1>5

LEMMA ClientLeavesKeeps ==
  ASSUME TunnelInv, ClientLeaves
  PROVE  RequestInv' /\ UpInv' /\ DownInv'
  <1>1. /\ client \in {"status", "headers"} /\ client' = "gone" /\ shutUp' = TRUE
        /\ up' = Append(up, Eof)
        /\ UNCHANGED <<head, sentUp, gotDown, gateway, target, authorized, gbuf, halves, broken,
                       dialled, sentDown, gotUp, shutDown, down, relayUp, relayDown>>
    BY DEF ClientLeaves, gatewayVars, relayVars
  <1>2. RequestInv /\ UpInv /\ DownInv /\ TypeOK
    BY DEF TunnelInv
  <1>3. shutUp = FALSE /\ sentUp = 0 /\ "up" \notin halves
    BY <1>1, <1>2, TypeParts DEF UpInv
  <1>4. RequestInv'
    <2>1. ASSUME gateway \in {"request", "headers"}
          PROVE  \E k \in 0 .. Len(head) :
                   /\ gbuf \o up' = SubSeq(head, k + 1, Len(head)) \o Ending(TRUE)
                   /\ IF gateway = "request" THEN k = 0 ELSE k > 0 /\ target = head[1].ok
                   /\ authorized => LastTokenIsRight(head, k)
      <3>1. PICK k \in 0 .. Len(head) :
              /\ gbuf \o up = SubSeq(head, k + 1, Len(head)) \o Ending(FALSE)
              /\ IF gateway = "request" THEN k = 0 ELSE k > 0 /\ target = head[1].ok
              /\ authorized => LastTokenIsRight(head, k)
        BY <1>1, <1>2, <1>3, <2>1 DEF RequestInv
      <3>2. gbuf \o up' = SubSeq(head, k + 1, Len(head)) \o Ending(TRUE)
        BY <1>1, <1>2, <3>1, RequestAppend
      <3> QED
        BY <3>1, <3>2
    <2> QED
      BY <1>1, <1>2, <2>1 DEF RequestInv, Engaged
  <1>5. UpInv'
    <2>1. Engaged /\ ~broken => (gotUp' \o relayUp') \o up' = Append(Written(0, FALSE), Eof)
      BY <1>1, <1>2, <1>3, UpAppend, KindsDiffer
    <2>2. Append(Written(0, FALSE), Eof) = Written(0, TRUE)
      <3>1. 0 \in 0 .. MaxRecords
        BY RecordsAssumption
      <3> QED
        BY <3>1, WriteMore
    <2> QED
      BY <1>1, <1>2, <1>3, <2>1, <2>2 DEF UpInv, Engaged, Established
  <1>6. DownInv'
    <2>1. client' # "open" /\ client' \notin {"status", "headers"} /\ client # "open"
      BY <1>1
    <2>2. cbuf' = <<>>
      BY DEF ClientLeaves
    <2> QED
      BY <1>1, <1>2, <2>1, <2>2 DEF DownInv, Established
  <1> QED
    BY <1>4, <1>5, <1>6

LEMMA ClientShutdownKeeps ==
  ASSUME TunnelInv, ClientShutdown
  PROVE  RequestInv' /\ UpInv' /\ DownInv'
  <1>1. /\ client = "open" /\ shutUp' = TRUE /\ up' = Append(up, Eof) /\ ~shutUp
        /\ UNCHANGED <<head, client, cbuf, sentUp, gotDown, gateway, target, authorized, gbuf,
                       halves, broken, dialled, sentDown, gotUp, shutDown, down, relayUp, relayDown>>
    BY DEF ClientShutdown, gatewayVars, relayVars
  <1>2. RequestInv /\ UpInv /\ DownInv /\ TypeOK /\ shutUp = FALSE
    BY <1>1, TypeParts DEF TunnelInv
  <1>3. Established /\ Engaged /\ gateway \notin {"request", "headers"}
    BY <1>1, <1>2 DEF DownInv, RequestInv, Established, Engaged
  <1>4. RequestInv'
    BY <1>1, <1>2, <1>3, RequestDone
  <1>5. UpInv'
    <2>1. ~broken => (gotUp' \o relayUp') \o up' = Append(Written(sentUp, FALSE), Eof)
      BY <1>1, <1>2, <1>3, UpAppend, KindsDiffer
    <2>2. Append(Written(sentUp, FALSE), Eof) = Written(sentUp, TRUE)
      BY <1>2, TypeParts, WriteMore
    <2> QED
      BY <1>1, <1>2, <2>1, <2>2 DEF UpInv, Engaged, Established
  <1>6. DownInv'
    BY <1>1, <1>2, DownFrame
  <1> QED
    BY <1>4, <1>5, <1>6

LEMMA ClientWriteKeeps ==
  ASSUME TunnelInv, ClientWrite
  PROVE  RequestInv' /\ UpInv' /\ DownInv'
  <1>1. /\ client = "open" /\ up' = Append(up, Record(sentUp + 1)) /\ ~shutUp
        /\ sentUp < MaxRecords /\ sentUp' = sentUp + 1
        /\ UNCHANGED <<head, client, cbuf, shutUp, gotDown, gateway, target, authorized, gbuf,
                       halves, broken, dialled, sentDown, gotUp, shutDown, down, relayUp, relayDown>>
    BY DEF ClientWrite, gatewayVars, relayVars
  <1>2. RequestInv /\ UpInv /\ DownInv /\ TypeOK /\ shutUp = FALSE
    BY <1>1, TypeParts DEF TunnelInv
  <1>3. Established /\ Engaged /\ gateway \notin {"request", "headers"}
    BY <1>1, <1>2 DEF DownInv, RequestInv, Established, Engaged
  <1>4. RequestInv'
    BY <1>1, <1>2, <1>3, RequestDone
  <1>5. UpInv'
    <2>0. sentUp \in 0 .. MaxRecords /\ Record(sentUp + 1) \in Items /\ sentUp + 1 \in 0 .. MaxRecords
      BY <1>1, <1>2, TypeParts, ItemFacts
    <2>1. ~broken => (gotUp' \o relayUp') \o up' = Append(Written(sentUp, FALSE), Record(sentUp + 1))
      BY <1>1, <1>2, <1>3, <2>0, UpAppend
    <2>2. Append(Written(sentUp, FALSE), Record(sentUp + 1)) = Written(sentUp + 1, FALSE)
      BY <1>1, <2>0, WriteMore
    <2>3. broken => ReadsPrefix(gotUp \o relayUp, sentUp + 1)
      <3>1. sentUp <= sentUp + 1
        BY <2>0
      <3> QED
        BY <1>2, <2>0, <3>1, PrefixStays DEF UpInv
    <2>4. "up" \notin halves
      BY <1>1, <1>2 DEF UpInv
    <2> QED
      BY <1>1, <1>2, <2>1, <2>2, <2>3, <2>4 DEF UpInv, Engaged, Established
  <1>6. DownInv'
    BY <1>1, <1>2, DownFrame
  <1> QED
    BY <1>4, <1>5, <1>6

LEMMA ClientReadKeeps ==
  ASSUME TunnelInv, ClientRead
  PROVE  RequestInv' /\ UpInv' /\ DownInv'
  <1>1. /\ client = "open" /\ down # <<>> /\ gotDown' = Append(gotDown, Head(down)) /\ down' = Tail(down)
        /\ UNCHANGED <<head, client, cbuf, shutUp, sentUp, up, gateway, target, authorized, gbuf,
                       halves, broken, dialled, sentDown, gotUp, shutDown, relayUp, relayDown>>
    BY DEF ClientRead, gatewayVars, relayVars
  <1>2. RequestInv /\ UpInv /\ DownInv /\ TypeOK
    BY DEF TunnelInv
  <1>3. cbuf = <<>> /\ Established
    BY <1>1, <1>2 DEF DownInv
  <1>4. /\ gotDown' \o down' = gotDown \o down
        /\ down \in Seq(Items) /\ down' \in Seq(Items)
    BY <1>1, <1>2, TypeParts, Move
  <1>5. gotDown' \o (cbuf' \o down') = gotDown \o (cbuf \o down)
    BY <1>1, <1>3, <1>4, ConcatEmptySeq
  <1>6. DownInv'
    BY <1>1, <1>2, <1>3, <1>4, <1>5 DEF DownInv, Established, Greeting
  <1> QED
    BY <1>1, <1>2, <1>6, RequestFrame, UpFrame

LEMMA DialGatewayKeeps ==
  ASSUME TunnelInv, DialGateway
  PROVE  RequestInv' /\ UpInv' /\ DownInv'
  <1>1. /\ client = "new" /\ client' = "status" /\ up' = up \o head
        /\ UNCHANGED <<head, cbuf, sentUp, gotDown, shutUp, gateway, target, authorized, gbuf,
                       halves, broken, dialled, sentDown, gotUp, shutDown, down, relayUp, relayDown>>
    BY DEF DialGateway, gatewayVars, relayVars
  <1>2. RequestInv /\ UpInv /\ DownInv /\ TypeOK
    BY DEF TunnelInv
  <1>3. /\ gateway = "request" /\ up = <<>> /\ gbuf = <<>> /\ ~shutUp /\ sentUp = 0
        /\ ~dialled /\ ~authorized /\ head \in Seq(Items)
    BY <1>1, <1>2, TypeParts DEF RequestInv, UpInv
  <1>4. gbuf \o up' = SubSeq(head, 0 + 1, Len(head)) \o Ending(shutUp)
    <2>1. up' = head /\ gbuf \o up' = head /\ head \o <<>> = head
      BY <1>1, <1>3, ConcatEmptySeq
    <2>2. SubSeq(head, 1, Len(head)) = head
      BY <1>3, SubSeqFull
    <2>3. Ending(shutUp) = <<>>
      BY <1>3 DEF Ending
    <2> QED
      BY <2>1, <2>2, <2>3
  <1>5. RequestInv'
    <2>1. Len(head) \in Nat /\ 0 \in 0 .. Len(head)
      BY <1>3, LenProperties
    <2> QED
      BY <1>1, <1>3, <1>4, <2>1 DEF RequestInv, Engaged
  <1>6. UpInv'
    BY <1>1, <1>2, <1>3 DEF UpInv, Engaged, DownInv, Established
  <1>7. DownInv'
    BY <1>1, <1>2, <1>3 DEF DownInv, Established
  <1> QED
    BY <1>5, <1>6, <1>7

LEMMA FillClientKeeps ==
  ASSUME TunnelInv, NEW n \in 1 .. Len(down), FillClient(n)
  PROVE  RequestInv' /\ UpInv' /\ DownInv'
  <1>1. /\ client \in {"status", "headers"} /\ cbuf = <<>>
        /\ cbuf' = SubSeq(down, 1, n) /\ down' = SubSeq(down, n + 1, Len(down))
        /\ UNCHANGED <<head, client, sentUp, gotDown, shutUp, gateway, target, authorized, gbuf,
                       halves, broken, dialled, sentDown, gotUp, shutDown, up, relayUp, relayDown>>
    BY DEF FillClient, gatewayVars, relayVars
  <1>2. RequestInv /\ UpInv /\ DownInv /\ TypeOK
    BY DEF TunnelInv
  <1>3. down \in Seq(Items) /\ down # <<>>
    BY <1>2, TypeParts
  <1>4. cbuf' \o down' = cbuf \o down
    BY <1>1, <1>3, Cut, ConcatEmptySeq
  <1>5. DownInv'
    <2>1. client # "open" /\ (Established \/ gateway = "done")
      BY <1>1, <1>2, <1>3 DEF DownInv
    <2> QED
      BY <1>1, <1>2, <1>4, <2>1 DEF DownInv, Established, Greeting
  <1> QED
    BY <1>1, <1>2, <1>5, RequestFrame, UpFrame

\* The first line of the client's buffer.
LEMMA ClientTakes ==
  ASSUME TypeOK, cbuf # <<>>
  PROVE  /\ cbuf[1] # Eof /\ cbuf[1] = (cbuf \o down)[1] /\ Len(cbuf \o down) \in Nat
         /\ Tail(cbuf) \in Seq(Items \ {Eof}) /\ Tail(cbuf) \in Seq(Items)
         /\ Tail(cbuf) \o down = Tail(cbuf \o down) /\ cbuf \o down # <<>>
         /\ cbuf \o down \in Seq(Items) /\ DOMAIN (cbuf \o down) = 1 .. Len(cbuf \o down)
         /\ 1 \in DOMAIN (cbuf \o down)
  <1>1. cbuf \in Seq(Items) /\ down \in Seq(Items) /\ cbuf \in Seq(Items \ {Eof})
    BY TypeParts
  <1>2. cbuf[1] \in Items \ {Eof}
    <2>1. Len(cbuf) >= 1
      BY <1>1, EmptySeq
    <2> QED
      BY <1>1, <2>1, ElementOfSeq
  <1>3. Tail(cbuf) \in Seq(Items \ {Eof})
    BY <1>1, HeadTailProperties
  <1>4. cbuf[1] = (cbuf \o down)[1] /\ Tail(cbuf) \o down = Tail(cbuf \o down)
        /\ Tail(cbuf) \in Seq(Items) /\ cbuf \o down # <<>>
    BY <1>1, TakeFirst
  <1>5. cbuf \o down \in Seq(Items)
    BY <1>1, ConcatProperties
  <1>6. /\ Len(cbuf \o down) \in Nat \ {0}
        /\ DOMAIN (cbuf \o down) = 1 .. Len(cbuf \o down)
    BY <1>4, <1>5, LenProperties, EmptySeq
  <1> QED
    BY <1>2, <1>3, <1>4, <1>5, <1>6

\* Before an established tunnel is open, the client finds first what the gateway
\* answered, never the end of the stream.
LEMMA GreetingFirst ==
  ASSUME TypeOK, DownInv, Established, client \in {"status", "headers"}
  PROVE  /\ ~AtEof(cbuf, down)
         /\ cbuf # <<>> => cbuf[1] = Greeting[1]
         /\ Len(Greeting) >= 1
  <1>1. /\ Len(cbuf \o down) >= Len(Greeting)
        /\ \A i \in DOMAIN (cbuf \o down) :
             (cbuf \o down)[i] = IF i <= Len(Greeting) THEN Greeting[i] ELSE Eof
    BY DEF DownInv
  <1>2. Len(Greeting) \in {1, 2} /\ Greeting[1] # Eof
    BY KindsDiffer DEF Greeting
  <1>3. cbuf # <<>> => cbuf[1] = Greeting[1]
    BY <1>1, <1>2, ClientTakes
  <1>4. ~AtEof(cbuf, down)
    <2> SUFFICES ASSUME AtEof(cbuf, down) PROVE FALSE
      OBVIOUS
    <2>1. cbuf = <<>> /\ down # <<>> /\ down[1] = Eof /\ down \in Seq(Items)
      BY TypeParts DEF AtEof
    <2>2. cbuf \o down = down
      BY <2>1, ConcatEmptySeq
    <2>3. 1 \in DOMAIN down
      BY <2>1, EmptySeq, LenProperties
    <2> QED
      BY <1>1, <1>2, <2>1, <2>2, <2>3
  <1> QED
    BY <1>2, <1>3, <1>4

LEMMA ReadStatusKeeps ==
  ASSUME TunnelInv, ReadStatus
  PROVE  RequestInv' /\ UpInv' /\ DownInv'
  <1>1. RequestInv /\ UpInv /\ DownInv /\ TypeOK /\ client = "status"
    BY DEF TunnelInv, ReadStatus
  <1>2. CASE Established
    <2>1. ~AtEof(cbuf, down) /\ (cbuf # <<>> => cbuf[1] = StatusLine(TRUE)) /\ StatusLine(TRUE).ok
      BY <1>1, <1>2, GreetingFirst DEF Greeting, StatusLine
    <2>2. /\ cbuf # <<>> /\ client' = "headers" /\ cbuf' = Tail(cbuf)
          /\ UNCHANGED <<head, sentUp, gotDown, shutUp, gateway, target, authorized, gbuf, halves, broken,
                         dialled, sentDown, gotUp, shutDown, up, down, relayUp, relayDown>>
      BY <2>1 DEF ReadStatus, gatewayVars, relayVars, links
    <2>3. gateway \notin {"request", "headers"}
      BY <1>1, <1>2 DEF RequestInv, Established
    <2>4. RequestInv'
      BY <1>1, <2>2, <2>3, RequestDone
    <2>5. UpInv'
      BY <1>1, <2>2 DEF UpInv, Engaged, Established
    <2> DEFINE s == cbuf \o down
               t == cbuf' \o down'
    <2>6. /\ s \in Seq(Items) /\ s # <<>> /\ t = Tail(s) /\ DOMAIN s = 1 .. Len(s) /\ Len(s) \in Nat
      BY <1>1, <2>2, ClientTakes
    <2>7. /\ Len(s) >= 2
          /\ \A i \in DOMAIN s : s[i] = IF i <= 2 THEN <<StatusLine(TRUE), Blank>>[i] ELSE Eof
          /\ broken \/ sentDown = 0
      BY <1>1, <1>2 DEF DownInv, Greeting
    <2>8. ~broken => (gotDown \o s) \o relayDown =
                       <<StatusLine(TRUE), Blank>> \o Written(sentDown, shutDown)
      BY <1>1, <1>2 DEF DownInv, Greeting
    <2> HIDE DEF s
    <2>9. /\ t \in Seq(Items) /\ Len(t) >= 1
          /\ \A i \in DOMAIN t : t[i] = IF i <= 1 THEN Blank ELSE Eof
      <3>1. t \in Seq(Items) /\ Len(t) = Len(s) - 1 /\ \A i \in 1 .. Len(t) : t[i] = s[i + 1]
        BY <2>6, HeadTailProperties
      <3>3. DOMAIN t = 1 .. Len(t) /\ Len(t) \in Nat
        BY <3>1, LenProperties
      <3>4. DOMAIN s = 1 .. Len(s) /\ Len(s) \in Nat
        BY <2>6
      <3> HIDE DEF t
      <3>2. \A i \in 1 .. Len(t) : i + 1 \in DOMAIN s
        BY <3>1, <3>3, <3>4
      <3> QED
        BY <2>6, <2>7, <3>1, <3>2, <3>3
    <2>10. ~broken => (gotDown \o t) \o relayDown = <<Blank>> \o Written(sentDown, shutDown)
      <3> SUFFICES ASSUME ~broken PROVE (gotDown \o t) \o relayDown = <<Blank>> \o Written(sentDown, shutDown)
        OBVIOUS
      <3>1. gotDown = <<>> /\ relayDown \in Seq(Items) /\ Written(sentDown, shutDown) \in Seq(Items)
        BY <1>1, TypeParts, WrittenIs DEF DownInv
      <3>2. gotDown \o s = s /\ gotDown \o t = t
        BY <2>6, <2>9, <3>1, ConcatEmptySeq
      <3>3. Tail(s \o relayDown) = t \o relayDown
        BY <2>6, <3>1, TakeFirst
      <3>4. Tail(<<StatusLine(TRUE), Blank>> \o Written(sentDown, shutDown)) =
              Tail(<<StatusLine(TRUE), Blank>>) \o Written(sentDown, shutDown)
        BY <3>1, ItemFacts, TakeFirst
      <3>5. Tail(<<StatusLine(TRUE), Blank>>) = <<Blank>>
        OBVIOUS
      <3> QED
        BY <2>8, <3>2, <3>3, <3>4, <3>5
    <2>11. DownInv'
      <3>1. Greeting' = <<Blank>> /\ Established' /\ Len(<<Blank>>) = 1 /\ <<Blank>>[1] = Blank
        BY <1>2, <2>2 DEF Greeting, Established
      <3>2. \A i \in DOMAIN t : t[i] = IF i <= Len(Greeting') THEN Greeting'[i] ELSE Eof
        <4>1. t \in Seq(Items) /\ DOMAIN t = 1 .. Len(t) /\ Len(t) \in Nat
          BY <2>9, LenProperties
        <4> HIDE DEF t
        <4> QED
          BY <2>9, <3>1, <4>1
      <3> QED
        BY <1>1, <1>2, <2>2, <2>7, <2>9, <2>10, <3>1, <3>2 DEF DownInv
    <2> QED
      BY <2>4, <2>5, <2>11
  <1>3. CASE ~Established
    <2>1. CASE gateway # "done"
      BY <1>1, <1>3, <2>1 DEF ReadStatus, DownInv, AtEof
    <2>2. CASE gateway = "done"
      <3>1. cbuf # <<>> => ~cbuf[1].ok
        <4>1. cbuf \o down = <<Eof>> \/ cbuf \o down = Rejection \o <<Eof>>
          BY <1>1, <1>3, <2>2 DEF DownInv
        <4>2. (Rejection \o <<Eof>>)[1] = StatusLine(FALSE) /\ <<Eof>>[1] = Eof
          BY DEF Rejection
        <4>3. ~StatusLine(FALSE).ok
          BY DEF StatusLine
        <4> QED
          BY <1>1, <4>1, <4>2, <4>3, ClientTakes
      <3>2. ClientFails
        BY <3>1 DEF ReadStatus
      <3> QED
        BY <1>3, <2>2, <3>2, ClientFailsKeeps
    <2> QED
      BY <2>1, <2>2
  <1> QED
    BY <1>2, <1>3

LEMMA ReadResponseHeaderKeeps ==
  ASSUME TunnelInv, ReadResponseHeader
  PROVE  RequestInv' /\ UpInv' /\ DownInv'
  <1>1. RequestInv /\ UpInv /\ DownInv /\ TypeOK /\ client = "headers"
    BY DEF TunnelInv, ReadResponseHeader
  <1>2. Established
    BY <1>1 DEF DownInv
  <1>3. ~AtEof(cbuf, down) /\ (cbuf # <<>> => cbuf[1] = Blank)
    BY <1>1, <1>2, GreetingFirst DEF Greeting
  <1>4. /\ cbuf # <<>> /\ client' = "open" /\ cbuf' = <<>>
        /\ UNCHANGED <<head, sentUp, gotDown, shutUp, gateway, target, authorized, gbuf, halves, broken,
                       dialled, sentDown, gotUp, shutDown, up, down, relayUp, relayDown>>
    BY <1>3 DEF ReadResponseHeader, gatewayVars, relayVars, links
  <1>5. gateway \notin {"request", "headers"}
    BY <1>1, <1>2 DEF RequestInv, Established
  <1>6. RequestInv'
    BY <1>1, <1>4, <1>5, RequestDone
  <1>7. UpInv'
    BY <1>1, <1>4 DEF UpInv, Engaged, Established
  <1> DEFINE s == cbuf \o down
  <1>8. /\ s \in Seq(Items) /\ s # <<>> /\ DOMAIN s = 1 .. Len(s) /\ Len(s) \in Nat
        /\ \A i \in DOMAIN s : s[i] = IF i <= 1 THEN Blank ELSE Eof
    BY <1>1, <1>2, <1>4, ClientTakes DEF DownInv, Greeting
  \* The buffer holds the blank line only: behind it there is nothing but the end.
  <1>9. /\ cbuf \in Seq(Items \ {Eof}) /\ cbuf \in Seq(Items) /\ down \in Seq(Items)
        /\ Len(cbuf) \in Nat \ {0} /\ Len(down) \in Nat
    BY <1>1, <1>4, TypeParts, EmptySeq, LenProperties
  <1>10. Len(s) = Len(cbuf) + Len(down)
         /\ \A i \in 1 .. Len(cbuf) + Len(down) : s[i] = IF i <= Len(cbuf) THEN cbuf[i] ELSE down[i - Len(cbuf)]
    BY <1>9, ConcatProperties
  <1> HIDE DEF s
  <1>11. Len(cbuf) = 1
    <2> SUFFICES ASSUME Len(cbuf) # 1 PROVE FALSE
      OBVIOUS
    <2>0. \A x \in Nat \ {0}, y \in Nat : x # 1 => 2 \in 1 .. x /\ 2 \in 1 .. (x + y)
      OBVIOUS
    <2>1. 2 \in 1 .. Len(cbuf) /\ 2 \in DOMAIN s
      <3>1. DOMAIN s = 1 .. (Len(cbuf) + Len(down))
        BY <1>8, <1>10
      <3> QED
        BY <1>9, <2>0, <3>1
    <2>2. cbuf[2] = Eof
      BY <1>8, <1>9, <1>10, <2>1
    <2>3. cbuf[2] \in Items \ {Eof}
      BY <1>9, <2>1, ElementOfSeq
    <2> QED
      BY <2>2, <2>3
  <1>12. cbuf = <<Blank>>
    BY <1>3, <1>4, <1>9, <1>11
  <1>13. \A i \in DOMAIN down : down[i] = Eof
    <2>1. DOMAIN down = 1 .. Len(down)
      BY <1>9, LenProperties
    <2> SUFFICES ASSUME NEW i \in 1 .. Len(down) PROVE down[i] = Eof
      BY <2>1
    <2>2. i + 1 \in DOMAIN s /\ i + 1 \in 1 .. Len(cbuf) + Len(down) /\ ~(i + 1 <= 1) /\ (i + 1) - 1 = i
      BY <1>8, <1>9, <1>10, <1>11
    <2>3. s[i + 1] = down[(i + 1) - 1]
      BY <1>10, <1>11, <2>2
    <2> QED
      BY <1>8, <2>2, <2>3
  <1>14. broken => ReadsPrefix(gotDown' \o down', sentDown')
    <2>1. gotDown' \o down' = down
      BY <1>1, <1>4, <1>9, ConcatEmptySeq DEF DownInv
    <2>2. 0 \in 0 .. sentDown /\ \A i \in DOMAIN down : ~(i <= 0)
      <3>1. sentDown \in Nat /\ DOMAIN down = 1 .. Len(down)
        BY <1>1, <1>9, TypeParts, LenProperties, RecordsAssumption
      <3> QED
        BY <3>1
    <2>3. ReadsPrefix(down, sentDown)
      BY <1>13, <2>2 DEF ReadsPrefix
    <2> QED
      BY <1>4, <2>1, <2>3
  <1>15. ~broken => (gotDown' \o (cbuf' \o down')) \o relayDown' = <<>> \o Written(sentDown, shutDown)
    <2> SUFFICES ASSUME ~broken
                 PROVE  (gotDown' \o (cbuf' \o down')) \o relayDown' = <<>> \o Written(sentDown, shutDown)
      OBVIOUS
    <2> DEFINE w == Written(sentDown, shutDown)
    <2>1. gotDown = <<>> /\ relayDown \in Seq(Items) /\ w \in Seq(Items)
      BY <1>1, TypeParts, WrittenIs DEF DownInv
    <2>2. (gotDown \o s) \o relayDown = <<Blank>> \o w
      BY <1>1, <1>2 DEF DownInv, Greeting, s
    <2> HIDE DEF w
    <2>3. gotDown \o s = s /\ s = <<Blank>> \o down
      BY <1>8, <1>12, <2>1, ConcatEmptySeq DEF s
    <2>4. down \o relayDown \in Seq(Items) /\ <<Blank>> \in Seq(Items)
      BY <1>9, <1>12, <2>1, ConcatProperties
    <2>5. (<<Blank>> \o down) \o relayDown = <<Blank>> \o (down \o relayDown)
      BY <1>9, <2>1, <2>4, ConcatAssociative
    <2>6. down \o relayDown = w
      BY <2>1, <2>2, <2>3, <2>4, <2>5, ConcatSimplifications
    <2>7. gotDown' \o (cbuf' \o down') = down
      BY <1>4, <1>9, <2>1, ConcatEmptySeq
    <2>8. <<>> \o w = w
      BY <2>1, ConcatEmptySeq
    <2> QED
      BY <1>4, <2>6, <2>7, <2>8 DEF w
  <1>16. DownInv'
    <2>1. Greeting' = <<>> /\ Established'
      BY <1>2, <1>4 DEF Greeting, Established
    <2> QED
      BY <1>1, <1>4, <1>14, <1>15, <2>1 DEF DownInv
  <1> QED
    BY <1>6, <1>7, <1>16

-----------------------------------------------------------------------------
(* The gateway.                                                             *)

LEMMA FillGatewayKeeps ==
  ASSUME TunnelInv, NEW n \in 1 .. Len(up), FillGateway(n)
  PROVE  RequestInv' /\ UpInv' /\ DownInv'
  <1>1. /\ gateway \in {"request", "headers"} /\ gbuf = <<>>
        /\ gbuf' = SubSeq(up, 1, n) /\ up' = SubSeq(up, n + 1, Len(up))
        /\ UNCHANGED <<head, client, cbuf, sentUp, gotDown, shutUp, gateway, target, authorized,
                       halves, broken, dialled, sentDown, gotUp, shutDown, down, relayUp, relayDown>>
    BY DEF FillGateway, clientVars, relayVars
  <1>2. RequestInv /\ UpInv /\ DownInv /\ TypeOK
    BY DEF TunnelInv
  <1>3. up \in Seq(Items) /\ up # <<>>
    BY <1>2, TypeParts
  <1>4. gbuf' \o up' = gbuf \o up
    BY <1>1, <1>3, Cut, ConcatEmptySeq
  <1>5. ~dialled /\ client # "new" /\ ~Engaged
    BY <1>1, <1>2, <1>3 DEF RequestInv, Engaged
  <1>6. RequestInv'
    BY <1>1, <1>2, <1>4, <1>5 DEF RequestInv, Engaged
  <1>7. UpInv'
    BY <1>1, <1>2, <1>5 DEF UpInv, Engaged, DownInv, Established
  <1> QED
    BY <1>1, <1>2, <1>6, <1>7, DownFrame

\* reject, a failed dial, or a client that left: the handler returns without a tunnel.
LEMMA GatewayReturnsKeeps ==
  ASSUME TunnelInv, NEW last \in {<<>>, Rejection}, GatewayReturns(last),
         gateway \in {"request", "headers", "dial"}, client # "new"
  PROVE  RequestInv' /\ UpInv' /\ DownInv'
  <1>1. /\ gateway' = "done" /\ gbuf' = <<>> /\ down' = down \o last \o <<Eof>>
        /\ UNCHANGED <<head, client, cbuf, sentUp, gotDown, shutUp, halves, broken, dialled,
                       sentDown, gotUp, shutDown, up, relayUp, relayDown>>
    BY DEF GatewayReturns, clientVars, relayVars
  <1>2. RequestInv /\ UpInv /\ DownInv /\ TypeOK
    BY DEF TunnelInv
  <1>3. ~dialled /\ ~Established /\ ~dialled' /\ ~Established'
    BY <1>1, <1>2 DEF RequestInv, Established
  <1>5. UpInv'
    BY <1>1, <1>2, <1>3 DEF UpInv, Engaged, Established, DownInv
  <1>6. cbuf' \o down' \in {<<Eof>>, Rejection \o <<Eof>>}
    <2>1. cbuf = <<>> /\ down = <<>>
      BY <1>2, <1>3 DEF DownInv
    <2>2. last \in Seq(Items) /\ <<Eof>> \in Seq(Items)
      BY ItemFacts
    <2>3. last \o <<Eof>> \in Seq(Items)
      BY <2>2, ConcatProperties
    <2>4. down \o last = last /\ <<>> \o (last \o <<Eof>>) = last \o <<Eof>>
      BY <2>1, <2>2, <2>3, ConcatEmptySeq
    <2>5. cbuf' \o down' = last \o <<Eof>>
      BY <1>1, <2>1, <2>4
    <2>6. <<>> \o <<Eof>> = <<Eof>>
      BY <2>2, ConcatEmptySeq
    <2> QED
      BY <2>5, <2>6
  <1>7. DownInv'
    BY <1>1, <1>2, <1>3, <1>6 DEF DownInv
  <1>8. RequestInv'
    BY <1>1, <1>2, <1>3 DEF RequestInv, Engaged
  <1> QED
    BY <1>5, <1>7, <1>8

LEMMA ReadRequestLineKeeps ==
  ASSUME TunnelInv, ReadRequestLine
  PROVE  RequestInv' /\ UpInv' /\ DownInv'
  <1>1. RequestInv /\ UpInv /\ DownInv /\ TypeOK /\ gateway = "request"
    BY DEF TunnelInv, ReadRequestLine
  <1>2. client # "new"
    BY <1>1 DEF RequestInv, ReadRequestLine, AtEof
  <1>3. CASE GatewayReturns(<<>>) \/ GatewayReturns(Rejection)
    BY <1>1, <1>2, <1>3, GatewayReturnsKeeps
  <1>4. CASE /\ gbuf # <<>> /\ gateway' = "headers" /\ gbuf' = Tail(gbuf) /\ target' = gbuf[1].ok
             /\ UNCHANGED <<head, clientVars, authorized, halves, broken, dialled, relayVars, links>>
    <2>1. PICK k \in 0 .. Len(head) - 1 :
            /\ gbuf[1] = head[k + 1] /\ k = 0
            /\ Tail(gbuf) \o up = SubSeq(head, k + 2, Len(head)) \o Ending(shutUp)
      BY <1>1, <1>4, NextLine
    <2>2. UNCHANGED <<head, client, cbuf, sentUp, gotDown, shutUp, authorized, halves, broken, dialled,
                      sentDown, gotUp, shutDown, up, down, relayUp, relayDown>>
      BY <1>4 DEF clientVars, relayVars, links
    <2>3. ~authorized /\ ~dialled /\ ~Established /\ ~Established'
      BY <1>1, <2>2 DEF RequestInv, Established
    <2>4. RequestInv'
      <3>1. Len(head) \in Nat
        BY <1>1, TypeParts, LenProperties
      <3>2. k + 1 \in 0 .. Len(head) /\ k + 1 > 0 /\ (k + 1) + 1 = k + 2
        BY <2>1, <3>1
      <3>3. gbuf' \o up' = SubSeq(head, (k + 1) + 1, Len(head)) \o Ending(shutUp)
        BY <1>4, <2>1, <2>2, <3>2
      <3>4. target' = head[1].ok
        BY <1>4, <2>1
      <3>5. authorized' => LastTokenIsRight(head, k + 1)
        BY <2>2, <2>3
      <3>6. gateway' = "headers" /\ client' # "new" /\ ~dialled' /\ ~Engaged'
        BY <1>2, <1>4, <2>2, <2>3 DEF Engaged
      <3>7. \E j \in 0 .. Len(head') :
              /\ gbuf' \o up' = SubSeq(head', j + 1, Len(head')) \o Ending(shutUp')
              /\ IF gateway' = "request" THEN j = 0 ELSE j > 0 /\ target' = head'[1].ok
              /\ authorized' => LastTokenIsRight(head', j)
        <4>1. head' = head /\ shutUp' = shutUp
          BY <2>2
        <4> QED
          BY <3>2, <3>3, <3>4, <3>5, <3>6, <4>1
      <3> QED
        BY <3>6, <3>7 DEF RequestInv
    <2>5. UpInv'
      BY <1>1, <1>4, <2>2, <2>3 DEF UpInv, Engaged, Established, DownInv
    <2>6. DownInv'
      BY <1>1, <1>4, <2>2, <2>3 DEF DownInv
    <2> QED
      BY <2>4, <2>5, <2>6
  <1> QED
    BY <1>3, <1>4 DEF ReadRequestLine

\* One more line: the decision is its own if it is an Authorization line, and stays
\* what it was if it is not.
LEMMA TokenTaken ==
  ASSUME NEW h, NEW k \in Nat, h[k + 1].kind = "authorization", h[k + 1].ok
  PROVE  LastTokenIsRight(h, k + 1)
  <1>1. k + 1 \in 1 .. (k + 1) /\ (k + 1) + 1 .. (k + 1) = {}
    OBVIOUS
  <1> QED
    BY <1>1 DEF LastTokenIsRight

LEMMA OtherLineTaken ==
  ASSUME NEW h, NEW k \in Nat, h[k + 1].kind # "authorization", LastTokenIsRight(h, k)
  PROVE  LastTokenIsRight(h, k + 1)
  <1>1. PICK i \in 1 .. k : /\ h[i].kind = "authorization" /\ h[i].ok
                            /\ \A j \in i + 1 .. k : h[j].kind # "authorization"
    BY DEF LastTokenIsRight
  <1>2. \A j \in i + 1 .. k + 1 : j \in i + 1 .. k \/ j = k + 1
    OBVIOUS
  <1>3. i \in 1 .. k + 1
    OBVIOUS
  <1> QED
    BY <1>1, <1>2, <1>3 DEF LastTokenIsRight

LEMMA ReadHeaderKeeps ==
  ASSUME TunnelInv, ReadHeader
  PROVE  RequestInv' /\ UpInv' /\ DownInv'
  <1>1. RequestInv /\ UpInv /\ DownInv /\ TypeOK /\ gateway = "headers"
    BY DEF TunnelInv, ReadHeader
  <1>2. client # "new" /\ ~dialled /\ ~Established
    BY <1>1 DEF RequestInv, Established
  <1>3. CASE GatewayReturns(<<>>) \/ GatewayReturns(Rejection)
    BY <1>1, <1>2, <1>3, GatewayReturnsKeeps
  <1>4. CASE /\ gbuf # <<>> /\ gbuf[1] = Blank /\ authorized /\ target
             /\ gateway' = "dial" /\ gbuf' = Tail(gbuf)
             /\ UNCHANGED <<head, clientVars, target, authorized, halves, broken, dialled,
                            relayVars, links>>
    <2>1. PICK k \in 0 .. Len(head) - 1 :
            /\ gbuf[1] = head[k + 1]
            /\ Tail(gbuf) \o up = SubSeq(head, k + 2, Len(head)) \o Ending(shutUp)
            /\ k > 0 /\ target = head[1].ok
            /\ authorized => LastTokenIsRight(head, k)
      BY <1>1, <1>4, NextLine
    <2>2. UNCHANGED <<head, client, cbuf, sentUp, gotDown, shutUp, target, authorized, halves, broken, dialled,
                      sentDown, gotUp, shutDown, up, down, relayUp, relayDown>>
      BY <1>4 DEF clientVars, relayVars, links
    <2>3. /\ gbuf \in Seq(Items \ {Eof}) /\ up \in Seq(Items) /\ head \in Seq(Items)
          /\ \A i \in DOMAIN head : head[i] = Blank => i = Len(head)
          /\ shutUp \in BOOLEAN
      BY <1>1, TypeParts
    <2>4. Len(head) \in Nat /\ DOMAIN head = 1 .. Len(head)
      BY <2>3, LenProperties
    \* The blank line was the last of the request: nothing is left behind it.
    <2>5. k + 1 = Len(head)
      <3>1. k + 1 \in DOMAIN head
        BY <2>4
      <3> QED
        BY <1>4, <2>1, <2>3, <3>1
    <2>6. Tail(gbuf) \o up = Ending(shutUp)
      <3>1. SubSeq(head, k + 2, Len(head)) = <<>>
        BY <2>4, <2>5, SubSeqEmpty
      <3>2. Ending(shutUp) \in Seq(Items)
        BY ItemFacts DEF Ending
      <3> QED
        BY <2>1, <3>1, <3>2, ConcatEmptySeq
    <2> DEFINE b == Tail(gbuf)
    <2>7. b \in Seq(Items \ {Eof}) /\ b \in Seq(Items)
      <3>1. b \in Seq(Items \ {Eof})
        BY <1>4, <2>3, HeadTailProperties
      <3> QED
        BY <3>1, SeqMonotonic
    <2> HIDE DEF b
    <2>8. b = <<>>
      <3> SUFFICES ASSUME b # <<>> PROVE FALSE
        OBVIOUS
      <3>1. b[1] = (b \o up)[1] /\ b \o up # <<>>
        BY <2>3, <2>7, TakeFirst
      <3>2. b[1] \in Items \ {Eof}
        <4>1. Len(b) >= 1
          BY <2>7, EmptySeq
        <4> QED
          BY <2>7, <4>1, ElementOfSeq
      <3>3. b \o up = <<Eof>> \/ b \o up = <<>>
        BY <2>6 DEF b, Ending
      <3>4. (b \o up)[1] = Eof
        <4>1. b \o up = <<Eof>>
          BY <3>1, <3>3
        <4>2. <<Eof>>[1] = Eof
          OBVIOUS
        <4> QED
          BY <4>1, <4>2
      <3> QED
        BY <3>1, <3>2, <3>4
    <2>9. gbuf' = <<>> /\ up = Ending(shutUp)
      <3>1. b \o up = up
        BY <2>3, <2>8, ConcatEmptySeq
      <3> QED
        BY <1>4, <2>6, <2>8, <3>1 DEF b
    <2>10. head[1].ok /\ LastTokenIsRight(head, Len(head))
      <3>1. head[k + 1].kind # "authorization"
        BY <1>4, <2>1 DEF Blank
      <3>2. LastTokenIsRight(head, k)
        BY <1>4, <2>1
      <3>3. LastTokenIsRight(head, k + 1)
        BY <2>1, <3>1, <3>2, OtherLineTaken
      <3> QED
        BY <1>4, <2>1, <2>5, <3>3
    <2>11. ~Established' /\ ~dialled'
      BY <1>2, <2>2 DEF Established
    <2>12. RequestInv'
      BY <1>1, <1>2, <1>4, <2>2, <2>9, <2>10, <2>11 DEF RequestInv
    <2>13. sentUp = 0 /\ gotUp = <<>> /\ relayUp = <<>> /\ halves = {} /\ ~broken
      BY <1>1, <1>2 DEF UpInv, DownInv, Established
    <2>14. (gotUp \o relayUp) \o up = Written(sentUp, shutUp)
      <3>1. gotUp \o relayUp = <<>> /\ <<>> \o up = up
        BY <2>3, <2>13, ConcatEmptySeq, ItemFacts
      <3>2. Written(0, shutUp) = Ending(shutUp)
        <4>1. 0 \in 0 .. MaxRecords
          BY RecordsAssumption
        <4> QED
          BY <2>3, <4>1, WrittenIs
      <3> QED
        BY <2>9, <2>13, <3>1, <3>2
    <2>15. UpInv'
      BY <1>1, <1>2, <1>4, <2>2, <2>11, <2>13, <2>14 DEF UpInv
    <2>16. DownInv'
      BY <1>1, <1>2, <1>4, <2>2, <2>11 DEF DownInv
    <2> QED
      BY <2>12, <2>15, <2>16
  <1>5. CASE /\ gbuf # <<>> /\ gbuf[1] # Blank
             /\ authorized' = IF gbuf[1].kind = "authorization" THEN gbuf[1].ok ELSE authorized
             /\ gbuf' = Tail(gbuf)
             /\ UNCHANGED <<head, clientVars, gateway, target, halves, broken, dialled,
                            relayVars, links>>
    <2>1. PICK k \in 0 .. Len(head) - 1 :
            /\ gbuf[1] = head[k + 1]
            /\ Tail(gbuf) \o up = SubSeq(head, k + 2, Len(head)) \o Ending(shutUp)
            /\ k > 0 /\ target = head[1].ok
            /\ authorized => LastTokenIsRight(head, k)
      BY <1>1, <1>5, NextLine
    <2>2. UNCHANGED <<head, client, cbuf, sentUp, gotDown, shutUp, gateway, target, halves, broken, dialled,
                      sentDown, gotUp, shutDown, up, down, relayUp, relayDown>>
      BY <1>5 DEF clientVars, relayVars, links
    <2>3. Len(head) \in Nat
      BY <1>1, TypeParts, LenProperties
    <2>4. k + 1 \in 0 .. Len(head) /\ k + 1 > 0 /\ k + 1 \in 1 .. (k + 1) /\ 1 .. k \subseteq 1 .. (k + 1)
          /\ (k + 1) + 1 = k + 2
      BY <2>1, <2>3
    <2>5. authorized' => LastTokenIsRight(head, k + 1)
      <3>1. CASE gbuf[1].kind = "authorization"
        <4> SUFFICES ASSUME authorized'
                     PROVE  LastTokenIsRight(head, k + 1)
          OBVIOUS
        <4>1. authorized' = gbuf[1].ok
          BY ONLY <1>5, <3>1
        <4>2. gbuf[1].ok
          BY ONLY <4>1, authorized', Zenon
        <4>3. head[k + 1].kind = "authorization" /\ head[k + 1].ok
          BY ONLY <2>1, <3>1, <4>2, Zenon
        <4>4. k \in Nat
          BY <2>3
        <4> QED
          BY ONLY <4>3, <4>4, TokenTaken, Zenon
      <3>2. CASE gbuf[1].kind # "authorization"
        BY <1>5, <2>1, <3>2, OtherLineTaken
      <3> QED
        BY <3>1, <3>2
    <2>6. gbuf' \o up' = SubSeq(head, (k + 1) + 1, Len(head)) \o Ending(shutUp)
      BY <1>5, <2>1, <2>2, <2>4
    <2>7. RequestInv'
      BY <1>1, <1>2, <2>1, <2>2, <2>4, <2>5, <2>6 DEF RequestInv, Engaged
    <2> QED
      BY <1>1, <2>2, <2>7, UpFrame, DownFrame
  <1> QED
    BY <1>3, <1>4, <1>5 DEF ReadHeader

LEMMA DialRelayKeeps ==
  ASSUME TunnelInv, DialRelay
  PROVE  RequestInv' /\ UpInv' /\ DownInv'
  <1>1. /\ gateway = "dial" /\ gateway' = "dialled" /\ dialled' = TRUE
        /\ UNCHANGED <<head, client, cbuf, sentUp, gotDown, shutUp, target, authorized, gbuf, halves, broken,
                       sentDown, gotUp, shutDown, up, down, relayUp, relayDown>>
    BY DEF DialRelay, clientVars, relayVars, links
  <1>2. RequestInv /\ UpInv /\ DownInv
    BY DEF TunnelInv
  <1>3. Engaged /\ Engaged' /\ ~Established /\ ~Established' /\ ~dialled
    BY <1>1, <1>2 DEF RequestInv, Engaged, Established
  <1>4. RequestInv'
    BY <1>1, <1>2, <1>3 DEF RequestInv
  <1>5. UpInv'
    BY <1>1, <1>2, <1>3 DEF UpInv, DownInv, Established
  <1>6. DownInv'
    BY <1>1, <1>2, <1>3 DEF DownInv
  <1> QED
    BY <1>4, <1>5, <1>6

LEMMA RelayRefusesKeeps ==
  ASSUME TunnelInv, RelayRefuses
  PROVE  RequestInv' /\ UpInv' /\ DownInv'
  <1>1. gateway = "dial" /\ GatewayReturns(<<>>) /\ client # "new"
    BY DEF RelayRefuses, TunnelInv, RequestInv
  <1> QED
    BY <1>1, GatewayReturnsKeeps

LEMMA EstablishKeeps ==
  ASSUME TunnelInv, Establish
  PROVE  RequestInv' /\ UpInv' /\ DownInv'
  <1> DEFINE g == <<StatusLine(TRUE), Blank>>
  <1>1. /\ gateway = "dialled" /\ gateway' = "copy" /\ gbuf' = <<>> /\ down' = down \o g
        /\ UNCHANGED <<head, client, cbuf, sentUp, gotDown, shutUp, target, authorized, halves, broken,
                       dialled, sentDown, gotUp, shutDown, up, relayUp, relayDown>>
    BY DEF Establish, clientVars, relayVars
  <1>2. RequestInv /\ UpInv /\ DownInv /\ TypeOK
    BY DEF TunnelInv
  <1>3. dialled /\ Engaged /\ ~Established /\ Established' /\ Engaged'
    BY <1>1, <1>2 DEF RequestInv, Engaged, Established
  <1>4. RequestInv'
    BY <1>1, <1>2, <1>3 DEF RequestInv
  <1>5. UpInv'
    BY <1>1, <1>2, <1>3 DEF UpInv, DownInv, Established
  <1>6. /\ cbuf = <<>> /\ down = <<>> /\ sentDown = 0 /\ halves = {} /\ ~broken
        /\ relayDown = Ending(shutDown) /\ client \in {"new", "status", "failed", "gone"}
        /\ gotDown = <<>>
    BY <1>1, <1>2, <1>3 DEF DownInv
  <1>7. client # "new"
    BY <1>1, <1>2 DEF RequestInv
  <1>8. cbuf' \o down' = g /\ gotDown' \o (cbuf' \o down') = g
    BY <1>1, <1>6, ItemFacts, ConcatEmptySeq
  <1>9. relayDown' = Written(sentDown', shutDown')
    <2>1. 0 \in 0 .. MaxRecords /\ shutDown \in BOOLEAN
      BY <1>2, RecordsAssumption, TypeParts
    <2> QED
      BY <1>1, <1>6, <2>1, WrittenIs
  <1>10. client' = "status" => Greeting' = g
    BY DEF Greeting
  <1>11. Len(g) = 2 /\ DOMAIN g = 1 .. 2
    OBVIOUS
  <1>12. \A i \in DOMAIN g : g[i] = IF i <= Len(g) THEN g[i] ELSE Eof
    <2> HIDE DEF g
    <2> QED
      BY <1>11
  <1> HIDE DEF g
  <1>13. DownInv'
    <2>1. /\ client' \in {"status", "failed", "gone"} /\ dialled' /\ ~broken' /\ halves' = {}
          /\ sentDown' = 0 /\ gotDown' = <<>>
      BY <1>1, <1>3, <1>6, <1>7
    <2>2. client' = "status" =>
            /\ Len(cbuf' \o down') >= Len(Greeting')
            /\ \A i \in DOMAIN (cbuf' \o down') :
                 (cbuf' \o down')[i] = IF i <= Len(Greeting') THEN Greeting'[i] ELSE Eof
      <3>1. PICK s, t : s = cbuf' \o down' /\ t = Greeting'
        OBVIOUS
      <3>2. client' = "status" => s = g /\ t = g
        BY <1>8, <1>10, <3>1
      <3>3. client' = "status" =>
              Len(s) >= Len(t) /\ \A i \in DOMAIN s : s[i] = IF i <= Len(t) THEN t[i] ELSE Eof
        BY <1>11, <1>12, <3>2
      <3> QED
        BY <3>1, <3>3
    <2>3. client' = "status" =>
            (gotDown' \o (cbuf' \o down')) \o relayDown' = Greeting' \o Written(sentDown', shutDown')
      BY <1>8, <1>9, <1>10
    <2> QED
      BY <1>3, <2>1, <2>2, <2>3 DEF DownInv
  <1> QED
    BY <1>4, <1>5, <1>13

-----------------------------------------------------------------------------
(* The copying.                                                             *)

\* The end of stream is the last thing behind the greeting, too.
LEMMA EofIsLastOfAll ==
  ASSUME NEW n \in 0 .. MaxRecords, NEW b \in BOOLEAN, NEW g \in Seq(Items \ {Eof}),
         NEW s \in Seq(Items), NEW t \in Seq(Items), s \o t = g \o Written(n, b),
         t # <<>>, Head(t) = Eof
  PROVE  b /\ Tail(t) = <<>>
  <1> DEFINE w == Written(n, b)
  <1>0. /\ w \in Seq(Items) /\ Len(w) = IF b THEN n + 1 ELSE n
        /\ \A i \in 1 .. Len(w) : w[i] = IF i <= n THEN Record(i) ELSE Eof
    BY WrittenIs
  <1>1. s \o t = g \o w
    OBVIOUS
  <1> HIDE DEF w
  <1>2. /\ g \in Seq(Items) /\ Len(s) \in Nat /\ Len(t) \in Nat \ {0} /\ n \in Nat
        /\ Len(g) \in Nat /\ Len(w) \in Nat
    BY <1>0, SeqMonotonic, LenProperties, EmptySeq, RecordsAssumption
  <1>3. Len(s) + Len(t) = Len(g) + Len(w)
    <2>1. Len(s \o t) = Len(s) + Len(t)
      BY ConcatProperties
    <2>2. Len(g \o w) = Len(g) + Len(w)
      BY <1>0, <1>2, ConcatProperties
    <2> QED
      BY <1>1, <2>1, <2>2
  <1> DEFINE p == Len(s) + 1
  <1>4. p \in Nat /\ p \in 1 .. Len(s) + Len(t) /\ p \in 1 .. Len(g) + Len(w) /\ ~(p <= Len(s)) /\ p - Len(s) = 1
    BY <1>2, <1>3
  <1>5. (s \o t)[p] = Eof
    <2>1. (s \o t)[p] = t[p - Len(s)]
      BY <1>4, ConcatProperties
    <2>2. t[1] = Head(t)
      OBVIOUS
    <2> QED
      BY <1>4, <2>1, <2>2
  <1>6. (g \o w)[p] = IF p <= Len(g) THEN g[p] ELSE w[p - Len(g)]
    BY <1>0, <1>2, <1>4, ConcatProperties
  <1> HIDE DEF p
  <1>7. p > Len(g)
    <2> SUFFICES ASSUME p <= Len(g) PROVE FALSE
      BY <1>2, <1>4
    <2>1. p \in 1 .. Len(g) /\ g[p] = Eof
      BY <1>1, <1>2, <1>4, <1>5, <1>6
    <2>2. g[p] \in Items \ {Eof}
      BY <2>1, ElementOfSeq
    <2> QED
      BY <2>1, <2>2
  <1> DEFINE q == p - Len(g)
  <1>8. q \in 1 .. Len(w) /\ w[q] = Eof
    BY <1>1, <1>2, <1>4, <1>5, <1>6, <1>7
  <1>9. q > n
    BY <1>0, <1>2, <1>8, KindsDiffer
  <1>10. b /\ Len(w) = n + 1
    <2>1. Len(w) > n
      BY <1>2, <1>8, <1>9
    <2> QED
      BY <1>0, <1>2, <2>1
  <1>11. Len(t) = 1
    <2>1. p = Len(s) + 1 /\ p - Len(g) > n
      BY <1>9 DEF p
    <2>2. \A ls, lg, m \in Nat, lt \in Nat \ {0} :
            ls + lt = lg + (m + 1) /\ (ls + 1) - lg > m => lt = 1
      OBVIOUS
    <2>3. Len(s) + Len(t) = Len(g) + (n + 1) /\ (Len(s) + 1) - Len(g) > n
      BY <1>3, <1>10, <2>1
    <2> QED
      BY <1>2, <2>2, <2>3
  <1>12. Tail(t) = <<>>
    <2>1. Tail(t) \in Seq(Items) /\ Len(Tail(t)) = 0
      BY <1>11, HeadTailProperties
    <2> QED
      BY <2>1, EmptySeq
  <1> QED
    BY <1>10, <1>12

LEMMA CopyUpKeeps ==
  ASSUME TunnelInv, CopyUp
  PROVE  RequestInv' /\ UpInv' /\ DownInv'
  <1>1. /\ gateway = "copy" /\ up # <<>> /\ "up" \notin halves
        /\ relayUp' = Append(relayUp, Head(up)) /\ up' = Tail(up)
        /\ UNCHANGED <<head, client, cbuf, sentUp, gotDown, shutUp, target, authorized, gbuf, broken,
                       dialled, sentDown, gotUp, shutDown, down, relayDown>>
    BY DEF CopyUp, clientVars, relayVars
  <1>2. RequestInv /\ UpInv /\ DownInv /\ TypeOK
    BY DEF TunnelInv
  <1>3. /\ dialled /\ ~broken /\ Established /\ Engaged
        /\ gotUp \in Seq(Items) /\ relayUp \in Seq(Items) /\ up \in Seq(Items)
        /\ gotUp \o relayUp \in Seq(Items)
        /\ sentUp \in 0 .. MaxRecords /\ shutUp \in BOOLEAN /\ halves \subseteq {"up", "down"}
    BY <1>1, <1>2, TypeParts, ConcatProperties DEF RequestInv, UpInv, Established, Engaged, TypeOK
  <1>4. (gotUp \o relayUp) \o up = Written(sentUp, shutUp)
    BY <1>2, <1>3 DEF UpInv
  <1>5. (gotUp' \o relayUp') \o up' = Written(sentUp, shutUp)
    <2>1. relayUp' \in Seq(Items) /\ up' \in Seq(Items) /\ relayUp' \o up' = relayUp \o up
      BY <1>1, <1>3, Move
    <2>2. (gotUp \o relayUp') \o up' = gotUp \o (relayUp' \o up')
      <3>1. PICK r, u : r = relayUp' /\ u = up'
        OBVIOUS
      <3>2. r \in Seq(Items) /\ u \in Seq(Items)
        BY <2>1, <3>1
      <3>3. (gotUp \o r) \o u = gotUp \o (r \o u)
        BY <1>3, <3>2, ConcatAssociative, SMTT(30)
      <3> QED
        BY <3>1, <3>3
    <2>3. (gotUp \o relayUp) \o up = gotUp \o (relayUp \o up)
      BY <1>3, ConcatAssociative
    <2> QED
      BY <1>1, <1>4, <2>1, <2>2, <2>3
  <1>6. /\ gateway' \in {"copy", "done"}
        /\ gateway' = "done" => halves' = {"up", "down"}
        /\ halves' \in {halves, halves \cup {"up"}}
        /\ "up" \in halves' => Head(up) = Eof
    BY <1>1 DEF CopyUp, Finish
  <1>7. Head(up) = Eof => shutUp /\ Tail(up) = <<>>
    BY <1>1, <1>3, <1>4, EofIsLast
  <1>8. Established' /\ Engaged'
    BY <1>1, <1>3, <1>6 DEF Established, Engaged
  <1>9. RequestInv'
    BY <1>1, <1>2, <1>3, <1>6, <1>8 DEF RequestInv
  <1>10. UpInv'
    BY <1>1, <1>2, <1>3, <1>5, <1>6, <1>7, <1>8 DEF UpInv
  <1>11. DownInv'
    BY <1>1, <1>2, <1>3, <1>6, <1>8 DEF DownInv, Greeting
  <1> QED
    BY <1>9, <1>10, <1>11

LEMMA GreetingType ==
  /\ Greeting \in Seq(Items \ {Eof}) /\ Greeting \in Seq(Items)
  /\ Len(Greeting) \in Nat
  <1>1. StatusLine(TRUE) \in Items \ {Eof} /\ Blank \in Items \ {Eof}
    <2>1. \A b \in BOOLEAN : StatusLine(b) \in Lines
      BY DEF Lines
    <2>2. StatusLine(TRUE) \in Lines
      BY <2>1
    <2>3. Blank \in Lines
      BY DEF Lines
    <2> QED
      BY <2>2, <2>3, KindsDiffer
  <1>2. \A A : \A a, b \in A : <<a, b>> \in Seq(A) /\ <<b>> \in Seq(A)
    OBVIOUS
  <1>3. Greeting \in {<<StatusLine(TRUE), Blank>>, <<Blank>>, <<>>}
    BY DEF Greeting
  <1>4. Greeting \in Seq(Items \ {Eof})
    BY <1>1, <1>2, <1>3, EmptySeq
  <1> QED
    BY <1>4, SeqMonotonic, LenProperties

LEMMA CopyDownKeeps ==
  ASSUME TunnelInv, CopyDown
  PROVE  RequestInv' /\ UpInv' /\ DownInv'
  <1> DEFINE x == Head(relayDown)
             s == cbuf \o down
             W == Written(sentDown, shutDown)
             P == client \in {"status", "headers", "open"}
  <1>1. /\ gateway = "copy" /\ relayDown # <<>> /\ "down" \notin halves
        /\ down' = Append(down, x) /\ relayDown' = Tail(relayDown)
        /\ UNCHANGED <<head, client, cbuf, sentUp, gotDown, shutUp, target, authorized, gbuf, broken,
                       dialled, sentDown, gotUp, shutDown, up, relayUp>>
    BY DEF CopyDown, clientVars, relayVars
  <1>2. RequestInv /\ UpInv /\ DownInv /\ TypeOK
    BY DEF TunnelInv
  <1>3. /\ dialled /\ ~broken /\ Established /\ Engaged
        /\ gotDown \in Seq(Items) /\ relayDown \in Seq(Items) /\ down \in Seq(Items) /\ cbuf \in Seq(Items)
        /\ sentDown \in 0 .. MaxRecords /\ shutDown \in BOOLEAN /\ halves \subseteq {"up", "down"}
    BY <1>1, <1>2, TypeParts DEF RequestInv, UpInv, Established, Engaged, TypeOK
  <1>4. /\ gateway' \in {"copy", "done"}
        /\ gateway' = "done" => halves' = {"up", "down"}
        /\ halves' \in {halves, halves \cup {"down"}}
        /\ "down" \in halves' => x = Eof
    BY <1>1 DEF CopyDown, Finish
  <1>5. Established' /\ Engaged' /\ Greeting' = Greeting
    BY <1>1, <1>3, <1>4 DEF Established, Engaged, Greeting
  <1>6. P => (gotDown \o s) \o relayDown = Greeting \o W
    BY <1>2, <1>3 DEF DownInv
  <1>7. x \in Items /\ s \in Seq(Items) /\ gotDown \o s \in Seq(Items)
    BY <1>1, <1>3, HeadTailProperties, ConcatProperties
  <1> HIDE DEF x, W
  <1>8. cbuf' \o down' = Append(s, x)
    BY <1>1, <1>3, <1>7, AppendBehind
  <1> HIDE DEF s
  <1>9. P => (gotDown' \o (cbuf' \o down')) \o relayDown' = Greeting \o W
    <2>1. gotDown \o Append(s, x) = Append(gotDown \o s, x)
      BY <1>3, <1>7, AppendBehind
    <2>2. Append(gotDown \o s, x) \o Tail(relayDown) = (gotDown \o s) \o relayDown
      BY <1>1, <1>3, <1>7, Move, ZenonT(60) DEF x
    <2> QED
      BY <1>1, <1>6, <1>8, <2>1, <2>2
  <1>10. P /\ x = Eof => shutDown /\ Tail(relayDown) = <<>>
    BY <1>1, <1>3, <1>6, <1>7, EofIsLastOfAll, GreetingType DEF x, W
  \* Before the client is open the relay has nothing to say but the end.
  <1>11. ASSUME client \in {"status", "headers"}
         PROVE  /\ Len(Append(s, x)) >= Len(Greeting)
                /\ \A i \in DOMAIN Append(s, x) :
                     Append(s, x)[i] = IF i <= Len(Greeting) THEN Greeting[i] ELSE Eof
    <2>1. /\ Len(s) >= Len(Greeting) /\ sentDown = 0 /\ gotDown = <<>>
          /\ \A i \in DOMAIN s : s[i] = IF i <= Len(Greeting) THEN Greeting[i] ELSE Eof
      BY <1>2, <1>3, <1>11 DEF DownInv, s
    <2>2. s \o relayDown = Greeting \o W
      BY <1>6, <1>7, <1>11, <2>1, ConcatEmptySeq
    <2>3. /\ W \in Seq(Items) /\ \A i \in 1 .. Len(W) : W[i] = Eof
      <3>1. \A i \in 1 .. Len(W) : ~(i <= 0)
        OBVIOUS
      <3> QED
        BY <1>3, <2>1, <3>1, WrittenIs DEF W
    <2>4. Len(s) \in Nat /\ Len(relayDown) \in Nat \ {0} /\ Len(W) \in Nat /\ Len(Greeting) \in Nat
      BY <1>1, <1>3, <1>7, <2>3, GreetingType, LenProperties, EmptySeq
    <2>5. Len(s) + Len(relayDown) = Len(Greeting) + Len(W)
      <3>1. Len(s \o relayDown) = Len(s) + Len(relayDown)
        BY <1>3, <1>7, ConcatProperties
      <3>2. Len(Greeting \o W) = Len(Greeting) + Len(W)
        BY <2>3, GreetingType, ConcatProperties
      <3> QED
        BY <2>2, <3>1, <3>2
    <2> DEFINE p == Len(s) + 1
    <2>6. /\ p \in 1 .. Len(s) + Len(relayDown) /\ p \in 1 .. Len(Greeting) + Len(W)
          /\ ~(p <= Len(s)) /\ p - Len(s) = 1 /\ ~(p <= Len(Greeting)) /\ p - Len(Greeting) \in 1 .. Len(W)
      BY <2>1, <2>4, <2>5
    <2>7. (s \o relayDown)[p] = x
      <3>1. (s \o relayDown)[p] = relayDown[p - Len(s)]
        BY <1>3, <1>7, <2>6, ConcatProperties
      <3>2. relayDown[1] = Head(relayDown)
        BY <1>1, <1>3
      <3> QED
        BY <2>6, <3>1, <3>2 DEF x
    <2>8. (Greeting \o W)[p] = W[p - Len(Greeting)]
      BY <2>3, <2>6, GreetingType, ConcatProperties
    <2>9. x = Eof
      BY <2>2, <2>3, <2>6, <2>7, <2>8
    <2> DEFINE a == Append(s, x)
    <2>10. /\ Len(a) = Len(s) + 1 /\ DOMAIN a = 1 .. Len(a) /\ DOMAIN s = 1 .. Len(s)
           /\ \A i \in 1 .. Len(s) : a[i] = s[i]
           /\ a[Len(s) + 1] = x
      BY <1>7, AppendProperties, LenProperties
    <2> HIDE DEF a
    <2>11. Len(a) >= Len(Greeting) /\ \A i \in DOMAIN a : a[i] = IF i <= Len(Greeting) THEN Greeting[i] ELSE Eof
      BY <2>1, <2>4, <2>9, <2>10
    <2> QED
      BY <2>11 DEF a
  <1>12. RequestInv'
    BY <1>1, <1>2, <1>3, <1>4, <1>5 DEF RequestInv
  <1>13. UpInv'
    BY <1>1, <1>2, <1>3, <1>4, <1>5 DEF UpInv
  <1>14. DownInv'
    <2>1. "down" \in halves' /\ P => shutDown' /\ relayDown' = <<>>
      BY <1>1, <1>4, <1>10
    <2>2. client' \in {"status", "headers"} => broken' \/ sentDown' = 0
      BY <1>1, <1>2, <1>3 DEF DownInv
    <2>3. client' \in {"status", "headers"} =>
            /\ Len(cbuf' \o down') >= Len(Greeting')
            /\ \A i \in DOMAIN (cbuf' \o down') :
                 (cbuf' \o down')[i] = IF i <= Len(Greeting') THEN Greeting'[i] ELSE Eof
      BY <1>1, <1>5, <1>8, <1>11
    <2>4. P => (gotDown' \o (cbuf' \o down')) \o relayDown' = Greeting' \o Written(sentDown', shutDown')
      BY <1>1, <1>5, <1>9 DEF W
    <2>5. (client' = "open" => cbuf' = <<>>) /\ (client' # "open" => gotDown' = <<>>)
      BY <1>1, <1>2 DEF DownInv
    <2>6. ~broken' /\ dialled' /\ client' = client
      BY <1>1, <1>3
    <2> QED
      BY <1>5, <2>1, <2>2, <2>3, <2>4, <2>5, <2>6 DEF DownInv
  <1> QED
    BY <1>12, <1>13, <1>14

LEMMA CopyBreaksKeeps ==
  ASSUME TunnelInv, CopyBreaks
  PROVE  RequestInv' /\ UpInv' /\ DownInv'
  <1> DEFINE s == cbuf \o down
  <1>1. /\ gateway = "copy" /\ gateway' = "done" /\ broken' = TRUE
        /\ down' = Append(down, Eof) /\ relayUp' = Append(relayUp, Eof)
        /\ UNCHANGED <<head, client, cbuf, sentUp, gotDown, shutUp, target, authorized, gbuf, halves,
                       dialled, sentDown, gotUp, shutDown, up, relayDown>>
    BY DEF CopyBreaks, clientVars, relayVars
  <1>2. RequestInv /\ UpInv /\ DownInv /\ TypeOK
    BY DEF TunnelInv
  <1>3. /\ dialled /\ ~broken /\ Established /\ Engaged
        /\ Established' /\ Engaged' /\ Greeting' = Greeting /\ client # "new"
    BY <1>1, <1>2 DEF RequestInv, UpInv, Established, Engaged, Greeting
  <1>4. /\ gotDown \in Seq(Items) /\ relayDown \in Seq(Items) /\ down \in Seq(Items) /\ cbuf \in Seq(Items)
        /\ gotUp \in Seq(Items) /\ relayUp \in Seq(Items) /\ up \in Seq(Items)
        /\ sentDown \in 0 .. MaxRecords /\ shutDown \in BOOLEAN
        /\ sentUp \in 0 .. MaxRecords /\ shutUp \in BOOLEAN /\ Eof \in Items
    BY <1>2, TypeParts, KindsDiffer
  <1>5. RequestInv'
    BY <1>1, <1>2, <1>3 DEF RequestInv
  <1>6. UpInv'
    <2>1. (gotUp \o relayUp) \o up = Written(sentUp, shutUp)
      BY <1>2, <1>3 DEF UpInv
    <2>2. gotUp \o Append(relayUp, Eof) = Append(gotUp \o relayUp, Eof) /\ gotUp \o relayUp \in Seq(Items)
      BY <1>4, AppendBehind
    <2>3. ReadsPrefix(Append(gotUp \o relayUp, Eof), sentUp)
      BY <1>4, <2>1, <2>2, PrefixCut
    <2>4. ReadsPrefix(gotUp' \o relayUp', sentUp')
      BY <1>1, <2>2, <2>3
    <2> QED
      BY <1>1, <1>2, <1>3, <2>4 DEF UpInv
  <1>7. s \in Seq(Items) /\ cbuf' \o down' = Append(s, Eof)
    BY <1>1, <1>4, AppendBehind, SMTT(30)
  <1>8. ASSUME client \in {"status", "headers"}
        PROVE  /\ Len(Append(s, Eof)) >= Len(Greeting)
               /\ \A i \in DOMAIN Append(s, Eof) :
                    Append(s, Eof)[i] = IF i <= Len(Greeting) THEN Greeting[i] ELSE Eof
    <2>1. /\ Len(s) >= Len(Greeting)
          /\ \A i \in DOMAIN s : s[i] = IF i <= Len(Greeting) THEN Greeting[i] ELSE Eof
      BY <1>2, <1>3, <1>8 DEF DownInv
    <2>2. Len(s) \in Nat /\ Len(Greeting) \in Nat
      BY <1>7, GreetingType, LenProperties
    <2> HIDE DEF s
    <2> DEFINE a == Append(s, Eof)
    <2>3. /\ Len(a) = Len(s) + 1 /\ DOMAIN a = 1 .. Len(a) /\ DOMAIN s = 1 .. Len(s)
          /\ \A i \in 1 .. Len(s) : a[i] = s[i]
          /\ a[Len(s) + 1] = Eof
      BY <1>4, <1>7, AppendProperties, LenProperties
    <2> HIDE DEF a
    <2>4. Len(a) >= Len(Greeting) /\ \A i \in DOMAIN a : a[i] = IF i <= Len(Greeting) THEN Greeting[i] ELSE Eof
      BY <2>1, <2>2, <2>3
    <2> QED
      BY <2>4 DEF a
  <1>9. ASSUME client = "open" PROVE ReadsPrefix(gotDown' \o down', sentDown')
    <2>1. cbuf = <<>> /\ (gotDown \o (cbuf \o down)) \o relayDown = Greeting \o Written(sentDown, shutDown)
      BY <1>2, <1>3, <1>9 DEF DownInv
    <2>2. Greeting = <<>>
      BY <1>9 DEF Greeting
    <2>3. cbuf \o down = down /\ <<>> \o Written(sentDown, shutDown) = Written(sentDown, shutDown)
      BY <1>4, <2>1, WrittenIs, ConcatEmptySeq
    <2>4. (gotDown \o down) \o relayDown = Written(sentDown, shutDown)
      BY <2>1, <2>2, <2>3
    <2>5. gotDown \o Append(down, Eof) = Append(gotDown \o down, Eof) /\ gotDown \o down \in Seq(Items)
      BY <1>4, AppendBehind
    <2>6. ReadsPrefix(Append(gotDown \o down, Eof), sentDown)
      BY <1>4, <2>4, <2>5, PrefixCut
    <2> QED
      BY <1>1, <2>5, <2>6
  <1>10. DownInv'
    <2>1. broken' /\ dialled' /\ client' = client
      BY <1>1, <1>3
    <2>2. client' \in {"status", "headers"} =>
            /\ Len(cbuf' \o down') >= Len(Greeting')
            /\ \A i \in DOMAIN (cbuf' \o down') :
                 (cbuf' \o down')[i] = IF i <= Len(Greeting') THEN Greeting'[i] ELSE Eof
      <3> HIDE DEF s
      <3> QED
        BY <1>1, <1>3, <1>7, <1>8
    <2>3. /\ (client' = "open" => cbuf' = <<>>) /\ (client' # "open" => gotDown' = <<>>)
          /\ "down" \in halves' /\ client' \in {"status", "headers", "open"} => shutDown' /\ relayDown' = <<>>
      BY <1>1, <1>2 DEF DownInv
    <2> QED
      BY <1>1, <1>3, <1>9, <2>1, <2>2, <2>3 DEF DownInv
  <1> QED
    BY <1>5, <1>6, <1>10

-----------------------------------------------------------------------------
(* The relay.                                                               *)

LEMMA RelayReadKeeps ==
  ASSUME TunnelInv, RelayRead
  PROVE  RequestInv' /\ UpInv' /\ DownInv'
  <1>1. /\ relayUp # <<>> /\ gotUp' = Append(gotUp, Head(relayUp)) /\ relayUp' = Tail(relayUp)
        /\ UNCHANGED <<head, client, cbuf, sentUp, gotDown, shutUp, gateway, target, authorized, gbuf,
                       halves, broken, dialled, sentDown, shutDown, up, down, relayDown>>
    BY DEF RelayRead, clientVars, gatewayVars
  <1>2. RequestInv /\ UpInv /\ DownInv /\ TypeOK
    BY DEF TunnelInv
  <1>3. gotUp' \o relayUp' = gotUp \o relayUp
    BY <1>1, <1>2, TypeParts, Move
  <1>4. Established /\ Established' /\ (Engaged' <=> Engaged)
    BY <1>1, <1>2 DEF UpInv, Established, Engaged
  <1>5. UpInv'
    BY <1>1, <1>2, <1>3, <1>4 DEF UpInv
  <1> QED
    BY <1>1, <1>2, <1>5, RequestFrame, DownFrame

\* The relay's end writes an item behind what is on its way to the client.
LEMMA DownAppend ==
  ASSUME TypeOK, DownInv, Established, ~broken, client \in {"status", "headers", "open"},
         NEW x \in Items, relayDown' = Append(relayDown, x), UNCHANGED <<gotDown, cbuf, down>>
  PROVE  (gotDown' \o (cbuf' \o down')) \o relayDown' = Greeting \o Append(Written(sentDown, shutDown), x)
  <1> DEFINE w == Written(sentDown, shutDown)
             s == gotDown \o (cbuf \o down)
  <1>1. /\ gotDown \in Seq(Items) /\ cbuf \in Seq(Items) /\ down \in Seq(Items) /\ relayDown \in Seq(Items)
        /\ w \in Seq(Items) /\ Greeting \in Seq(Items)
    BY TypeParts, WrittenIs, GreetingType
  <1>2. s \in Seq(Items)
    <2>1. cbuf \o down \in Seq(Items)
      BY <1>1, ConcatProperties
    <2> QED
      BY <1>1, <2>1, ConcatProperties
  <1>3. s \o relayDown = Greeting \o w
    BY DEF DownInv
  <1> HIDE DEF s, w
  <1>4. s \o Append(relayDown, x) = Append(s \o relayDown, x)
    BY <1>1, <1>2, AppendBehind, SMTT(30)
  <1>5. Greeting \o Append(w, x) = Append(Greeting \o w, x)
    BY <1>1, AppendBehind
  <1> QED
    BY <1>3, <1>4, <1>5 DEF s, w

\* The relay speaks after it was spoken to: the client's end of the tunnel is open,
\* or the tunnel is gone.
LEMMA SpokenTo ==
  ASSUME TunnelInv, gotUp # <<>>
  PROVE  Established /\ (client \in {"status", "headers"} => broken)
  <1>1. UpInv /\ TypeOK /\ RequestInv
    BY DEF TunnelInv
  <1>2. Established
    BY <1>1 DEF UpInv
  <1>3. ASSUME client \in {"status", "headers"}, ~broken PROVE FALSE
    <2>1. sentUp = 0 /\ ~shutUp /\ Engaged
      BY <1>1, <1>2, <1>3 DEF UpInv, Engaged, Established
    <2>2. (gotUp \o relayUp) \o up = Written(0, FALSE)
      BY <1>1, <1>3, <2>1, TypeParts DEF UpInv
    <2>3. Written(0, FALSE) = <<>>
      <3>1. 0 \in 0 .. MaxRecords
        BY RecordsAssumption
      <3> QED
        BY <3>1, WrittenIs DEF Ending
    <2>4. gotUp \in Seq(Items) /\ relayUp \in Seq(Items) /\ up \in Seq(Items) /\ gotUp \o relayUp \in Seq(Items)
      BY <1>1, TypeParts, ConcatProperties
    <2>5. gotUp \o relayUp = <<>>
      <3>1. PICK s : s = gotUp \o relayUp
        OBVIOUS
      <3>2. s \in Seq(Items) /\ s \o up = <<>>
        BY <2>2, <2>3, <2>4, <3>1
      <3>3. s = <<>>
        BY <2>4, <3>2, ConcatEqualIffEmpty
      <3> QED
        BY <3>1, <3>3
    <2>6. gotUp = <<>>
      BY <2>4, <2>5, ConcatEqualIffEmpty
    <2> QED
      BY <2>6
  <1> QED
    BY <1>2, <1>3

LEMMA RelayWriteKeeps ==
  ASSUME TunnelInv, RelayWrite
  PROVE  RequestInv' /\ UpInv' /\ DownInv'
  <1>1. /\ gotUp # <<>> /\ ~shutDown /\ sentDown < MaxRecords /\ sentDown' = sentDown + 1
        /\ relayDown' = Append(relayDown, Record(sentDown + 1))
        /\ UNCHANGED <<head, client, cbuf, sentUp, gotDown, shutUp, gateway, target, authorized, gbuf,
                       halves, broken, dialled, gotUp, shutDown, up, down, relayUp>>
    BY DEF RelayWrite, clientVars, gatewayVars
  <1>2. RequestInv /\ UpInv /\ DownInv /\ TypeOK /\ shutDown = FALSE
    BY <1>1, TypeParts DEF TunnelInv
  <1>3. Established /\ (client \in {"status", "headers"} => broken) /\ Established' /\ Greeting' = Greeting
    BY <1>1, SpokenTo DEF Established, Greeting
  <1>4. sentDown \in 0 .. MaxRecords /\ Record(sentDown + 1) \in Items /\ sentDown + 1 \in 0 .. MaxRecords
        /\ sentDown <= sentDown + 1
    <2>1. sentDown \in 0 .. MaxRecords
      BY <1>2, TypeParts
    <2> QED
      BY <1>1, <2>1, ItemFacts, RecordsAssumption
  <1>5. client = "open" /\ ~broken =>
          (gotDown' \o (cbuf' \o down')) \o relayDown' = Greeting \o Written(sentDown + 1, FALSE)
    BY <1>1, <1>2, <1>3, <1>4, DownAppend, WriteMore
  <1>6. broken /\ client = "open" => ReadsPrefix(gotDown \o down, sentDown + 1)
    BY <1>2, <1>4, PrefixStays DEF DownInv
  <1>7. DownInv'
    <2>1. "down" \in halves => client \notin {"status", "headers", "open"}
      BY <1>1, <1>2 DEF DownInv
    <2> QED
      BY <1>1, <1>2, <1>3, <1>5, <1>6, <2>1 DEF DownInv
  <1> QED
    BY <1>1, <1>2, <1>7, RequestFrame, UpFrame

LEMMA RelayShutdownKeeps ==
  ASSUME TunnelInv, RelayShutdown
  PROVE  RequestInv' /\ UpInv' /\ DownInv'
  <1>1. /\ dialled /\ ~shutDown /\ shutDown' = TRUE /\ relayDown' = Append(relayDown, Eof)
        /\ UNCHANGED <<head, client, cbuf, sentUp, gotDown, shutUp, gateway, target, authorized, gbuf,
                       halves, broken, dialled, sentDown, gotUp, up, down, relayUp>>
    BY DEF RelayShutdown, clientVars, gatewayVars
  <1>2. RequestInv /\ UpInv /\ DownInv /\ TypeOK /\ shutDown = FALSE
    BY <1>1, TypeParts DEF TunnelInv
  <1>3. (Established' <=> Established) /\ Greeting' = Greeting
    BY <1>1 DEF Established, Greeting
  <1>4. sentDown \in 0 .. MaxRecords /\ Eof \in Items
    BY <1>2, TypeParts, KindsDiffer
  <1>5. ~Established => relayDown' = Ending(TRUE)
    <2>1. ~Established => relayDown = <<>>
      BY <1>2 DEF DownInv, Ending
    <2>2. Append(<<>>, Eof) = <<Eof>>
      OBVIOUS
    <2> QED
      BY <1>1, <2>1, <2>2 DEF Ending
  <1>6. Established /\ ~broken /\ client \in {"status", "headers", "open"} =>
          (gotDown' \o (cbuf' \o down')) \o relayDown' = Greeting \o Written(sentDown, TRUE)
    BY <1>1, <1>2, <1>4, DownAppend, WriteMore
  <1>7. "down" \in halves => client \notin {"status", "headers", "open"}
    BY <1>1, <1>2 DEF DownInv
  <1>8. DownInv'
    BY <1>1, <1>2, <1>3, <1>5, <1>6, <1>7 DEF DownInv
  <1> QED
    BY <1>1, <1>2, <1>8, RequestFrame, UpFrame

-----------------------------------------------------------------------------
(* The theorems.                                                            *)

\* While the client is open and the copying undisturbed, nothing of the greeting is
\* left in the stream.
LEMMA OpenStream ==
  ASSUME TypeOK, DownInv, client = "open", ~broken
  PROVE  /\ (gotDown \o down) \o relayDown = Written(sentDown, shutDown)
         /\ gotDown \o down \in Seq(Items)
  <1>1. gotDown \in Seq(Items) /\ down \in Seq(Items) /\ Written(sentDown, shutDown) \in Seq(Items)
    BY TypeParts, WrittenIs
  <1>2. cbuf = <<>> /\ Established
    BY DEF DownInv
  <1>3. (gotDown \o (cbuf \o down)) \o relayDown = Greeting \o Written(sentDown, shutDown)
    BY <1>2 DEF DownInv
  <1>4. Greeting = <<>>
    BY DEF Greeting
  <1>5. cbuf \o down = down /\ <<>> \o Written(sentDown, shutDown) = Written(sentDown, shutDown)
    BY <1>1, <1>2, ConcatEmptySeq
  <1> QED
    BY <1>1, <1>3, <1>4, <1>5, ConcatProperties

LEMMA InitKeeps == Init => TunnelInv
  <1> SUFFICES ASSUME Init PROVE TunnelInv
    OBVIOUS
  <1>1. TypeOK
    <2>1. /\ client \in {"new", "status", "headers", "open", "failed", "gone"}
          /\ gateway \in {"request", "headers", "dial", "dialled", "copy", "done"}
          /\ head \in Heads
          /\ halves \subseteq {"up", "down"}
      BY DEF Init
    <2>2. {target, authorized, broken, dialled, shutUp, shutDown} \subseteq BOOLEAN
      <3>1. \A b \in BOOLEAN : {b} \subseteq BOOLEAN
        OBVIOUS
      <3>2. {target, authorized, broken, dialled, shutUp, shutDown} = {FALSE}
        BY DEF Init
      <3> QED
        BY <3>1, <3>2
    <2>3. /\ {up, down, relayUp, relayDown, gotUp, gotDown} \subseteq Seq(Items)
          /\ {gbuf, cbuf} \subseteq Seq(Items \ {Eof})
      <3>1. <<>> \in Seq(Items) /\ <<>> \in Seq(Items \ {Eof})
        OBVIOUS
      <3> QED
        BY <3>1 DEF Init
    <2>4. {sentUp, sentDown} \subseteq 0 .. MaxRecords
      BY RecordsAssumption DEF Init
    <2> QED
      BY <2>1, <2>2, <2>3, <2>4 DEF TypeOK
  <1>2. RequestInv
    BY DEF Init, RequestInv, Engaged
  <1>3. UpInv
    BY DEF Init, UpInv, Engaged
  <1>4. DownInv
    BY DEF Init, DownInv, Established, Ending
  <1> QED
    BY <1>1, <1>2, <1>3, <1>4 DEF TunnelInv

\* However the network cuts the streams into reads and whoever leaves or breaks
\* when: what was read, what a BufReader holds and what is in flight are together
\* what was written.
THEOREM TunnelInvariance == Spec => []TunnelInv
<1>1. TunnelInv /\ [Next]_vars => TunnelInv'
  <2> SUFFICES ASSUME TunnelInv, [Next]_vars PROVE TunnelInv'
    OBVIOUS
  <2>1. TypeOK'
    BY TypeStep DEF TunnelInv
  <2>2. RequestInv' /\ UpInv' /\ DownInv'
    <3>1. CASE ClientStep
      BY <3>1, DialGatewayKeeps, ReadStatusKeeps, ReadResponseHeaderKeeps, FillClientKeeps DEF ClientStep
    <3>2. CASE ClientWrite \/ ClientRead \/ ClientShutdown \/ ClientLeaves
      BY <3>2, ClientWriteKeeps, ClientReadKeeps, ClientShutdownKeeps, ClientLeavesKeeps
    <3>3. CASE GatewayStep
      BY <3>3, ReadRequestLineKeeps, ReadHeaderKeeps, DialRelayKeeps, RelayRefusesKeeps,
         EstablishKeeps, FillGatewayKeeps, CopyUpKeeps, CopyDownKeeps DEF GatewayStep
    <3>4. CASE CopyBreaks \/ RelayRead \/ RelayWrite \/ RelayShutdown
      BY <3>4, CopyBreaksKeeps, RelayReadKeeps, RelayWriteKeeps, RelayShutdownKeeps
    <3>5. CASE UNCHANGED vars
      BY <3>5, RequestFrame, UpFrame, DownFrame
      DEF TunnelInv, vars, clientVars, gatewayVars, relayVars, links
    <3> QED
      BY <3>1, <3>2, <3>3, <3>4, <3>5 DEF Next
  <2> QED
    BY <2>1, <2>2 DEF TunnelInv
<1> QED
  BY <1>1, InitKeeps, PTL DEF Spec

\* Each TLS end reads a prefix of what the other wrote, from its first record on and
\* in order: into_inner drops no byte of the tunnel and lets none of the CONNECT
\* exchange through, on either side.
THEOREM Transparent == Spec => []TunnelIsTransparent
<1>1. TunnelInv => TunnelIsTransparent
  <2> SUFFICES ASSUME TunnelInv PROVE TunnelIsTransparent
    OBVIOUS
  <2>0. TypeOK /\ RequestInv /\ UpInv /\ DownInv
    BY DEF TunnelInv
  <2>1. /\ gotUp \in Seq(Items) /\ relayUp \in Seq(Items) /\ up \in Seq(Items)
        /\ gotDown \in Seq(Items) /\ down \in Seq(Items) /\ relayDown \in Seq(Items)
        /\ sentUp \in 0 .. MaxRecords /\ sentDown \in 0 .. MaxRecords
        /\ shutUp \in BOOLEAN /\ shutDown \in BOOLEAN
    BY <2>0, TypeParts
  <2>2. \A n \in 0 .. MaxRecords : ReadsPrefix(<<>>, n)
    BY RecordsAssumption DEF ReadsPrefix
  <2>3. ReadsPrefix(gotUp, sentUp)
    <3>1. CASE broken
      BY <2>0, <2>1, <3>1, PrefixShrinks DEF UpInv
    <3>2. CASE ~broken /\ Established
      <4>1. (gotUp \o relayUp) \o up = Written(sentUp, shutUp)
        BY <2>0, <3>2 DEF UpInv, Engaged, Established
      <4>2. gotUp \o relayUp \in Seq(Items)
        BY <2>1, ConcatProperties
      <4>3. ReadsPrefix(gotUp \o relayUp, sentUp)
        BY <2>1, <4>1, <4>2, PrefixOfWritten
      <4> QED
        BY <2>1, <4>3, PrefixShrinks
    <3>3. CASE ~Established
      BY <2>0, <2>1, <2>2, <3>3 DEF UpInv
    <3> QED
      BY <3>1, <3>2, <3>3
  <2>4. ReadsPrefix(gotDown, sentDown)
    <3>1. CASE client # "open"
      BY <2>0, <2>1, <2>2, <3>1 DEF DownInv
    <3>2. CASE client = "open" /\ broken
      BY <2>0, <2>1, <3>2, PrefixShrinks DEF DownInv
    <3>3. CASE client = "open" /\ ~broken
      <4>1. (gotDown \o down) \o relayDown = Written(sentDown, shutDown) /\ gotDown \o down \in Seq(Items)
        BY <2>0, <3>3, OpenStream
      <4>2. ReadsPrefix(gotDown \o down, sentDown)
        BY <2>1, <4>1, PrefixOfWritten
      <4> QED
        BY <2>1, <4>2, PrefixShrinks
    <3> QED
      BY <3>1, <3>2, <3>3
  <2> QED
    BY <2>3, <2>4 DEF TunnelIsTransparent
<1> QED
  BY <1>1, TunnelInvariance, PTL

\* A handler that returns without an error has copied both directions to their ends.
THEOREM CleanEnd == Spec => []CleanEndDeliversAll
<1>1. TunnelInv => CleanEndDeliversAll
  <2> SUFFICES ASSUME TunnelInv, gateway = "done", client = "open", ~broken
               PROVE  /\ gotUp \o relayUp = Written(sentUp, shutUp)
                      /\ gotDown \o down = Written(sentDown, shutDown)
    BY DEF CleanEndDeliversAll
  <2>0. TypeOK /\ RequestInv /\ UpInv /\ DownInv
    BY DEF TunnelInv
  <2>1. Established /\ Engaged /\ halves = {"up", "down"} /\ up = <<>> /\ relayDown = <<>>
    BY <2>0 DEF UpInv, DownInv, Established, Engaged
  <2>2. (gotUp \o relayUp) \o up = Written(sentUp, shutUp) /\ gotUp \o relayUp \in Seq(Items)
    BY <2>0, <2>1, TypeParts, ConcatProperties DEF UpInv
  <2>3. (gotDown \o down) \o relayDown = Written(sentDown, shutDown) /\ gotDown \o down \in Seq(Items)
    BY <2>0, OpenStream
  <2> QED
    BY <2>1, <2>2, <2>3, ConcatEmptySeq
<1> QED
  BY <1>1, TunnelInvariance, PTL

\* Only a client that showed the tunnel token and named the relay gets as far as the
\* relay, however many Authorization lines it sent and however they arrived.
THEOREM TokenHolders == Spec => []OnlyTokenHoldersReachRelay
<1>1. TunnelInv => OnlyTokenHoldersReachRelay
  BY DEF TunnelInv, OnlyTokenHoldersReachRelay, RequestInv, UpInv, Engaged, Established
<1> QED
  BY <1>1, TunnelInvariance, PTL

\* connect_transport returns a stream only over a connection the relay accepted.
THEOREM OpenIsDialled == Spec => []OpenMeansDialled
<1>1. TunnelInv => OpenMeansDialled
  BY DEF TunnelInv, OpenMeansDialled, DownInv, Established
<1> QED
  BY <1>1, TunnelInvariance, PTL
=============================================================================
