------------------------------ MODULE Attester ------------------------------
(***************************************************************************)
(* How the relay obtains its evidence when it starts: Attester::attest of  *)
(* the Confidential Space backend, which asks the launcher for a token     *)
(* over a Unix socket and decodes its HTTP answer by hand, and of the      *)
(* SEV-SNP backend, which asks the guest device for a report and cuts the  *)
(* certificate table it gets along to the part in use.                     *)
(*                                                                         *)
(* An answer's body is a sequence of bytes, of which those are told apart  *)
(* that the decoder tells apart.  MaxUsize is usize::MAX.                  *)
(***************************************************************************)
EXTENDS Integers, FiniteSets, SequencesExt

CONSTANTS
  MaxUsize,     \* usize::MAX
  SocketWait,   \* SOCKET_WAIT_TIMEOUT, in intervals of SOCKET_WAIT_INTERVAL
  Answers,      \* the launcher's: [head, ok, chunked, body, whole], see below
  Tables        \* the device's: [cells, size], see below

CR == "CR"
LF == "LF"
CRLF == <<CR, LF>>
NonUtf8 == "NonUtf8"

LowerHex == <<"0", "1", "2", "3", "4", "5", "6", "7", "8", "9", "a", "b", "c", "d", "e", "f">>
UpperHex == <<"0", "1", "2", "3", "4", "5", "6", "7", "8", "9", "A", "B", "C", "D", "E", "F">>
HexDigits == Range(LowerHex) \cup Range(UpperHex)

\* The bytes a size line is made of, NonUtf8 for those that are no UTF-8 where they
\* stand, and "x" for all others.  " " is a blank; the few that only one of str::trim
\* and trim_ascii removes are left out.
Bytes == HexDigits \cup {CR, LF, " ", ";", "+", NonUtf8, "x"}

ASSUME UsizeAssumption == MaxUsize \in Nat \ {0}
ASSUME WaitAssumption == SocketWait \in Nat
\* A body fits into memory.  When the connection broke, it is the beginning of what
\* the launcher would have sent, `whole'; otherwise that is <<>>.
ASSUME AnswerAssumption ==
  \A a \in Answers :
    /\ a.body \in Seq(Bytes) /\ Len(a.body) < MaxUsize
    /\ a.whole \in Seq(Bytes) /\ (a.whole # <<>> => IsPrefix(a.body, a.whole))

\* Offsets and lengths are u32, and usize holds their sum.
ASSUME TableAssumption ==
  \A t \in Tables :
    /\ t.size \in Nat /\ Len(t.cells) \in Nat
    /\ \A i \in 1 .. Len(t.cells) : t.cells[i].offset \in Nat /\ t.cells[i].length \in Nat

VARIABLES
  tee,       \* the attester that was selected
  pc,        \* of attest()
  waited,    \* intervals slept while the socket was missing
  socket,    \* the launcher's socket is there
  answer,    \* what it sent until it closed the connection
  pos, out,  \* of decode_chunked_body
  token,     \* the evidence: a token
  table,     \* what the device returned
  used       \* how much of it is sent along with the report; 0: nothing

tokenVars == <<waited, socket, answer, pos, out, token>>
tableVars == <<table, used>>
vars == <<tee, pc, tokenVars, tableVars>>

NoAnswer == [head |-> FALSE, ok |-> FALSE, chunked |-> FALSE, body |-> <<>>, whole |-> <<>>]
NoTable == [cells |-> <<>>, size |-> 0]

Init ==
  /\ tee \in {"gcp", "sev"}
  /\ pc = IF tee = "gcp" THEN "connecting" ELSE "asking"
  /\ waited = 0 /\ socket \in BOOLEAN /\ answer = NoAnswer
  /\ pos = 0 /\ out = <<>> /\ token = <<>>
  /\ table = NoTable /\ used = 0

Fails == pc' = "failed" /\ UNCHANGED <<pos, out, token>>
-----------------------------------------------------------------------------
(* connect_launcher_socket and request_token_over_stream.                   *)

SocketAppears ==
  /\ tee = "gcp" /\ ~socket /\ socket' = TRUE
  /\ UNCHANGED <<tee, pc, waited, answer, pos, out, token, tableVars>>

\* One attempt: connected, which ends the loop, or a pause, or the time is up.
TryConnect ==
  /\ pc = "connecting"
  /\ \/ waited <= SocketWait /\ socket /\ pc' = "requested" /\ waited' = 0
     \/ waited <= SocketWait /\ ~socket /\ waited' = waited + 1 /\ UNCHANGED pc
     \/ waited > SocketWait /\ pc' = "failed" /\ UNCHANGED waited
  /\ UNCHANGED <<tee, socket, answer, pos, out, token, tableVars>>

\* The launcher writes and closes: read_to_end returns what came.
LauncherAnswers(a) ==
  /\ pc = "requested" /\ answer' = a /\ pc' = "parsing"
  /\ UNCHANGED <<tee, waited, socket, pos, out, token, tableVars>>

\* parse_http_token_response up to the body.
ParseHead ==
  /\ pc = "parsing"
  /\ CASE ~answer.head \/ ~answer.ok -> Fails
       [] answer.head /\ answer.ok /\ answer.chunked ->
            pc' = "decoding" /\ UNCHANGED <<pos, out, token>>
       [] OTHER -> pc' = "decoded" /\ out' = answer.body /\ UNCHANGED <<pos, token>>
  /\ UNCHANGED <<tee, waited, socket, answer, tableVars>>
-----------------------------------------------------------------------------
(* decode_chunked_body.  Positions count from 0, as in the source.          *)

Slice(s, from, to) == SubSeq(s, from + 1, to)

\* The bytes from i on end a line.
Eol(s, i) == i + 2 <= Len(s) /\ Slice(s, i, i + 2) = CRLF

None == -1

\* Where the line that starts at `from' ends.
LineEnd(s, from) ==
  LET ends == {i \in from .. Len(s) - 2 : Eol(s, i)}
  IN  IF ends = {} THEN None ELSE Min(ends)

\* str::trim and trim_ascii
Trim(s) ==
  LET inner == {i \in 1 .. Len(s) : s[i] \notin {CR, LF, " "}}
  IN  IF inner = {} THEN <<>> ELSE SubSeq(s, Min(inner), Max(inner))

\* size_hex: the line up to a chunk extension.
SizeHex(line) ==
  LET semis == {i \in 1 .. Len(line) : line[i] = ";"}
  IN  Trim(IF semis = {} THEN line ELSE SubSeq(line, 1, Min(semis) - 1))

\* usize::from_str_radix takes a sign, digits of either case and leading zeros.
Unsigned(hex) == IF Len(hex) > 1 /\ hex[1] = "+" THEN Tail(hex) ELSE hex
Hex(d) == (CHOOSE n \in 1 .. 16 : d \in {LowerHex[n], UpperHex[n]}) - 1
HexValue[s \in Seq(HexDigits)] ==
  IF s = <<>> THEN 0 ELSE 16 * HexValue[SubSeq(s, 1, Len(s) - 1)] + Hex(s[Len(s)])

\* The size a line states; None if it is no UTF-8, no number, or too large.
SizeOf(line) ==
  LET digits == Unsigned(SizeHex(line))
  IN  IF /\ NonUtf8 \notin Range(line)
         /\ digits # <<>> /\ digits \in Seq(HexDigits)
         /\ HexValue[digits] \in 0 .. MaxUsize
        THEN HexValue[digits] ELSE None

\* Slip: the end of a chunk's data is not looked at.
DecodeChunkUnchecked ==
  LET b == answer.body
      end == LineEnd(b, pos)
      size == IF end = None THEN None ELSE SizeOf(Slice(b, pos, end))
  IN
  /\ pc = "decoding"
  /\ CASE size = None \/ end + 2 + size > Len(b) -> Fails
       [] size = 0 -> pc' = "decoded" /\ pos' = end + 2 /\ UNCHANGED <<out, token>>
       [] OTHER -> /\ out' = out \o Slice(b, end + 2, end + 2 + size)
                   /\ pos' = end + 2 + size + 2 /\ UNCHANGED <<pc, token>>
  /\ UNCHANGED <<tee, waited, socket, answer, tableVars>>

\* Slip: the data ends where it ends.
DecodeChunkLenient ==
  LET b == answer.body
      end == LineEnd(b, pos)
      size == IF end = None THEN None ELSE SizeOf(Slice(b, pos, end))
      chunkEnd == IF end + 2 + size + 2 <= Len(b) THEN end + 2 + size ELSE Len(b) - 2
  IN
  /\ pc = "decoding"
  /\ CASE pos >= Len(b) \/ (size = 0) -> pc' = "decoded" /\ UNCHANGED <<pos, out, token>>
       [] size = None \/ chunkEnd < end + 2 -> Fails
       [] OTHER -> /\ out' = out \o Slice(b, end + 2, chunkEnd)
                   /\ pos' = chunkEnd + 2 /\ UNCHANGED <<pc, token>>
  /\ UNCHANGED <<tee, waited, socket, answer, tableVars>>

\* One turn of the loop.  pos + size is a checked addition; chunk_end + 2 is not: a
\* debug build panics on it, and in a release build it wraps, so that the slice ends
\* before it begins, which panics too.
DecodeChunk ==
  LET b == answer.body
      end == LineEnd(b, pos)
      size == IF end = None THEN None ELSE SizeOf(Slice(b, pos, end))
      from == end + 2
      chunkEnd == from + size
  IN
  /\ pc = "decoding"
  /\ CASE size = None \/ (size > 0 /\ chunkEnd > MaxUsize) -> Fails
       [] size = 0 -> pc' = "decoded" /\ pos' = from /\ UNCHANGED <<out, token>>
       [] size > 0 /\ chunkEnd <= MaxUsize /\ chunkEnd + 2 > MaxUsize ->
            pc' = "panicked" /\ UNCHANGED <<pos, out, token>>
       [] size > 0 /\ chunkEnd + 2 <= MaxUsize /\ ~Eol(b, chunkEnd) -> Fails
       [] OTHER -> /\ out' = out \o Slice(b, from, chunkEnd)
                   /\ pos' = chunkEnd + 2 /\ UNCHANGED <<pc, token>>
  /\ UNCHANGED <<tee, waited, socket, answer, tableVars>>

\* The token, unless nothing is left of it.
TakeToken ==
  /\ pc = "decoded"
  /\ IF Trim(out) = <<>> THEN Fails ELSE pc' = "done" /\ token' = Trim(out) /\ UNCHANGED <<pos, out>>
  /\ UNCHANGED <<tee, waited, socket, answer, tableVars>>
-----------------------------------------------------------------------------
(* The SEV-SNP certificate table: cells [guid, offset, length] of CellSize  *)
(* bytes, then the certificates.  A cell of zeros ends the table; so is the *)
(* one after the cells that are listed, in the buffer the kernel fills.     *)

CellSize == 2

\* The cells that are read as entries of the first len bytes, without the last one.
CellsRead(t, len) ==
  LET n == Min({len \div CellSize, Len(t.cells)})
      zeros == {i \in 1 .. n : t.cells[i].guid = "zero"}
  IN  IF zeros = {} THEN n ELSE Min(zeros) - 1
HeaderEnd(t, len) ==
  CellSize * (CellsRead(t, len) + (IF CellsRead(t, len) < len \div CellSize THEN 1 ELSE 0))

End(cell) == cell.offset + cell.length

\* Slip: only the certificates count.
CertBlobUsedLenNoHeader(t) ==
  Max({0} \cup {Min({End(t.cells[i]), t.size}) : i \in 1 .. CellsRead(t, t.size)})

\* cert_blob_used_len: where the last certificate ends, and the table in any case.
CertBlobUsedLen(t) ==
  LET last == Max({0} \cup {Min({End(t.cells[i]), t.size}) : i \in 1 .. CellsRead(t, t.size)})
  IN  IF last = 0 THEN 0 ELSE Max({last, HeaderEnd(t, t.size)})

\* find_cert in the first len bytes: where the certificate is, <<>> for none.
FindCert(t, len, guid) ==
  LET fits == {i \in 1 .. CellsRead(t, len) :
                 /\ t.cells[i].guid = guid
                 /\ t.cells[i].offset >= HeaderEnd(t, len) /\ End(t.cells[i]) <= len}
  IN  IF fits = {} THEN <<>> ELSE <<t.cells[Min(fits)].offset, End(t.cells[Min(fits)])>>

\* SNP_GET_EXT_REPORT returns report and table.
ExtendedReport(t) ==
  /\ pc = "asking" /\ pc' = "done"
  /\ table' = t /\ used' = CertBlobUsedLen(t)
  /\ UNCHANGED <<tee, tokenVars>>

\* It fails, and SNP_GET_REPORT returns a report alone, or fails too.
PlainReport ==
  /\ pc = "asking" /\ pc' \in {"done", "failed"}
  /\ UNCHANGED <<tee, tokenVars, tableVars>>
-----------------------------------------------------------------------------
\* The relay has its evidence, or main ends.
Ended == pc \in {"done", "failed", "panicked"} /\ UNCHANGED vars

Next ==
  \/ SocketAppears \/ TryConnect \/ (\E a \in Answers : LauncherAnswers(a))
  \/ ParseHead \/ DecodeChunk \/ TakeToken
  \/ (\E t \in Tables : ExtendedReport(t)) \/ PlainReport
  \/ Ended

Spec == Init /\ [][Next]_vars
-----------------------------------------------------------------------------
(* What a chunked body says: the data of its chunks, up to the empty one.   *)

\* The length of the first line, if there is one.
FirstLine(b) == {k \in 0 .. Len(b) - 2 : Eol(b, k) /\ \A j \in 0 .. k - 1 : ~Eol(b, j)}
Rest(b, from) == Slice(b, from, Len(b))

Said[b \in Seq(Bytes)] ==
  UNION {LET n == SizeOf(Slice(b, 0, k))
             end == k + 2 + n
         IN  IF n = 0 THEN {<<>>}
             ELSE IF n # None /\ Eol(b, end)
               THEN {Slice(b, k + 2, end) \o more : more \in Said[Rest(b, end + 2)]}
               ELSE {} :
           k \in FirstLine(b)}

Parsed == tee = "gcp" /\ pc \in {"done", "failed", "panicked"} /\ answer.head /\ answer.ok /\ answer.chunked

\* decode_chunked_body decodes exactly the chunked bodies: evidence is what the
\* chunks say, an error or a panic means that the body is none or says nothing, and
\* it panics only on a size that, with the body's length, comes within one of usize::MAX.
DecodesWhatIsSaid ==
  Parsed =>
    /\ pc = "done" => \E s \in Said[answer.body] : token = Trim(s)
    /\ pc # "done" => \A s \in Said[answer.body] : Trim(s) = <<>>
    /\ pc = "panicked" => SizeOf(Slice(answer.body, pos, LineEnd(answer.body, pos))) + Len(answer.body) >= MaxUsize - 1

\* read_to_end cannot tell the end of an answer from a broken connection, but the
\* chunks can: of an answer in chunks that is cut anywhere, the relay never takes a
\* part of the token for the token.  (A plain body is taken as far as it came.)
CutsAreNoticed ==
  Parsed /\ pc = "done" /\ answer.whole # <<>> => {Trim(s) : s \in Said[answer.whole]} = {token}

\* Verifiers find in the evidence the certificate the device gave, whatever else
\* is in its table, and no other.
CertificateSurvives ==
  \A guid \in {"vcek", "vlek"} : FindCert(table, used, guid) = FindCert(table, table.size, guid)
=============================================================================
