------------------------------- MODULE Tunnel -------------------------------
(***************************************************************************)
(* One connection through the blind gateway: the local proxy's             *)
(* connect_transport (tools/local-proxy/src/lib.rs), the gateway's         *)
(* handle_connection (tools/gateway/src/main.rs) and the relay's socket    *)
(* behind it.                                                              *)
(*                                                                         *)
(* A byte stream is a sequence of items: the lines of the CONNECT          *)
(* exchange, TLS records (numbered, so that order and loss show) and the   *)
(* end of stream.  Both ends read the CONNECT exchange through a BufReader,*)
(* which takes whatever has arrived, and give the buffer up when the       *)
(* tunnel starts (into_inner): what it still holds then is gone.           *)
(***************************************************************************)
EXTENDS Integers, Sequences, SequencesExt

CONSTANTS
  Heads,       \* requests a client may open with: sequences of lines
  MaxRecords   \* bound: TLS records each side writes

ASSUME RecordsAssumption == MaxRecords \in Nat

\* Lines.  `ok' says that the authority is --relay-addr, that the header is
\* exactly "Bearer <token>", or that the status is 200.
RequestLine(connect, ok) == [kind |-> "request", connect |-> connect, ok |-> ok]
AuthLine(ok) == [kind |-> "authorization", connect |-> FALSE, ok |-> ok]
OtherLine == [kind |-> "other", connect |-> FALSE, ok |-> FALSE]
StatusLine(ok) == [kind |-> "status", connect |-> FALSE, ok |-> ok]
Blank == [kind |-> "blank", connect |-> FALSE, ok |-> FALSE]

\* TLS records and the end of stream.
Record(n) == [kind |-> "record", n |-> n]
Eof == [kind |-> "eof"]
Records(n) == [i \in 1 .. n |-> Record(i)]

Lines == {RequestLine(c, ok) : c \in BOOLEAN, ok \in BOOLEAN}
           \cup {AuthLine(ok) : ok \in BOOLEAN} \cup {StatusLine(ok) : ok \in BOOLEAN}
           \cup {OtherLine, Blank}

\* connect_transport writes one request and waits for the answer: whatever a client
\* writes before it is open ends, at the latest, with the blank line.
ASSUME HeadsAssumption ==
  \A h \in Heads : h \in Seq(Lines) /\ \A i \in DOMAIN h : h[i] = Blank => i = Len(h)

VARIABLES
  client,    \* "new", "status", "headers", "open", "failed", "gone"
  gateway,   \* "request", "headers", "dial", "dialled", "copy", "done"
  head,      \* the request the client opens with
  target,    \* authority of the CONNECT line is --relay-addr
  authorized,
  up,        \* client -> gateway, in flight
  down,      \* gateway -> client, in flight
  relayUp,   \* gateway -> relay, in flight
  relayDown, \* relay -> gateway, in flight
  gbuf,      \* BufReader of the gateway
  cbuf,      \* BufReader of the client
  halves,    \* directions copy_bidirectional has finished: "up", "down"
  broken,    \* history: the copy ended in an error
  dialled,   \* history: the relay accepted the gateway's connection
  sentUp, sentDown,   \* records written by the client, by the relay
  gotUp, gotDown,     \* what the relay's, the client's TLS has read
  shutUp, shutDown    \* the client, the relay has shut down its side

clientVars == <<client, cbuf, sentUp, gotDown, shutUp>>
gatewayVars == <<gateway, target, authorized, gbuf, halves, broken, dialled>>
relayVars == <<sentDown, gotUp, shutDown>>
links == <<up, down, relayUp, relayDown>>
vars == <<head, clientVars, gatewayVars, relayVars, links>>

Init ==
  /\ client = "new" /\ gateway = "request"
  /\ head \in Heads
  /\ target = FALSE /\ authorized = FALSE
  /\ up = <<>> /\ down = <<>> /\ relayUp = <<>> /\ relayDown = <<>>
  /\ gbuf = <<>> /\ cbuf = <<>>
  /\ halves = {} /\ broken = FALSE /\ dialled = FALSE
  /\ sentUp = 0 /\ sentDown = 0 /\ gotUp = <<>> /\ gotDown = <<>>
  /\ shutUp = FALSE /\ shutDown = FALSE

\* A read takes some of the bytes that arrived; at the end of the stream it returns
\* 0, now and every time it is called again.
CanRead(link, n) == n \in 1 .. Len(link) /\ \A i \in 1 .. n : link[i] # Eof
AtEof(buf, link) == buf = <<>> /\ link # <<>> /\ link[1] = Eof

-----------------------------------------------------------------------------
(* The client: connect_transport, then TLS over the stream it returns.      *)

\* Slip: the first TLS record is written along with the CONNECT request.
DialGatewayEager ==
  /\ client = "new"
  /\ client' = "status"
  /\ sentUp' = 1
  /\ up' = up \o head \o <<Record(1)>>
  /\ UNCHANGED <<head, cbuf, gotDown, shutUp, gatewayVars, relayVars, down, relayUp, relayDown>>

\* The gateway accepts; the request is written in one go.
DialGateway ==
  /\ client = "new"
  /\ client' = "status"
  /\ up' = up \o head
  /\ UNCHANGED <<head, cbuf, sentUp, gotDown, shutUp, gatewayVars, relayVars,
                 down, relayUp, relayDown>>

\* read_line finds no line in the buffer: one read takes a part of what arrived.
FillClient(n) ==
  /\ client \in {"status", "headers"} /\ cbuf = <<>>
  /\ CanRead(down, n)
  /\ cbuf' = SubSeq(down, 1, n)
  /\ down' = SubSeq(down, n + 1, Len(down))
  /\ UNCHANGED <<head, client, sentUp, gotDown, shutUp, gatewayVars, relayVars,
                 up, relayUp, relayDown>>

\* A failed connect_transport drops the stream.
ClientFails ==
  /\ client' = "failed" /\ cbuf' = <<>>
  /\ shutUp' = TRUE /\ up' = Append(up, Eof)
  /\ UNCHANGED <<head, sentUp, gotDown, gatewayVars, relayVars, down, relayUp, relayDown>>

\* Slip: the end of stream is not taken for an answer.
ReadStatusNoEof ==
  /\ client = "status" /\ cbuf # <<>>
  /\ \/ /\ cbuf[1].ok
        /\ client' = "headers" /\ cbuf' = Tail(cbuf)
        /\ UNCHANGED <<head, sentUp, gotDown, shutUp, gatewayVars, relayVars, links>>
     \/ /\ ~cbuf[1].ok
        /\ ClientFails

\* status.contains(" 200 "); the end of stream reads as an empty status.
ReadStatus ==
  /\ client = "status"
  /\ \/ /\ cbuf # <<>> /\ cbuf[1].ok
        /\ client' = "headers" /\ cbuf' = Tail(cbuf)
        /\ UNCHANGED <<head, sentUp, gotDown, shutUp, gatewayVars, relayVars, links>>
     \/ /\ AtEof(cbuf, down) \/ (cbuf # <<>> /\ ~cbuf[1].ok)
        /\ ClientFails

\* Header lines up to the blank one; then into_inner drops the buffer.
ReadResponseHeader ==
  /\ client = "headers"
  /\ \/ /\ cbuf # <<>> /\ cbuf[1] = Blank
        /\ client' = "open" /\ cbuf' = <<>>
        /\ UNCHANGED <<head, sentUp, gotDown, shutUp, gatewayVars, relayVars, links>>
     \/ /\ cbuf # <<>> /\ cbuf[1] # Blank
        /\ cbuf' = Tail(cbuf)
        /\ UNCHANGED <<head, client, sentUp, gotDown, shutUp, gatewayVars, relayVars, links>>
     \/ /\ AtEof(cbuf, down)
        /\ ClientFails

\* TLS writes a record.
ClientWrite ==
  /\ client = "open" /\ ~shutUp /\ sentUp < MaxRecords
  /\ sentUp' = sentUp + 1
  /\ up' = Append(up, Record(sentUp + 1))
  /\ UNCHANGED <<head, client, cbuf, gotDown, shutUp, gatewayVars, relayVars,
                 down, relayUp, relayDown>>

\* TLS reads what comes.
ClientRead ==
  /\ client = "open" /\ down # <<>>
  /\ gotDown' = Append(gotDown, Head(down))
  /\ down' = Tail(down)
  /\ UNCHANGED <<head, client, cbuf, sentUp, shutUp, gatewayVars, relayVars,
                 up, relayUp, relayDown>>

ClientShutdown ==
  /\ client = "open" /\ ~shutUp
  /\ shutUp' = TRUE /\ up' = Append(up, Eof)
  /\ UNCHANGED <<head, client, cbuf, sentUp, gotDown, gatewayVars, relayVars,
                 down, relayUp, relayDown>>

\* The client goes away before the tunnel stands.
ClientLeaves ==
  /\ client \in {"status", "headers"}
  /\ client' = "gone" /\ cbuf' = <<>> /\ shutUp' = TRUE /\ up' = Append(up, Eof)
  /\ UNCHANGED <<head, sentUp, gotDown, gatewayVars, relayVars, down, relayUp, relayDown>>

-----------------------------------------------------------------------------
(* The gateway: handle_connection.                                          *)

FillGateway(n) ==
  /\ gateway \in {"request", "headers"} /\ gbuf = <<>>
  /\ CanRead(up, n)
  /\ gbuf' = SubSeq(up, 1, n)
  /\ up' = SubSeq(up, n + 1, Len(up))
  /\ UNCHANGED <<head, clientVars, gateway, target, authorized, halves, broken, dialled,
                 relayVars, down, relayUp, relayDown>>

\* The handler returns: its sockets are closed after `last' is written.
GatewayReturns(last) ==
  /\ gateway' = "done" /\ gbuf' = <<>>
  /\ down' = down \o last \o <<Eof>>
  /\ UNCHANGED <<head, clientVars, halves, broken, dialled, relayVars, up, relayUp, relayDown>>

\* reject: a status other than 200, headers, a blank line and a text.
Rejection == <<StatusLine(FALSE), OtherLine, Blank, OtherLine>>

ReadRequestLine ==
  /\ gateway = "request"
  /\ \/ /\ AtEof(gbuf, up)
        /\ GatewayReturns(<<>>) /\ UNCHANGED <<target, authorized>>
     \/ /\ gbuf # <<>> /\ ~gbuf[1].connect
        /\ GatewayReturns(Rejection) /\ UNCHANGED <<target, authorized>>
     \/ /\ gbuf # <<>> /\ gbuf[1].connect
        /\ gateway' = "headers" /\ gbuf' = Tail(gbuf)
        /\ target' = gbuf[1].ok
        /\ UNCHANGED <<head, clientVars, authorized, halves, broken, dialled, relayVars, links>>

\* Slip: one right token is enough, wherever it stands.
ReadHeaderAnyToken ==
  /\ gateway = "headers" /\ gbuf # <<>>
  /\ IF gbuf[1] = Blank
       THEN IF authorized /\ target
              THEN /\ gateway' = "dial" /\ gbuf' = Tail(gbuf)
                   /\ UNCHANGED <<head, clientVars, target, authorized, halves, broken,
                                  dialled, relayVars, links>>
              ELSE GatewayReturns(Rejection) /\ UNCHANGED <<target, authorized>>
       ELSE /\ authorized' = (authorized \/ (gbuf[1].kind = "authorization" /\ gbuf[1].ok))
            /\ gbuf' = Tail(gbuf)
            /\ UNCHANGED <<head, clientVars, gateway, target, halves, broken,
                           dialled, relayVars, links>>

\* One header line.  Every Authorization line overwrites `authorized'; the blank
\* line decides.
ReadHeader ==
  /\ gateway = "headers"
  /\ \/ /\ AtEof(gbuf, up)
        /\ GatewayReturns(<<>>) /\ UNCHANGED <<target, authorized>>
     \/ /\ gbuf # <<>> /\ gbuf[1] = Blank /\ ~(authorized /\ target)
        /\ GatewayReturns(Rejection) /\ UNCHANGED <<target, authorized>>
     \/ /\ gbuf # <<>> /\ gbuf[1] = Blank /\ authorized /\ target
        /\ gateway' = "dial" /\ gbuf' = Tail(gbuf)
        /\ UNCHANGED <<head, clientVars, target, authorized, halves, broken, dialled,
                       relayVars, links>>
     \/ /\ gbuf # <<>> /\ gbuf[1] # Blank
        /\ authorized' = IF gbuf[1].kind = "authorization" THEN gbuf[1].ok ELSE authorized
        /\ gbuf' = Tail(gbuf)
        /\ UNCHANGED <<head, clientVars, gateway, target, halves, broken, dialled,
                       relayVars, links>>

DialRelay ==
  /\ gateway = "dial"
  /\ gateway' = "dialled" /\ dialled' = TRUE
  /\ UNCHANGED <<head, clientVars, target, authorized, gbuf, halves, broken, relayVars, links>>

\* TcpStream::connect fails: the handler ends without an answer.
RelayRefuses ==
  /\ gateway = "dial"
  /\ GatewayReturns(<<>>)
  /\ UNCHANGED <<target, authorized>>

\* Slip: 200 is written before the relay is dialled.
EstablishFirst ==
  /\ gateway \in {"dial", "dialled"}
  /\ gateway' = "copy" /\ gbuf' = <<>>
  /\ down' = down \o <<StatusLine(TRUE), Blank>>
  /\ UNCHANGED <<head, clientVars, target, authorized, halves, broken, dialled, relayVars,
                 up, relayUp, relayDown>>

\* 200 is written, the buffer dropped, the copying starts.
Establish ==
  /\ gateway = "dialled"
  /\ gateway' = "copy" /\ gbuf' = <<>>
  /\ down' = down \o <<StatusLine(TRUE), Blank>>
  /\ UNCHANGED <<head, clientVars, target, authorized, halves, broken, dialled, relayVars,
                 up, relayUp, relayDown>>

\* Slip: the handler ends when one direction has.
FinishEither(h) ==
  /\ halves' = halves \cup {h}
  /\ gateway' = "done"

\* The handler ends when both directions have.
Finish(h) ==
  /\ halves' = halves \cup {h}
  /\ gateway' = IF halves' = {"up", "down"} THEN "done" ELSE gateway

\* copy_bidirectional, one direction: an end of stream is passed on and ends it.
CopyUp ==
  /\ gateway = "copy" /\ up # <<>> /\ "up" \notin halves
  /\ relayUp' = Append(relayUp, Head(up)) /\ up' = Tail(up)
  /\ IF Head(up) = Eof THEN Finish("up") ELSE UNCHANGED <<halves, gateway>>
  /\ UNCHANGED <<head, clientVars, target, authorized, gbuf, broken, dialled, relayVars,
                 down, relayDown>>

CopyDown ==
  /\ gateway = "copy" /\ relayDown # <<>> /\ "down" \notin halves
  /\ down' = Append(down, Head(relayDown)) /\ relayDown' = Tail(relayDown)
  /\ IF Head(relayDown) = Eof THEN Finish("down") ELSE UNCHANGED <<halves, gateway>>
  /\ UNCHANGED <<head, clientVars, target, authorized, gbuf, broken, dialled, relayVars,
                 up, relayUp>>

\* A read or write error on either socket ends both directions at once.
CopyBreaks ==
  /\ gateway = "copy"
  /\ gateway' = "done" /\ broken' = TRUE
  /\ down' = Append(down, Eof) /\ relayUp' = Append(relayUp, Eof)
  /\ UNCHANGED <<head, clientVars, target, authorized, gbuf, halves, dialled, relayVars,
                 up, relayDown>>

-----------------------------------------------------------------------------
(* The relay's end: a TLS server, which never speaks first.                 *)

RelayRead ==
  /\ relayUp # <<>>
  /\ gotUp' = Append(gotUp, Head(relayUp)) /\ relayUp' = Tail(relayUp)
  /\ UNCHANGED <<head, clientVars, gatewayVars, sentDown, shutDown, up, down, relayDown>>

RelayWrite ==
  /\ gotUp # <<>> /\ ~shutDown /\ sentDown < MaxRecords
  /\ sentDown' = sentDown + 1
  /\ relayDown' = Append(relayDown, Record(sentDown + 1))
  /\ UNCHANGED <<head, clientVars, gatewayVars, gotUp, shutDown, up, down, relayUp>>

RelayShutdown ==
  /\ dialled /\ ~shutDown
  /\ shutDown' = TRUE /\ relayDown' = Append(relayDown, Eof)
  /\ UNCHANGED <<head, clientVars, gatewayVars, sentDown, gotUp, up, down, relayUp>>

-----------------------------------------------------------------------------
ClientStep ==
  \/ DialGateway \/ ReadStatus \/ ReadResponseHeader
  \/ \E n \in 1 .. Len(down) : FillClient(n)

GatewayStep ==
  \/ ReadRequestLine \/ ReadHeader \/ DialRelay \/ RelayRefuses \/ Establish
  \/ \E n \in 1 .. Len(up) : FillGateway(n)
  \/ CopyUp \/ CopyDown

Next ==
  \/ ClientStep \/ ClientWrite \/ ClientRead \/ ClientShutdown \/ ClientLeaves
  \/ GatewayStep \/ CopyBreaks
  \/ RelayRead \/ RelayWrite \/ RelayShutdown

Spec == Init /\ [][Next]_vars

\* Both processes run; the network delivers.  Nothing is assumed of the client's
\* or the relay's TLS.
FairSpec == Spec /\ WF_vars(ClientStep) /\ WF_vars(GatewayStep)

-----------------------------------------------------------------------------
\* What was written, with the end of stream once the side has shut down.
Ending(shut) == IF shut THEN <<Eof>> ELSE <<>>
Written(n, shut) == Records(n) \o Ending(shut)

\* The first k records of n, in order, and after them nothing but the end of stream.
ReadsPrefix(s, n) ==
  \E k \in 0 .. n : \A i \in DOMAIN s : s[i] = IF i <= k THEN Record(i) ELSE Eof

\* The two BufReaders lose nothing and leak nothing: however the network cuts the
\* stream into reads, each TLS end reads a prefix of what the other wrote,
\* from its first record on.
TunnelIsTransparent == ReadsPrefix(gotUp, sentUp) /\ ReadsPrefix(gotDown, sentDown)

\* A tunnel that ends without an error has passed on everything either side
\* wrote before its shutdown.
CleanEndDeliversAll ==
  gateway = "done" /\ client = "open" /\ ~broken =>
    /\ gotUp \o relayUp = Written(sentUp, shutUp)
    /\ gotDown \o down = Written(sentDown, shutDown)

\* Of the first n lines of a request, the last Authorization line has the token.
LastTokenIsRight(h, n) ==
  \E i \in 1 .. n :
    /\ h[i].kind = "authorization" /\ h[i].ok
    /\ \A j \in i + 1 .. n : h[j].kind # "authorization"

\* The gateway reaches the relay only for a client that named the relay and whose
\* last Authorization line, however many there were, showed the tunnel token; the
\* relay sees nothing of any other.
OnlyTokenHoldersReachRelay ==
  dialled \/ relayUp # <<>> \/ gotUp # <<>> => head[1].ok /\ LastTokenIsRight(head, Len(head))

\* The proxy takes the tunnel for open only when the relay has accepted it.
OpenMeansDialled == client = "open" => dialled

-----------------------------------------------------------------------------
(* The inductive invariant behind these four.                               *)

Items == Lines \cup {Record(i) : i \in 1 .. MaxRecords} \cup {Eof}

TypeOK ==
  /\ client \in {"new", "status", "headers", "open", "failed", "gone"}
  /\ gateway \in {"request", "headers", "dial", "dialled", "copy", "done"}
  /\ head \in Heads
  /\ {target, authorized, broken, dialled, shutUp, shutDown} \subseteq BOOLEAN
  /\ {up, down, relayUp, relayDown, gotUp, gotDown} \subseteq Seq(Items)
  /\ {gbuf, cbuf} \subseteq Seq(Items \ {Eof})
  /\ halves \subseteq {"up", "down"}
  /\ {sentUp, sentDown} \subseteq 0 .. MaxRecords

\* The gateway has found token and authority right; it has answered 200.
Engaged == dialled \/ gateway = "dial"
Established == dialled /\ gateway # "dialled"

\* What is left of the request, behind k lines that the gateway has taken.
RequestInv ==
  /\ client = "new" => gateway = "request" /\ up = <<>> /\ gbuf = <<>>
  /\ gateway = "request" => ~authorized
  /\ gateway \in {"request", "headers"} /\ client # "new" =>
       \E k \in 0 .. Len(head) :
         /\ gbuf \o up = SubSeq(head, k + 1, Len(head)) \o Ending(shutUp)
         /\ IF gateway = "request" THEN k = 0 ELSE k > 0 /\ target = head[1].ok
         /\ authorized => LastTokenIsRight(head, k)
  /\ Engaged => gbuf = <<>> /\ head[1].ok /\ LastTokenIsRight(head, Len(head))
  /\ gateway \in {"dialled", "copy"} => dialled
  /\ gateway \in {"request", "headers", "dial"} => ~dialled

\* From the client's TLS to the relay's.
UpInv ==
  /\ client # "open" => sentUp = 0
  /\ shutUp => client \in {"open", "failed", "gone"}
  /\ ~Established => gotUp = <<>> /\ relayUp = <<>>
  /\ Engaged /\ ~broken => (gotUp \o relayUp) \o up = Written(sentUp, shutUp)
  /\ broken => gateway = "done" /\ ReadsPrefix(gotUp \o relayUp, sentUp)
  /\ "up" \in halves => shutUp /\ up = <<>>
  /\ gateway = "done" /\ dialled /\ ~broken => halves = {"up", "down"}

\* What is left of the 200 for the client to read.
Greeting ==
  CASE client = "status" -> <<StatusLine(TRUE), Blank>>
    [] client = "headers" -> <<Blank>>
    [] client \notin {"status", "headers"} -> <<>>

\* From the gateway, then from the relay's TLS, to the client's.
DownInv ==
  /\ ~dialled => ~shutDown
  /\ ~Established => /\ sentDown = 0 /\ halves = {} /\ ~broken
                     /\ relayDown = Ending(shutDown)
                     /\ client \in {"new", "status", "failed", "gone"}
  /\ ~Established /\ gateway # "done" => cbuf = <<>> /\ down = <<>>
  /\ ~Established /\ gateway = "done" /\ client = "status" =>
       cbuf \o down \in {<<Eof>>, Rejection \o <<Eof>>}
  /\ Established /\ client \in {"status", "headers"} =>
       LET s == cbuf \o down IN
       /\ Len(s) >= Len(Greeting)
       /\ \A i \in DOMAIN s : s[i] = IF i <= Len(Greeting) THEN Greeting[i] ELSE Eof
       /\ broken \/ sentDown = 0
  /\ Established /\ client \in {"status", "headers", "open"} /\ ~broken =>
       (gotDown \o (cbuf \o down)) \o relayDown = Greeting \o Written(sentDown, shutDown)
  /\ broken /\ client = "open" => ReadsPrefix(gotDown \o down, sentDown)
  /\ "down" \in halves /\ client \in {"status", "headers", "open"} =>
       shutDown /\ relayDown = <<>>
  /\ client = "open" => cbuf = <<>>
  /\ client # "open" => gotDown = <<>>

TunnelInv == TypeOK /\ RequestInv /\ UpInv /\ DownInv

-----------------------------------------------------------------------------
\* connect_transport ends: with a tunnel or with an error, also when the gateway
\* refuses, the relay is down, or somebody leaves half-way.  Only a request without
\* an end may wait for ever: the gateway reads it without a timeout.
ConnectEnds ==
  head[Len(head)] = Blank /\ client \in {"status", "headers"}
    ~> client \in {"open", "failed", "gone"}
=============================================================================
