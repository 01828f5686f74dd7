------------------------------ MODULE MCTunnel ------------------------------
(* Tunnel for TLC: the request of the local proxy, with a right or wrong token *)
(* and authority, and the requests of other clients the gateway must parse:  *)
(* another method, no token, two Authorization lines, no end of headers.    *)
EXTENDS Tunnel

ProxyHead(authority, token) ==
  <<RequestLine(TRUE, authority), OtherLine, AuthLine(token), Blank>>

MCHeads ==
  {ProxyHead(a, t) : a \in BOOLEAN, t \in BOOLEAN}
    \cup {<<RequestLine(FALSE, FALSE), OtherLine, Blank>>,
          <<RequestLine(TRUE, TRUE), Blank>>,
          <<RequestLine(TRUE, TRUE), AuthLine(FALSE), AuthLine(TRUE), Blank>>,
          <<RequestLine(TRUE, TRUE), AuthLine(TRUE), AuthLine(FALSE), Blank>>,
          <<RequestLine(TRUE, TRUE), AuthLine(TRUE)>>}
=============================================================================
