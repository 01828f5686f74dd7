------------------------ MODULE MCConfidentialRelay ------------------------
(* ConfidentialRelay for TLC: three prompts over two channels, a production    *)
(* configuration, and any number of restarts.                               *)
EXTENDS ConfidentialRelay, TLC

CONSTANTS r1, r2, r3, c1, c2
Symmetric == Permutations({r1, r2, r3}) \cup Permutations({c1, c2})
=============================================================================
