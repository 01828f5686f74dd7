-------------------------- MODULE MCVerifierCaches --------------------------
(* The two caches of relay-attest for TLC, by themselves.  A process uses    *)
(* one verifier, so that only one of them is in use.  Entries live two ticks *)
(* and a fetch lasts at most one: in six ticks an entry is made, overwritten *)
(* by a slower answer, outlived and made again.                              *)
EXTENDS JwksCache, CertCache, TLC

CONSTANTS h1, h2
Symmetric == Permutations({h1, h2})

VARIABLE verifier    \* the verifier the process uses

\* A chip, and a report in its name under another key.
Chip == [id |-> "a", key |-> "a", product |-> "Genoa", signer |-> "vcek", embedded |-> FALSE]
MCPlatforms == {Chip, [Chip EXCEPT !.key = "own"]}
MCProducts == <<"Genoa">>

Init == CacheInit /\ CertInit /\ verifier \in {"gcp", "sev"}

Next ==
  \/ verifier = "gcp" /\ CacheNext /\ UNCHANGED <<certVars, verifier>>
  \/ verifier = "sev" /\ CertNext /\ UNCHANGED <<issuer, cache, look, verifier>>

Spec == Init /\ [][Next]_<<cacheVars, certVars, verifier>>
=============================================================================
