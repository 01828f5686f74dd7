------------------------------- MODULE Clock -------------------------------
(***************************************************************************)
(* The time of a client process, shared by the caches of its verifiers.    *)
(* Time passes in ticks.  Computing takes less than a tick, so that a tick *)
(* separates two steps of a thread only while it waits for the network.    *)
(***************************************************************************)
EXTENDS Integers

CONSTANTS
  Handshakes,    \* concurrent handshakes of the client process
  MaxTime        \* bound: ticks

ASSUME ClockAssumption == MaxTime \in Nat

VARIABLE now     \* Instant::now()

Advance == now < MaxTime /\ now' = now + 1
=============================================================================
