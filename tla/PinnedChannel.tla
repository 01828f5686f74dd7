--------------------------- MODULE PinnedChannel ---------------------------
(***************************************************************************)
(* What attested TLS promises a client that pins a relay, without          *)
(* evidence, keys or time: a channel is opened only to a relay that runs   *)
(* and is what the client pins, and no channel outlives that run of the    *)
(* relay.  An answer by anybody else opens none.                           *)
(***************************************************************************)
CONSTANT Channels

VARIABLES
  relay,    \* "down", "pinned", or "other": a relay that is not what is pinned
  chan      \* the channels that are open

channelVars == <<relay, chan>>

Init == relay = "down" /\ chan = {}

Start(kind) ==
  /\ relay = "down" /\ relay' = kind
  /\ UNCHANGED chan

Stop == relay # "down" /\ relay' = "down" /\ chan' = {}

Open(h) ==
  /\ relay = "pinned" /\ h \notin chan
  /\ chan' = chan \cup {h} /\ UNCHANGED relay

Close(h) ==
  /\ h \in chan
  /\ chan' = chan \ {h} /\ UNCHANGED relay

Next ==
  \/ \E kind \in {"pinned", "other"} : Start(kind)
  \/ Stop
  \/ \E h \in Channels : Open(h) \/ Close(h)

Spec == Init /\ [][Next]_channelVars
=============================================================================
