------------------------------- MODULE Topics -------------------------------
(***************************************************************************)
(* Topics and filters: topic.Resolver (topic/resolver.go), the client's    *)
(* subscription filters (client.go), the classification of inbound topics  *)
(* (internal/mqtt/classify.go) and the matching of testkit.FakeBroker.     *)
(*                                                                         *)
(* A topic is the sequence of its segments.  So is a name that Build puts  *)
(* into it, because a name that contains "/" is several segments.          *)
(***************************************************************************)
EXTENDS Naturals, Sequences

CONSTANTS Interface, Version    \* of Resolver

Plus == <<"+">>
VdaChannels == {"order", "instantActions", "state", "visualization",
                "connection", "factsheet"}

Build(mfr, sn, ch) == Interface \o Version \o mfr \o sn \o <<ch>>

\* Mutant: what follows the fourth segment is the channel.
MutParses(t) == Len(t) >= 5 /\ t[Len(t)] \in VdaChannels

\* Parse succeeds.
Parses(t) == Len(t) = 5 /\ t[5] \in VdaChannels

\* The AGV that Parse finds in t.
Identity(t) == <<t[3], t[4]>>

\* subscriptionFilter: Config.Manufacturer and SerialNumber may be unset.
Unset == << >>
SubscriptionFilter(mfr, sn, ch) ==
    Build(IF mfr = Unset THEN Plus ELSE mfr, IF sn = Unset THEN Plus ELSE sn, ch)

-----------------------------------------------------------------------------
ShardChannels == {"state", "visualization", "factsheet"}

\* classifyInbound sends t to the lane of an AGV.
IsSharded(t) == Len(t) >= 5 /\ t[Len(t)] \in ShardChannels

\* The key of that lane, counted from the end of t.
ShardKey(t) == <<t[Len(t) - 2], t[Len(t) - 1]>>

-----------------------------------------------------------------------------
\* matchFilter; "#" stands for one segment here, for any number in MQTT.
MatchFilter(f, t) ==
    Len(f) = Len(t) /\ \A i \in 1 .. Len(f) : f[i] \in {"+", "#", t[i]}
=============================================================================
