---------------------------- MODULE StateObserver ----------------------------
(***************************************************************************)
(* A platform that follows its AGVs by facts: state messages come in on    *)
(* topics, the client's subscription filter and Resolver.Parse decide      *)
(* which AGV they are about, and facts.Apply turns each into what changed  *)
(* since the one before.                                                   *)
(*                                                                         *)
(* The platform is the one the documentation of facts and OnState has in   *)
(* mind: it keeps the previous state of each AGV for Apply and replays the *)
(* facts on its own picture.                                               *)
(***************************************************************************)
EXTENDS Topics, Facts

CONSTANTS
    AGVs,           \* [mfr, sn], each name a sequence of segments
    Channels,       \* the channels AGVs send on
    States,         \* the states they send
    StrayTopics,    \* topics of other publishers
    Scope           \* Config.Manufacturer and SerialNumber, or Unset

ActionStates == [id : STRING, status : STRING]
StateType == [node : STRING, order : STRING, update : Nat, actions : Seq(ActionStates)]

ActionIds == UNION {{s.actions[i].id : i \in 1 .. Len(s.actions)} : s \in States}

VARIABLES
    sent,       \* sent[a]: the last state AGV a sent
    prev,       \* prev[i]: the last state received for identity i
    picture,    \* picture[i]: what the facts have told about i
    routed      \* history: identities with the lane of each message

vars == <<sent, prev, picture, routed>>

\* Names of one segment: AGVs that a topic of five segments can name.
Addressable(a) == Len(a.mfr) = 1 /\ Len(a.sn) = 1
Id(a) == <<a.mfr[1], a.sn[1]>>
Ids == {Id(a) : a \in {x \in AGVs : Addressable(x)}}

\* The message is delivered to OnState, for an AGV: the broker matched it
\* with the filter, and onRawMessage parsed it.
IsState(t) ==
    /\ MatchFilter(SubscriptionFilter(Scope.mfr, Scope.sn, "state"), t)
    /\ Parses(t)

\* Names and the prefix have segments, a state reports an action once, and no
\* other publisher uses the state topic of an AGV.
ASSUME ObserverAssumption ==
    /\ {Interface, Version} \subseteq Seq(STRING) \ {<< >>}
    /\ AGVs \subseteq [mfr : Seq(STRING) \ {<< >>}, sn : Seq(STRING) \ {<< >>}]
    /\ Scope \in [mfr : Seq(STRING), sn : Seq(STRING)]
    /\ Channels \subseteq VdaChannels
    /\ States \subseteq StateType /\ None \notin States
    /\ \A s \in States : \A i, j \in 1 .. Len(s.actions) :
         s.actions[i].id = s.actions[j].id => i = j
    /\ \A t \in StrayTopics : IsState(t) => Identity(t) \notin Ids

NoPicture == [node |-> "", order |-> "", update |-> 0,
              status |-> [x \in ActionIds |-> ""]]

Init ==
    /\ sent = [a \in AGVs |-> None]
    /\ prev = [i \in Ids |-> None] /\ picture = [i \in Ids |-> NoPicture]
    /\ routed = {}

-----------------------------------------------------------------------------
\* The platform's reading of a fact.
Learn(p, f) ==
    CASE f.kind = "LastNodeChanged"    -> [p EXCEPT !.node = f.next]
      [] f.kind = "OrderIdChanged"     -> [p EXCEPT !.order = f.next]
      [] f.kind = "OrderUpdateChanged" -> [p EXCEPT !.update = f.next]
      [] OTHER                         -> [p EXCEPT !.status[f.id] = f.next]

\* It reads them in their order.
Follow(p, facts) ==
    LET read[i \in 0 .. Len(facts)] ==
          IF i = 0 THEN p ELSE Learn(read[i - 1], facts[i])
    IN  read[Len(facts)]

\* enqueue puts the message into the lane that classifyInbound reads off its
\* topic, before the topic is parsed.
Classify(t) ==
    routed' = IF Parses(t) /\ IsSharded(t)
              THEN routed \cup {<<Identity(t), ShardKey(t)>>} ELSE routed

\* The platform's OnState handler, about AGV i.
Observe(i, s) ==
    /\ prev' = [prev EXCEPT ![i] = s]
    /\ picture' = [picture EXCEPT ![i] = Follow(@, Apply(prev[i], s))]

\* onRawMessage: a topic that does not parse, or is not about a state, does not
\* reach the OnState handlers.
Deliver(t, s) ==
    IF IsState(t) /\ Identity(t) \in Ids
    THEN Observe(Identity(t), s) ELSE UNCHANGED <<prev, picture>>

Receive(t, s) == Classify(t) /\ Deliver(t, s)

\* AGV a sends on its own topic; only a state tells anything.
Send(a, ch, s) ==
    /\ sent' = IF ch = "state" THEN [sent EXCEPT ![a] = s] ELSE sent
    /\ Receive(Build(a.mfr, a.sn, ch), s)

\* Somebody else sends.
Stray(t, s) ==
    /\ Receive(t, s)
    /\ UNCHANGED sent

\* The platform forgets an AGV, and passes nil to Apply next time.
Forget(i) ==
    /\ prev' = [prev EXCEPT ![i] = None]
    /\ picture' = [picture EXCEPT ![i] = NoPicture]
    /\ UNCHANGED <<sent, routed>>

Next ==
    \/ \E a \in AGVs, ch \in Channels, s \in States : Send(a, ch, s)
    \/ \E t \in StrayTopics, s \in States : Stray(t, s)
    \/ \E i \in Ids : Forget(i)

Spec == Init /\ [][Next]_vars

-----------------------------------------------------------------------------
\* facts.Apply, "protocol facts" of prev -> next: whoever follows the facts
\* knows of an AGV what its last state said, whatever other topics carry.
PictureFollows ==
    \A a \in AGVs : Addressable(a) /\ prev[Id(a)] # None =>
        LET p == picture[Id(a)]
            s == sent[a]
        IN  /\ s # None
            /\ <<p.node, p.order, p.update>> = <<s.node, s.order, s.update>>
            /\ \A k \in 1 .. Len(s.actions) :
                 p.status[s.actions[k].id] = s.actions[k].status

\* README, inbound callbacks: "sharded, in order" by vehicle.  The lane that
\* classifyInbound picks from the raw topic belongs to the AGV that Parse finds
\* in it later, and to no other.
ShardIsVehicle ==
    \A x, y \in routed : x[1] = y[1] <=> x[2] = y[2]
=============================================================================
