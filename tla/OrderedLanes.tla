---------------------------- MODULE OrderedLanes ----------------------------
(***************************************************************************)
(* What the transport promises about inbound messages, whatever queues,    *)
(* workers and locks it uses: each message is handled at most once by each *)
(* route it matches, in order of arrival among the messages of its lane,   *)
(* and an open transport loses nothing but visualizations and connection   *)
(* states in whose place one at least as new waits.                        *)
(***************************************************************************)
EXTENDS Naturals, Sequences

CONSTANTS AGVs, Routes, MaxMsgs

VARIABLES
    open,       \* the transport runs
    arrived,    \* the messages, in order of arrival
    st          \* st[<<i, r>>]: what became of message i on route r

vars == <<open, arrived, st>>

Channels == {"connection", "state", "visualization", "factsheet", "custom"}
Messages == [agv : AGVs, ch : Channels]
Items    == (1 .. MaxMsgs) \X Routes

\* README: states, visualizations and factsheets of one AGV in order; its
\* connection states apart from them; everything else in one line.
LaneOf(m) ==
    CASE m.ch = "connection" -> <<"connection", m.agv>>
      [] m.ch = "custom"     -> <<"topic">>
      [] OTHER               -> <<"vehicle", m.agv>>

Waiting == {it \in Items : st[it] = "waiting"}
Become(L, s) == st' = [it \in Items |-> IF it \in L THEN s ELSE st[it]]

Init == open = FALSE /\ arrived = << >> /\ st = [it \in Items |-> "none"]

\* A message arrives that matches the routes R.
Arrive(m, R) ==
    /\ Len(arrived) < MaxMsgs /\ R # {}
    /\ arrived' = Append(arrived, m)
    /\ Become({Len(arrived) + 1} \X R, "waiting")
    /\ UNCHANGED open

\* A handler gets a message that nothing older of its lane waits for.
Handle(it) ==
    /\ it \in Waiting
    /\ \A old \in Waiting :
         old[1] < it[1] => LaneOf(arrived[old[1]]) # LaneOf(arrived[it[1]])
    /\ Become({it}, "handled")
    /\ UNCHANGED <<open, arrived>>

\* A connection state of the same AGV that is at least as new waits.
Superseded(it) ==
    /\ arrived[it[1]].ch = "connection"
    /\ \E new \in Waiting \ {it} :
         new[1] >= it[1] /\ arrived[new[1]] = arrived[it[1]]

Lose(it) ==
    /\ it \in Waiting
    /\ arrived[it[1]].ch = "visualization" \/ Superseded(it)
    /\ Become({it}, "lost")
    /\ UNCHANGED <<open, arrived>>

Open == ~open /\ open' = TRUE /\ UNCHANGED <<arrived, st>>

Close(L) ==
    /\ open /\ open' = FALSE
    /\ Become(L, "lost")
    /\ UNCHANGED arrived

\* A transport that is closed may give up what waits.
Abandon(L) ==
    /\ ~open
    /\ Become(L, "lost")
    /\ UNCHANGED <<open, arrived>>

Next ==
    \/ \E m \in Messages, R \in SUBSET Routes : Arrive(m, R)
    \/ \E it \in Items : Handle(it) \/ Lose(it)
    \/ Open
    \/ \E L \in SUBSET Waiting : Close(L) \/ Abandon(L)

Spec == Init /\ [][Next]_vars
=============================================================================
