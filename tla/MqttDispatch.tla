---------------------------- MODULE MqttDispatch ----------------------------
(***************************************************************************)
(* Inbound dispatch of the MQTT transport (internal/mqtt/dispatch.go,      *)
(* classify.go and the Start / Stop halves of transport.go that create and *)
(* tear it down).                                                          *)
(*                                                                         *)
(* One goroutine of the paho library (external) calls the callback of      *)
(* every route that matches an arriving message, one after the other; the  *)
(* callback is Transport.enqueue.  It puts the message on one of three     *)
(* lanes: the coalescing connection map, one bounded queue per AGV, or the *)
(* shared topic queue.  One worker goroutine per lane takes messages off   *)
(* and runs the route's handler.                                           *)
(*                                                                         *)
(* Data.  A topic is abstracted to the pair (AGV, channel) that            *)
(* classifyInbound extracts; a message is identified by its arrival number *)
(* (so a redelivered payload is a new arrival); payloads, timestamps and   *)
(* handler errors do not influence the dispatcher and are left out.        *)
(*                                                                         *)
(* Atomicity.  A section under t.mu is one step; every unlock, channel     *)
(* operation and handler call is a step of its own.                        *)
(***************************************************************************)
EXTENDS Naturals, Sequences

CONSTANTS
    AGVs,           \* the (manufacturer, serial) pairs
    Routes,         \* the callbacks registered by Transport.Subscribe
    RouteChannels,  \* which channels the filter of a route matches
    TopicQ,         \* identifies the lane of topics that belong to no AGV
    Conn,           \* identifies the worker of the connection lane
    None,           \* "no message"
    QSize,          \* Config.InboundQueueSize
    MaxMsgs         \* bound on the number of arrivals

Channels == {"connection", "state", "visualization", "factsheet", "custom"}
Keys     == AGVs \cup {TopicQ}
Workers  == Keys \cup {Conn}
Ids      == 1 .. MaxMsgs
Items    == Ids \X Routes
Messages == [agv : AGVs, ch : Channels]

ASSUME ConstantsAssumption ==
    /\ TopicQ \notin AGVs /\ Conn \notin Keys
    /\ None \notin Items /\ None \notin Routes
    /\ RouteChannels \in [Routes -> SUBSET Channels]
    /\ QSize \in Nat \ {0}
    /\ MaxMsgs \in Nat

VARIABLES
    phase,       \* of the transport: see Phases
    sent,        \* the messages that arrived, in order of arrival
    cbPc,        \* where the paho goroutine is inside enqueue
    cbTodo,      \* routes it still has to call for the last arrival
    cbRoute,     \* the route whose enqueue holds a queue it has looked up
    connLatest,  \* connLatest[a]: the pending connection message of a
    connWake,    \* tokens in the channel connWake, whose capacity is 1
    queue,       \* queue[k]: the buffered channel of shard k, or topicQ
    wpc,         \* wpc[w]: where worker w is
    fate         \* history: what became of message i on route r

cbVars == <<cbPc, cbTodo, cbRoute>>
vars == <<phase, sent, cbVars, connLatest, connWake, queue, wpc, fate>>

(***************************************************************************)
(* "stopping" is the stretch of Stop between its unlock and cancel();      *)
(* "cancelled" lasts until Disconnect returned, "draining" until           *)
(* dispatchWG.Wait returned.  The dispatch fields of Transport are nil in  *)
(* every phase but "connecting" and "running".  Disconnect(250) waits for  *)
(* nobody longer than its quiesce time, so a callback that is under way    *)
(* may outlive it, and Stop.                                               *)
(***************************************************************************)
Phases == {"stopped", "connecting", "running", "stopping", "cancelled",
           "draining"}
CtxDone == phase \in {"cancelled", "draining", "stopped"}

Pending == {"cb", "queued"}
Fates   == {"none", "delivered", "dropped", "superseded", "stopped"}
             \cup Pending

TypeOK ==
    /\ phase \in Phases
    /\ sent \in Seq(Messages) /\ Len(sent) <= MaxMsgs
    /\ cbPc \in {"idle", "enqueue", "signal", "send", "blocked"}
    /\ cbTodo \subseteq Routes
    /\ cbRoute \in Routes \cup {None}
    /\ connLatest \in [AGVs -> Items \cup {None}]
    /\ connWake \in {0, 1}
    /\ queue \in [Keys -> Seq(Items)]
    /\ \A k \in Keys : Len(queue[k]) <= QSize
    /\ wpc \in [Workers -> {"none", "select", "drain", "handling"}]
    /\ fate \in [Items -> Fates]

-----------------------------------------------------------------------------
(***************************************************************************)
(* Classification of topics (classify.go).                                 *)
(***************************************************************************)
Lane(ch) ==
    CASE ch = "connection" -> "connection"
      [] ch \in {"state", "visualization", "factsheet"} -> "agv"
      [] OTHER -> "topic"

\* Mutant: whatever an AGV's shard carries may be discarded.
MutDroppable(ch) == Lane(ch) = "agv"

Droppable(ch) == ch = "visualization"

\* Mutants: one queue for all topics; shards that carry state only.
MutQueueKeyShared(a, ch) == TopicQ
MutQueueKeyStateOnly(a, ch) == IF ch = "state" THEN a ELSE TopicQ

\* queueFor: the queue of a message that is not a connection message.
QueueKey(a, ch) == IF Lane(ch) = "agv" THEN a ELSE TopicQ

-----------------------------------------------------------------------------
\* The number of the last arrival, the one the callback is working on.
Last    == Len(sent)
Current == sent[Last]

SetFate(S, f) == [it \in Items |-> IF it \in S THEN f ELSE fate[it]]

InQueue(k) == {queue[k][i] : i \in 1 .. Len(queue[k])}

Init ==
    /\ phase = "stopped"
    /\ sent = << >>
    /\ cbPc = "idle" /\ cbTodo = {} /\ cbRoute = None
    /\ connLatest = [a \in AGVs |-> None] /\ connWake = 0
    /\ queue = [k \in Keys |-> << >>]
    /\ wpc = [w \in Workers |-> "none"]
    /\ fate = [it \in Items |-> "none"]

-----------------------------------------------------------------------------
(***************************************************************************)
(* The paho goroutine.                                                     *)
(***************************************************************************)
\* paho (external): a message arrives and matches at least one route.  The
\* client reads until Disconnect has returned, also while Stop runs; then only
\* a callback that is under way goes on.
Deliver(a, ch) ==
    /\ phase \in {"running", "stopping", "cancelled"}
    /\ cbPc = "idle" /\ Last < MaxMsgs
    /\ LET matching == {r \in Routes : ch \in RouteChannels[r]} IN
         /\ matching # {}
         /\ cbTodo' = matching
         /\ fate' = SetFate({Last + 1} \X matching, "cb")
    /\ sent' = Append(sent, [agv |-> a, ch |-> ch])
    /\ cbPc' = "enqueue"
    /\ UNCHANGED <<phase, cbRoute, connLatest, connWake, queue, wpc>>

\* enqueue returned: paho calls the next route, or waits for a message.
NextRoute(todo) == IF todo = {} THEN "idle" ELSE "enqueue"

\* Mutant: what is already pending is kept.
MutCoalesce(old, new) == IF old = None THEN new ELSE old

\* Of two connection messages under one key, the one that stays.
Coalesce(old, new) == new

\* enqueueConnection, the section under t.mu: overwrite what is pending under
\* the AGV's key, whichever route it is for; nothing if the map is nil.
EnqueueConnection(r) ==
    /\ cbPc = "enqueue" /\ r \in cbTodo /\ Lane(Current.ch) = "connection"
    /\ cbTodo' = cbTodo \ {r}
    /\ LET old  == connLatest[Current.agv]
           new  == <<Last, r>>
           kept == Coalesce(old, new)
       IN IF phase = "running"
          THEN /\ connLatest' = [connLatest EXCEPT ![Current.agv] = kept]
               /\ fate' = [it \in Items |->
                             IF it = kept THEN "queued"
                             ELSE IF it \in {old, new} THEN "superseded"
                             ELSE fate[it]]
               /\ cbPc' = "signal"
          ELSE /\ fate' = SetFate({new}, "stopped")
               /\ cbPc' = NextRoute(cbTodo')
               /\ UNCHANGED connLatest
    /\ UNCHANGED <<phase, sent, cbRoute, connWake, queue, wpc>>

\* Mutant: connWake has no buffer, so a send may find nobody receiving.
MutWakeTokens == {connWake, 1}

\* What connWake holds after a non-blocking send: capacity 1.
WakeTokens == {1}

\* enqueueConnection, after the unlock.
Signal ==
    /\ cbPc = "signal"
    /\ connWake' \in WakeTokens
    /\ cbPc' = NextRoute(cbTodo)
    /\ UNCHANGED <<phase, sent, cbTodo, cbRoute, connLatest, queue, wpc, fate>>

\* queueFor and agvQueue: look the queue up, starting the shard's worker the
\* first time; a stopped transport has no queues and the message is discarded.
QueueFor(r) ==
    /\ cbPc = "enqueue" /\ r \in cbTodo /\ Lane(Current.ch) # "connection"
    /\ cbTodo' = cbTodo \ {r}
    /\ LET k == QueueKey(Current.agv, Current.ch) IN
       IF phase = "running"
       THEN /\ cbRoute' = r /\ cbPc' = "send"
            /\ wpc' = IF wpc[k] = "none" THEN [wpc EXCEPT ![k] = "select"]
                      ELSE wpc
            /\ UNCHANGED fate
       ELSE /\ fate' = SetFate({<<Last, r>>}, "stopped")
            /\ cbPc' = NextRoute(cbTodo')
            /\ UNCHANGED <<cbRoute, wpc>>
    /\ UNCHANGED <<phase, sent, connLatest, connWake, queue>>

\* The message is given up.
Discard(why) ==
    /\ fate' = SetFate({<<Last, cbRoute>>}, why)
    /\ UNCHANGED queue

\* The message goes into the channel that queueFor returned; from the channel
\* of a transport that has stopped nobody receives any more.
PutCurrent(k) ==
    \/ /\ phase # "stopped"
       /\ queue' = [queue EXCEPT ![k] = Append(@, <<Last, cbRoute>>)]
       /\ fate' = SetFate({<<Last, cbRoute>>}, "queued")
    \/ phase = "stopped" /\ Discard("stopped")

EnqueueReturns ==
    /\ cbPc' = NextRoute(cbTodo) /\ cbRoute' = None

\* Mutant: off by one.
MutFull(k) == Len(queue[k]) > QSize

Full(k) == Len(queue[k]) >= QSize

\* enqueue, the non-blocking send: a full queue discards a visualization and
\* makes the callback wait with anything else.
Send ==
    /\ cbPc = "send"
    /\ LET k == QueueKey(Current.agv, Current.ch) IN
       \/ ~Full(k) /\ PutCurrent(k) /\ EnqueueReturns
       \/ /\ Full(k) /\ Droppable(Current.ch)
          /\ Discard("dropped") /\ EnqueueReturns
       \/ /\ Full(k) /\ ~Droppable(Current.ch)
          /\ cbPc' = "blocked" /\ UNCHANGED <<cbRoute, queue, fate>>
    /\ UNCHANGED <<phase, sent, cbTodo, connLatest, connWake, wpc>>

\* Mutant: the callback ignores the dispatch context while it waits.
MutGivesUp == FALSE

GivesUp == CtxDone

\* enqueue, the blocking send: the queue has space, or the context is done
\* (either branch of the select when both hold).
Unblock ==
    /\ cbPc = "blocked"
    /\ LET k == QueueKey(Current.agv, Current.ch) IN
         \/ ~Full(k) /\ PutCurrent(k)
         \/ GivesUp /\ Discard("stopped")
    /\ EnqueueReturns
    /\ UNCHANGED <<phase, sent, cbTodo, connLatest, connWake, wpc>>

-----------------------------------------------------------------------------
(***************************************************************************)
(* The workers.                                                            *)
(***************************************************************************)
\* runQueue: receive the oldest message and call its handler.  The select may
\* prefer a message to a context that is done.
TakeQueue(k) ==
    /\ wpc[k] = "select" /\ queue[k] # << >>
    /\ fate' = SetFate({Head(queue[k])}, "delivered")
    /\ queue' = [queue EXCEPT ![k] = Tail(@)]
    /\ wpc' = [wpc EXCEPT ![k] = "handling"]
    /\ UNCHANGED <<phase, sent, cbVars, connLatest, connWake>>

\* runConnectionCoalesce: receive from connWake.
TakeWake ==
    /\ wpc[Conn] = "select" /\ connWake = 1
    /\ connWake' = 0
    /\ wpc' = [wpc EXCEPT ![Conn] = "drain"]
    /\ UNCHANGED <<phase, sent, cbVars, connLatest, queue, fate>>

\* takeConn: remove any one entry (map iteration order) and call its handler.
TakeConn(a) ==
    /\ wpc[Conn] = "drain" /\ connLatest[a] # None
    /\ connLatest' = [connLatest EXCEPT ![a] = None]
    /\ fate' = SetFate({connLatest[a]}, "delivered")
    /\ wpc' = [wpc EXCEPT ![Conn] = "handling"]
    /\ UNCHANGED <<phase, sent, cbVars, connWake, queue>>

\* takeConn found the map empty (or nil, once stopped).
DrainEnd ==
    /\ wpc[Conn] = "drain" /\ \A a \in AGVs : connLatest[a] = None
    /\ wpc' = [wpc EXCEPT ![Conn] = "select"]
    /\ UNCHANGED <<phase, sent, cbVars, connLatest, connWake, queue, fate>>

\* Mutant: the connection worker handles one message per wake-up.
MutAfterHandler(w) == "select"

AfterHandler(w) == IF w = Conn THEN "drain" ELSE "select"

\* dispatchOne: the handler (external) returns, if it ever does; its error, if
\* any, is reported.
HandlerReturns(w) ==
    /\ wpc[w] = "handling"
    /\ wpc' = [wpc EXCEPT ![w] = AfterHandler(w)]
    /\ UNCHANGED <<phase, sent, cbVars, connLatest, connWake, queue, fate>>

\* Mutant: the loops range over their channels, which nobody closes.
MutLeaves(w) == FALSE

\* The select of worker w finds the context done.
Leaves(w) == wpc[w] = "select" /\ CtxDone

\* A worker sees the context done and returns.
Exit(w) ==
    /\ Leaves(w)
    /\ wpc' = [wpc EXCEPT ![w] = "none"]
    /\ UNCHANGED <<phase, sent, cbVars, connLatest, connWake, queue, fate>>

-----------------------------------------------------------------------------
(***************************************************************************)
(* Start and Stop.                                                         *)
(***************************************************************************)
\* Start up to Connect: startDispatchLocked makes the lanes and two workers.
\* Bound: a callback that outlived the last Stop has returned by now, so that
\* one callback at a time is enough.
StartDispatch ==
    /\ phase = "stopped" /\ cbPc = "idle"
    /\ phase' = "connecting"
    /\ connLatest' = [a \in AGVs |-> None] /\ connWake' = 0
    /\ queue' = [k \in Keys |-> << >>]
    /\ wpc' = [wpc EXCEPT ![Conn] = "select", ![TopicQ] = "select"]
    /\ UNCHANGED <<sent, cbVars, fate>>

\* Connect succeeded: running is set and Subscribe is possible.
Connected ==
    /\ phase = "connecting"
    /\ phase' = "running"
    /\ UNCHANGED <<sent, cbVars, connLatest, connWake, queue, wpc, fate>>

\* Connect failed: shutdownDispatch cancels; no route exists yet, so nothing
\* is in flight.
ConnectFailed ==
    /\ phase = "connecting"
    /\ phase' = "draining"
    /\ UNCHANGED <<sent, cbVars, connLatest, connWake, queue, wpc, fate>>

\* Stop, the section under t.mu: the fields become nil.
StopLock ==
    /\ phase = "running"
    /\ phase' = "stopping"
    /\ connLatest' = [a \in AGVs |-> None]
    /\ fate' = SetFate({connLatest[a] : a \in AGVs}, "stopped")
    /\ UNCHANGED <<sent, cbVars, connWake, queue, wpc>>

\* Stop: cancel().
StopCancel ==
    /\ phase = "stopping"
    /\ phase' = "cancelled"
    /\ UNCHANGED <<sent, cbVars, connLatest, connWake, queue, wpc, fate>>

\* Stop: Disconnect returns, at the latest when its 250 ms are over, wherever
\* the callback is.
StopDisconnect ==
    /\ phase = "cancelled"
    /\ phase' = "draining"
    /\ UNCHANGED <<sent, cbVars, connLatest, connWake, queue, wpc, fate>>

\* Stop: dispatchWG.Wait returns; what the workers left is garbage.
StopWait ==
    /\ phase = "draining" /\ \A w \in Workers : wpc[w] = "none"
    /\ phase' = "stopped"
    /\ fate' = SetFate(UNION {InQueue(k) : k \in Keys}, "stopped")
    /\ queue' = [k \in Keys |-> << >>]
    /\ UNCHANGED <<sent, cbVars, connLatest, connWake, wpc>>

-----------------------------------------------------------------------------
Callback ==
    \/ \E r \in Routes : EnqueueConnection(r) \/ QueueFor(r)
    \/ Signal \/ Send \/ Unblock

ConnWorker == TakeWake \/ DrainEnd \/ \E a \in AGVs : TakeConn(a)

Worker(w) ==
    \/ Exit(w)
    \/ HandlerReturns(w)
    \/ w \in Keys /\ TakeQueue(w)
    \/ w = Conn /\ ConnWorker

Stop == StopCancel \/ StopDisconnect \/ StopWait

Next ==
    \/ \E a \in AGVs, ch \in Channels : Deliver(a, ch)
    \/ Callback
    \/ \E w \in Workers : Worker(w)
    \/ StartDispatch \/ Connected \/ ConnectFailed
    \/ StopLock \/ Stop

(***************************************************************************)
(* Goroutines that can run do run.  Nobody has to send, Start or Stop, and *)
(* no handler has to return: a property that needs it says so.             *)
(***************************************************************************)
Fairness ==
    /\ WF_vars(Callback)
    /\ WF_vars(Stop)
    /\ \A w \in Workers : WF_vars(wpc[w] # "handling" /\ Worker(w))

Spec     == Init /\ [][Next]_vars
FairSpec == Spec /\ Fairness

-----------------------------------------------------------------------------
(***************************************************************************)
(* Properties.                                                             *)
(***************************************************************************)
\* The lane a message belongs to, by what the README promises: the connection
\* states of an AGV, its other VDA channels, or everything else.
Owner(m) ==
    IF m.ch = "connection" THEN <<"connection", m.agv>>
    ELSE IF m.ch = "custom" THEN <<"topic", TopicQ>>
    ELSE <<"vehicle", m.agv>>

OwnWorker(m) == IF m.ch = "connection" THEN Conn ELSE Owner(m)[2]

\* README, inbound callbacks: "sharded, in order".  A handler never gets a
\* message while an earlier one of the same lane still waits, on any route:
\* neither the shards, nor a callback blocked on a full queue, nor the
\* coalescing map let a message overtake.
NoOvertaking ==
    \A i, j \in 1 .. Last : \A r, q \in Routes :
        /\ i < j
        /\ Owner(sent[i]) = Owner(sent[j])
        /\ fate[<<j, q>>] = "delivered"
        => fate[<<i, r>>] \notin Pending

\* runConnectionCoalesce: "newer connection states overwrite older ones still
\* waiting (latest wins)".  What a route loses to coalescing, it loses to a
\* newer connection state of the same AGV on the same route: the newest state
\* of an AGV is never the one that is overwritten.
CoalesceKeepsNewest ==
    \A i \in 1 .. Last, r \in Routes :
        fate[<<i, r>>] = "superseded" =>
            \E j \in i + 1 .. Last :
                /\ sent[j] = sent[i]
                /\ fate[<<j, r>>] # "none"

\* enqueueConnection signals after it has released the lock, and connWake has
\* room for one token: the connection worker never sleeps with a message
\* pending and nobody about to wake it.
NoLostWakeup ==
    phase = "running" /\ wpc[Conn] = "select"
        /\ (\E a \in AGVs : connLatest[a] # None)
    => connWake = 1 \/ cbPc = "signal"

\* inbound_drop.go: a backpressured message "is not discarded".  While the
\* transport runs, a message that stops waiting without being handled is a
\* visualization whose AGV's queue is full, or a connection state in whose
\* place one at least as new is pending.
LosesOnlyDroppable ==
    [][ phase = "running" /\ phase' = "running" =>
          \A i \in 1 .. Last, r \in Routes :
              /\ fate[<<i, r>>] \in Pending
              /\ fate'[<<i, r>>] \notin Pending \cup {"delivered"}
              => \/ /\ sent[i].ch = "visualization"
                    /\ Len(queue[sent[i].agv]) = QSize
                 \/ /\ sent[i].ch = "connection"
                    /\ connLatest'[sent[i].agv] # None
                    /\ connLatest'[sent[i].agv][1] >= i
      ]_vars

\* No handler of worker w runs for ever.
Returns(w) == []<>(wpc[w] # "handling")

\* Every message that reached the callback is eventually handled or accounted
\* for, if handlers return.
EveryMessageSettles ==
    (\A w \in Workers : Returns(w)) =>
        \A it \in Items : fate[it] \in Pending ~> fate[it] \notin Pending

\* Stop returns if handlers return: dispatchWG.Wait waits for every worker, and
\* a worker for its handler, also for those that a callback that is still
\* under way gives it while it leaves.
StopReturns ==
    (\A w \in Workers : Returns(w)) =>
        (phase = "stopping" ~> phase = "stopped")

\* README: the lanes do not starve each other.  What is on a queue whose own
\* handlers return is handled, whatever the handlers of the other lanes do, as
\* long as the transport is not stopped (Stop waits for every handler).
QueuedLanesIsolated ==
    \A it \in Items, k \in Workers :
        Returns(k) =>
            ((fate[it] = "queued" /\ OwnWorker(sent[it[1]]) = k)
                ~> (fate[it] # "queued" \/ phase # "running"))

\* README, inbound callbacks: handlers "do not block Paho".  The goroutine that
\* reads every AGV's messages gets out of enqueue if the handlers of the queue
\* its message goes to return, and with a connection message in any case.
CallbackReturns ==
    \A k \in Workers :
        (k # Conn => Returns(k)) =>
            ((cbPc # "idle" /\ OwnWorker(sent[Len(sent)]) = k) ~> cbPc = "idle")

-----------------------------------------------------------------------------
(***************************************************************************)
(* The abstract view: what waits, in the callback or on a lane, what a     *)
(* handler got, and what was given up.                                     *)
(***************************************************************************)
AbstractFate(f) ==
    CASE f = "none"      -> "none"
      [] f \in Pending   -> "waiting"
      [] f = "delivered" -> "handled"
      [] OTHER           -> "lost"

Lanes == INSTANCE OrderedLanes WITH
    open    <- phase = "running",
    arrived <- sent,
    st      <- [it \in Items |-> AbstractFate(fate[it])]

\* The dispatcher, with its lanes, locks and channels, does only what
\* OrderedLanes allows.
ImplementsLanes == Lanes!Spec
=============================================================================
