--------------------------- MODULE ClientSession ---------------------------
(***************************************************************************)
(* The life cycle of a client without a fleet over MQTT: Client.Start,     *)
(* Client.Stop and handleReconnect (client.go) on top of Transport.Start,  *)
(* Stop, onConnect and Subscribe (internal/mqtt/transport.go, wait.go).    *)
(*                                                                         *)
(* The three hold c.mu while they wait for the broker, the inbound workers *)
(* need c.mu to find their handlers, a full lane keeps paho (external)     *)
(* from reading the broker's answers, and Stop waits for the workers.      *)
(* What breaks the circle is the timer of waitToken.                       *)
(*                                                                         *)
(* One platform goroutine, App, starts and stops the client; paho runs     *)
(* onConnect in a goroutine of its own for each connection.  Every Start   *)
(* makes a new paho client, which connects again whenever it has lost its  *)
(* connection (Config.AutoReconnect), until it is disconnected.  All use   *)
(* the same ClientID, so a connection takes over from the one before, and  *)
(* the broker keeps no subscription across connections.                    *)
(*                                                                         *)
(* Data.  A filter is its place in the list that subscribeLocked walks     *)
(* through.  The lanes of MqttDispatch are one queue with one worker.      *)
(*                                                                         *)
(* Atomicity.  A section under t.mu, and one under c.mu that calls nobody, *)
(* is one step; c.mu is a variable because Start and handleReconnect keep  *)
(* it across calls.                                                        *)
(***************************************************************************)
EXTENDS Naturals, Sequences, SequencesExt

CONSTANTS
    NFilters,       \* how many filters the client subscribes
    QSize,          \* Config.InboundQueueSize
    EarlyTraffic,   \* messages arrive while Start still subscribes
    MaxStarts,      \* bound on calls of Start, and so on paho clients
    MaxConns        \* bound on connections

Filters == 1 .. NFilters
Clients == 1 .. MaxStarts
App     == 0                        \* the platform's goroutine
Procs   == {App} \cup 1 .. MaxConns \* and one for each connection
Nobody  == MaxConns + 1

ASSUME ConstantsAssumption ==
    /\ NFilters \in Nat \ {0} /\ QSize \in Nat \ {0}
    /\ EarlyTraffic \in BOOLEAN
    /\ MaxStarts \in Nat \ {0} /\ MaxConns \in Nat \ {0}

VARIABLES
    started,        \* Client.started
    holder,         \* who holds c.mu for writing
    unsubs,         \* Client.unsubs, as the filters the handles cancel
    running,        \* Transport.running
    wasConnected,   \* Transport.wasConnected
    cur,            \* Transport.client, 0 before the first Start
    dispatching,    \* dispatchCtx is not cancelled
    q,              \* how many messages the queue holds
    blocked,        \* the callback of paho waits for room in it
    worker,         \* where the inbound worker is
    th,             \* th[p]: the call goroutine p is in
    conn,           \* conn[k]: the state of paho client k
    conns,          \* connections so far
    link,           \* link[k]: the number of the last connection of k
    subs,           \* the filters the broker has subscribed
    gaveUp,         \* history: clients whose Start stopped waiting for them
    restoreOK       \* history: the last subscribeLocked succeeded

clientVars == <<started, unsubs>>
lane       == <<dispatching, q, blocked, worker>>
paho       == <<conn, conns, link>>
vars == <<clientVars, holder, running, wasConnected, cur, lane, th, paho, subs,
          gaveUp, restoreOK>>

Idle == [pc |-> "idle", i |-> 0, on |-> 0, todo |-> << >>]

Threads ==
    [pc : {"idle", "connect", "subscribe", "wait", "unsub", "tstop",
           "disconnect", "drain", "onConnect", "lock1", "lock2", "done"},
     i : 0 .. NFilters + 1,     \* the filter to be subscribed
     on : 0 .. MaxConns,        \* the connection SUBSCRIBE was sent on
     todo : Seq(Filters)]       \* what Stop has left to unsubscribe

TypeOK ==
    /\ started \in BOOLEAN /\ running \in BOOLEAN /\ wasConnected \in BOOLEAN
    /\ holder \in Procs \cup {Nobody}
    /\ unsubs \in Seq(Filters)
    /\ cur \in {0} \cup Clients
    /\ dispatching \in BOOLEAN /\ q \in 0 .. QSize /\ blocked \in BOOLEAN
    /\ worker \in {"none", "select", "lock"}
    /\ th \in [Procs -> Threads]
    /\ conn \in [Clients -> {"none", "connecting", "up", "lost", "off"}]
    /\ conns \in 0 .. MaxConns /\ link \in [Clients -> 0 .. MaxConns]
    /\ subs \subseteq Filters
    /\ gaveUp \subseteq Clients /\ restoreOK \in BOOLEAN

Init ==
    /\ started = FALSE /\ holder = Nobody /\ unsubs = << >>
    /\ running = FALSE /\ wasConnected = FALSE /\ cur = 0
    /\ dispatching = FALSE /\ q = 0 /\ blocked = FALSE /\ worker = "none"
    /\ th = [p \in Procs |-> Idle]
    /\ conn = [k \in Clients |-> "none"] /\ conns = 0
    /\ link = [k \in Clients |-> 0]
    /\ subs = {} /\ gaveUp = {} /\ restoreOK = TRUE

Goto(p, pc) == th' = [th EXCEPT ![p].pc = pc]

Up(k) == k # 0 /\ conn[k] = "up"

-----------------------------------------------------------------------------
(***************************************************************************)
(* The paho clients and the broker (external).                             *)
(***************************************************************************)
\* Client k connects, for the first time or again, which takes a callback
\* that has returned.  Another connection with the same ClientID is closed.
Connect(k) ==
    /\ conn[k] \in {"connecting", "lost"} /\ conns < MaxConns
    /\ k = cur => ~blocked
    /\ conns' = conns + 1 /\ link' = [link EXCEPT ![k] = conns + 1]
    /\ conn' = [j \in Clients |-> IF j = k THEN "up"
                                  ELSE IF conn[j] = "up" THEN "lost"
                                  ELSE conn[j]]
    /\ subs' = {}
    /\ Goto(conns + 1, "onConnect")
    /\ UNCHANGED <<clientVars, holder, running, wasConnected, cur, lane, gaveUp,
                   restoreOK>>

\* The connection of client k is lost, and the broker's session with it; only
\* the client of the last Start ever subscribes.
Lose(k) ==
    /\ conn[k] = "up" /\ conns < MaxConns
    /\ conn' = [conn EXCEPT ![k] = "lost"]
    /\ subs' = IF k = cur THEN {} ELSE subs
    /\ UNCHANGED <<clientVars, holder, running, wasConnected, cur, lane, th,
                   conns, link, gaveUp, restoreOK>>

-----------------------------------------------------------------------------
(***************************************************************************)
(* The inbound lane.                                                       *)
(***************************************************************************)
\* Mutant: one message too many.
MutHasRoom == q <= QSize

\* The queue takes another message.
HasRoom == q < QSize

\* A message for one of the filters arrives: enqueue.
Arrive ==
    /\ Up(cur) /\ subs # {} /\ dispatching /\ ~blocked
    /\ EarlyTraffic \/ holder # App
    /\ IF HasRoom THEN q' = q + 1 /\ UNCHANGED blocked
                    ELSE blocked' = TRUE /\ UNCHANGED q
    /\ UNCHANGED <<clientVars, holder, running, wasConnected, cur, dispatching,
                   worker, th, paho, subs, gaveUp, restoreOK>>

Unblock ==
    /\ blocked /\ blocked' = FALSE
    /\ \/ HasRoom /\ q' = q + 1
       \/ ~dispatching /\ UNCHANGED q
    /\ UNCHANGED <<clientVars, holder, running, wasConnected, cur, dispatching,
                   worker, th, paho, subs, gaveUp, restoreOK>>

\* runQueue: a message is ready, or dispatchCtx is done.
Take ==
    /\ worker = "select" /\ q > 0
    /\ q' = q - 1 /\ worker' = "lock"
    /\ UNCHANGED <<clientVars, holder, running, wasConnected, cur, dispatching,
                   blocked, th, paho, subs, gaveUp, restoreOK>>

Exit ==
    /\ worker = "select" /\ ~dispatching
    /\ worker' = "none"
    /\ UNCHANGED <<clientVars, holder, running, wasConnected, cur, dispatching,
                   q, blocked, th, paho, subs, gaveUp, restoreOK>>

\* onRawMessage reads the handlers under c.mu and calls them.
Handle ==
    /\ worker = "lock" /\ holder = Nobody
    /\ worker' = "select"
    /\ UNCHANGED <<clientVars, holder, running, wasConnected, cur, dispatching,
                   q, blocked, th, paho, subs, gaveUp, restoreOK>>

-----------------------------------------------------------------------------
(***************************************************************************)
(* subscribeLocked, by Start or by handleReconnect, which hold c.mu.       *)
(***************************************************************************)
\* Mutant: Start leaves the transport running when it cannot subscribe.
MutAfterSubscribeError(p) == IF p = App THEN "idle" ELSE "done"

\* Where goroutine p goes when subscribeLocked has returned an error.
AfterSubscribeError(p) == IF p = App THEN "tstop" ELSE "done"

\* subscribeLocked returns; only a Start that failed keeps c.mu.
Subscribed(p) ==
    /\ th' = [th EXCEPT ![p] = [Idle EXCEPT !.pc = IF p = App THEN "idle"
                                                   ELSE "done"]]
    /\ started' = TRUE
    /\ holder' = Nobody
    /\ restoreOK' = TRUE

SubscribeError(p) ==
    /\ th' = [th EXCEPT ![p] = [Idle EXCEPT !.pc = AfterSubscribeError(p)]]
    /\ holder' = IF AfterSubscribeError(p) = "tstop" THEN holder ELSE Nobody
    /\ restoreOK' = FALSE
    /\ UNCHANGED started

\* Transport.Subscribe of the next filter; paho refuses it when it is not
\* connected.
SubscribeNext(p) ==
    LET t == th[p] IN
    /\ t.pc = "subscribe"
    /\ \/ /\ t.i > NFilters
          /\ Subscribed(p)
       \/ /\ t.i <= NFilters /\ running /\ Up(cur)
          /\ th' = [th EXCEPT ![p].pc = "wait", ![p].on = link[cur]]
          /\ UNCHANGED <<started, holder, restoreOK>>
       \/ /\ t.i <= NFilters /\ ~(running /\ Up(cur))
          /\ SubscribeError(p)
    /\ UNCHANGED <<unsubs, running, wasConnected, cur, lane, paho, subs, gaveUp>>

\* The connection SUBSCRIBE was sent on is still there.
SameConnection(p) == Up(cur) /\ link[cur] = th[p].on

\* paho reads an answer of the broker, which it cannot while the callback is
\* blocked.
Answered(p) == SameConnection(p) /\ ~blocked

\* Mutant: waitToken waits for ever when the context has no deadline.
MutTimedOut(p) == FALSE

\* waitToken: after at most defaultTokenWait the wait ends.
TimedOut(p) == th[p].pc = "wait"

Suback(p) ==
    LET t == th[p] IN
    /\ t.pc = "wait" /\ Answered(p)
    /\ subs' = subs \cup {t.i}
    /\ unsubs' = Append(unsubs, t.i)
    /\ th' = [th EXCEPT ![p].pc = "subscribe", ![p].i = @ + 1, ![p].on = 0]
    /\ UNCHANGED <<started, holder, running, wasConnected, cur, lane, paho,
                   gaveUp, restoreOK>>

\* The broker rejects the filter, the connection is lost, or the wait ends
\* first; the broker may have subscribed all the same.
SubscribeFails(p) ==
    LET t == th[p] IN
    /\ t.pc = "wait"
    /\ Answered(p) \/ ~SameConnection(p) \/ TimedOut(p)
    /\ \/ UNCHANGED subs
       \/ SameConnection(p) /\ subs' = subs \cup {t.i}
    /\ SubscribeError(p)
    /\ UNCHANGED <<unsubs, running, wasConnected, cur, lane, paho, gaveUp>>

-----------------------------------------------------------------------------
(***************************************************************************)
(* Client.Start and Client.Stop.                                           *)
(***************************************************************************)
\* Client.Start and Transport.Start, up to Connect.  A callback of the client
\* before that still waits does so for room in a queue nobody reads any more.
Start ==
    /\ th[App] = Idle /\ ~started /\ holder = Nobody /\ cur < MaxStarts
    /\ holder' = App
    /\ cur' = cur + 1 /\ conn' = [conn EXCEPT ![cur + 1] = "connecting"]
    /\ dispatching' = TRUE /\ q' = 0 /\ blocked' = FALSE /\ worker' = "select"
    /\ Goto(App, "connect")
    /\ UNCHANGED <<clientVars, running, wasConnected, conns, link, subs, gaveUp,
                   restoreOK>>

\* The token of Connect is complete.
StartConnected ==
    /\ th[App].pc = "connect" /\ conn[cur] # "connecting"
    /\ running' = TRUE
    /\ th' = [th EXCEPT ![App].pc = "subscribe", ![App].i = 1]
    /\ UNCHANGED <<clientVars, holder, wasConnected, cur, lane, paho, subs,
                   gaveUp, restoreOK>>

\* Start stops waiting for the token: shutdownDispatch.  Nobody disconnects
\* the paho client, which goes on.
StartGivesUp ==
    /\ th[App].pc = "connect"
    /\ running' = FALSE /\ wasConnected' = FALSE /\ dispatching' = FALSE
    /\ gaveUp' = gaveUp \cup {cur}
    /\ Goto(App, "drain")
    /\ UNCHANGED <<clientVars, holder, cur, q, blocked, worker, paho, subs,
                   restoreOK>>

\* Client.Stop, the section under c.mu.
Stop ==
    /\ th[App] = Idle /\ started /\ holder = Nobody
    /\ started' = FALSE /\ unsubs' = << >>
    /\ th' = [th EXCEPT ![App].pc = "unsub", ![App].todo = unsubs]
    /\ UNCHANGED <<holder, running, wasConnected, cur, lane, paho, subs, gaveUp,
                   restoreOK>>

\* Stop calls the handles, last first; each may time out.
StopUnsubscribe ==
    LET t == th[App] IN
    /\ t.pc = "unsub" /\ t.todo # << >>
    /\ \/ UNCHANGED subs
       \/ running /\ Up(cur) /\ subs' = subs \ {Last(t.todo)}
    /\ th' = [th EXCEPT ![App].todo = Front(@)]
    /\ UNCHANGED <<clientVars, holder, running, wasConnected, cur, lane, paho,
                   gaveUp, restoreOK>>

\* Transport.Stop, the section and cancel(); from Start it runs under c.mu.
StopTransport ==
    /\ \/ th[App].pc = "unsub" /\ th[App].todo = << >>
       \/ th[App].pc = "tstop"
    /\ running' = FALSE /\ wasConnected' = FALSE /\ dispatching' = FALSE
    /\ Goto(App, "disconnect")
    /\ UNCHANGED <<clientVars, holder, cur, q, blocked, worker, paho, subs,
                   gaveUp, restoreOK>>

\* Disconnect(250) returns, at the latest when its 250 ms are over, wherever
\* the callback is.
Disconnect ==
    /\ th[App].pc = "disconnect"
    /\ conn' = [conn EXCEPT ![cur] = "off"]
    /\ subs' = IF Up(cur) THEN {} ELSE subs
    /\ Goto(App, "drain")
    /\ UNCHANGED <<clientVars, holder, running, wasConnected, cur, lane, conns,
                   link, gaveUp, restoreOK>>

\* dispatchWG.Wait returns, and so does Stop or the Start that failed.
Drain ==
    /\ th[App].pc = "drain" /\ worker = "none"
    /\ th' = [th EXCEPT ![App] = Idle]
    /\ holder' = IF holder = App THEN Nobody ELSE holder
    /\ q' = 0
    /\ UNCHANGED <<clientVars, running, wasConnected, cur, dispatching, blocked,
                   worker, paho, subs, gaveUp, restoreOK>>

-----------------------------------------------------------------------------
(***************************************************************************)
(* onConnect and handleReconnect, in the goroutine of connection p.        *)
(***************************************************************************)
\* Mutant: onConnect does not wait for a Start that is under way.
MutIsReconnect == wasConnected /\ started

\* onConnect: the first connection is Start's own business.
IsReconnect == wasConnected

OnConnect(p) ==
    /\ th[p].pc = "onConnect"
    /\ wasConnected' = TRUE
    /\ Goto(p, IF IsReconnect THEN "lock1" ELSE "done")
    /\ UNCHANGED <<clientVars, holder, running, cur, lane, paho, subs, gaveUp,
                   restoreOK>>

\* handleReconnect, the first section.
ReconnectForget(p) ==
    /\ th[p].pc = "lock1" /\ holder = Nobody
    /\ unsubs' = IF started THEN << >> ELSE unsubs
    /\ Goto(p, IF started THEN "lock2" ELSE "done")
    /\ UNCHANGED <<started, holder, running, wasConnected, cur, lane, paho, subs,
                   gaveUp, restoreOK>>

\* handleReconnect takes c.mu again and keeps it for subscribeLocked.
ReconnectSubscribe(p) ==
    /\ th[p].pc = "lock2" /\ holder = Nobody
    /\ IF started
       THEN /\ holder' = p
            /\ th' = [th EXCEPT ![p].pc = "subscribe", ![p].i = 1]
       ELSE Goto(p, "done") /\ UNCHANGED holder
    /\ UNCHANGED <<clientVars, running, wasConnected, cur, lane, paho, subs,
                   gaveUp, restoreOK>>

-----------------------------------------------------------------------------
Lane == Unblock \/ Take \/ Exit \/ Handle

AppStep ==
    \/ StartConnected \/ StartGivesUp
    \/ StopUnsubscribe \/ StopTransport \/ Disconnect \/ Drain

Step(p) ==
    \/ SubscribeNext(p) \/ Suback(p) \/ SubscribeFails(p)
    \/ OnConnect(p) \/ ReconnectForget(p) \/ ReconnectSubscribe(p)

Next ==
    \/ \E k \in Clients : Connect(k) \/ Lose(k)
    \/ Arrive \/ Lane
    \/ Start \/ Stop \/ AppStep
    \/ \E p \in Procs : Step(p)

(***************************************************************************)
(* Goroutines that can run do run, and waitToken's timer fires.  Handlers  *)
(* return (MqttDispatch does without); nothing else has to happen: no      *)
(* connection has to come up and no answer has to arrive.                  *)
(***************************************************************************)
Fairness ==
    /\ WF_vars(Unblock) /\ WF_vars(Take \/ Exit) /\ WF_vars(Handle)
    /\ WF_vars(AppStep)
    /\ \A p \in Procs : WF_vars(Step(p))

Spec     == Init /\ [][Next]_vars
FairSpec == Spec /\ Fairness

-----------------------------------------------------------------------------
(***************************************************************************)
(* Properties.                                                             *)
(***************************************************************************)
Busy(p) == th[p].pc \notin {"idle", "done"}

\* A started client on which nobody is working.
Quiet == started /\ \A p \in Procs : ~Busy(p)

\* handleReconnect "restores VDA subscriptions after transport reconnect": when
\* the client is quiet, its connection is up and no error was reported last,
\* the broker has all its filters, however reconnects, delayed onConnect
\* goroutines, Starts that gave up and restarts are mixed.
Restored ==
    Quiet /\ Up(cur) /\ restoreOK => subs = Filters

\* Transport.Stop "disconnects from the broker": when Stop, or a Start that
\* failed, has returned, no worker is left, the broker has none of the client's
\* filters, also of those that Stop could not unsubscribe, and no paho client
\* lives on, but for those whose Connect a Start stopped waiting for.
StopLeavesNothing ==
    ~started /\ th[App] = Idle =>
        /\ worker = "none" /\ ~running
        /\ subs = {}
        /\ \A k \in Clients \ gaveUp : conn[k] \in {"none", "off"}

\* Start, Stop and handleReconnect return, although they wait under c.mu for a
\* broker that may not answer and workers may wait for c.mu meanwhile.
CallsReturn ==
    \A p \in Procs : Busy(p) ~> ~Busy(p)
=============================================================================
