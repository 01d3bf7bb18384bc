------------------------ MODULE ClientSessionProofs ------------------------
(***************************************************************************)
(* Proofs about ClientSession, for any number of filters, queue places,    *)
(* starts and connections:                                                 *)
(*                                                                         *)
(*   ClientTypeCorrect  the variables keep their types;                    *)
(*   StopIsComplete     a Stop, or a Start that failed, that has returned  *)
(*                      leaves no worker and no paho client behind;        *)
(*   FiltersRestored    a quiet, connected client has all its filters.     *)
(*                                                                         *)
(* The invariant of all three is Inv.  It says who holds c.mu and what the *)
(* holder may be doing (LockOK), where each goroutine can be (PlaceOK),    *)
(* which paho clients can be alive (PahoOK), what a Start or Stop under    *)
(* way has already undone (AppOK), and, for the last theorem, that each    *)
(* way of losing the broker's subscriptions leaves a goroutine on its way  *)
(* to renew them (RestoreInv).                                              *)
(***************************************************************************)
EXTENDS ClientSession, SequenceTheorems, TLAPS

-----------------------------------------------------------------------------
(***************************************************************************)
(* The invariant.                                                          *)
(***************************************************************************)
AppPlaces  == {"idle", "connect", "subscribe", "wait", "unsub", "tstop",
               "disconnect", "drain"}
ConnPlaces == {"idle", "onConnect", "lock1", "lock2", "subscribe", "wait",
               "done"}
Conns      == 1 .. MaxConns

\* Where a goroutine can be, and which filter it can be at.
PlaceOK ==
    /\ th[App].pc \in AppPlaces
    /\ cur = 0 => th[App].pc = "idle" /\ ~started
    /\ \A p \in Conns : th[p].pc \in ConnPlaces
    /\ \A p \in Conns : p > conns => th[p] = Idle
    /\ \A p \in Procs : th[p].pc = "wait" => th[p].i \in 1 .. NFilters
    /\ \A p \in Procs : th[p].pc = "subscribe" => th[p].i \in 1 .. NFilters + 1

\* c.mu: a Start under way holds it, handleReconnect does while it subscribes,
\* and only they do.
LockOK ==
    /\ th[App].pc \in {"connect", "subscribe", "wait", "tstop"} => holder = App
    /\ \A p \in Conns : th[p].pc \in {"subscribe", "wait"} => holder = p /\ started
    /\ holder = App => th[App].pc # "idle"
    /\ \A p \in Conns : holder = p => th[p].pc \in {"subscribe", "wait"}
    /\ th[App].pc # "idle" => ~started

\* The paho clients: those not started yet, and those of earlier Starts.
PahoOK ==
    /\ \A k \in Clients : k > cur => conn[k] = "none" /\ link[k] = 0
    /\ \A k \in Clients : conn[k] \in {"up", "lost"} => link[k] # 0
    /\ \A k \in Clients : k \notin gaveUp /\ k # cur => conn[k] \in {"none", "off"}

\* The client of the last Start needs no more Disconnect.
Finished == cur = 0 \/ cur \in gaveUp \/ conn[cur] = "off"

AppOK ==
    /\ th[App].pc = "connect" => conn[cur] \in {"connecting", "up", "lost"}
    /\ th[App].pc \in {"disconnect", "drain"} => ~running
    /\ th[App].pc = "drain" => Finished
    /\ th[App].pc = "idle" /\ ~started => worker = "none" /\ ~running /\ Finished

\* The client has a connection, or is about to get one, that it should keep
\* subscribed.
Subscribing == th[App].pc \in {"subscribe", "wait"}
Active      == started \/ Subscribing \/ th[App].pc = "connect"

\* Somebody will subscribe again: a connection whose onConnect will find
\* wasConnected set, or a handleReconnect that has not begun to subscribe.
OnConnects == {p \in Conns : th[p].pc = "onConnect"}
Repair ==
    \/ wasConnected /\ OnConnects # {}
    \/ \E p, r \in OnConnects : p # r
    \/ \E p \in Conns : th[p].pc \in {"lock1", "lock2"}

RestoreInv ==
    /\ Active /\ cur # 0 /\ link[cur] # 0 => wasConnected \/ OnConnects # {}
    /\ started \/ Subscribing => link[cur] # 0
    /\ \A p \in Procs : th[p].pc \in {"subscribe", "wait"} /\ Up(cur) =>
           Repair \/ \A f \in Filters : f < th[p].i => f \in subs
    /\ started /\ holder = Nobody /\ Up(cur) /\ restoreOK =>
           Repair \/ subs = Filters

\* The broker has filters only of a client that is connected, that its Start
\* waited for, and whose Connect has returned.
SubsOK ==
    /\ \A k \in gaveUp : k <= cur
    /\ cur \in gaveUp => ~started /\ th[App].pc \in {"idle", "drain"}
    /\ subs # {} => Up(cur) /\ cur \notin gaveUp /\ th[App].pc # "connect"

Base == TypeOK /\ PlaceOK /\ LockOK
Inv  == Base /\ PahoOK /\ AppOK /\ RestoreInv /\ SubsOK

-----------------------------------------------------------------------------
(***************************************************************************)
(* What the steps do to the goroutines.                                    *)
(***************************************************************************)
LEMMA ProcFacts ==
    /\ Procs = {App} \cup Conns /\ App \in Procs /\ App \notin Conns
    /\ Nobody \notin Procs /\ Nobody # App
BY ConstantsAssumption DEF Procs, Conns, App, Nobody

LEMMA IdleFields ==
    /\ Idle \in Threads /\ Idle.pc = "idle" /\ Idle.i = 0 /\ Idle.on = 0
    /\ Idle.todo = << >>
    /\ [Idle EXCEPT !.pc = "idle"] = Idle
    /\ \A x \in AppPlaces \cup ConnPlaces :
           /\ [Idle EXCEPT !.pc = x] \in Threads
           /\ [Idle EXCEPT !.pc = x].pc = x
<1>1. Idle \in Threads /\ Idle.pc = "idle" /\ Idle.i = 0 /\ Idle.on = 0
      /\ Idle.todo = << >> /\ [Idle EXCEPT !.pc = "idle"] = Idle
    <2>1. << >> \in Seq(Filters)
        OBVIOUS
    <2> QED BY <2>1, ConstantsAssumption DEF Idle, Threads
<1>2. ASSUME NEW x \in AppPlaces \cup ConnPlaces
      PROVE  /\ [Idle EXCEPT !.pc = x] \in Threads
             /\ [Idle EXCEPT !.pc = x].pc = x
    BY <1>1 DEF Threads, AppPlaces, ConnPlaces
<1> QED BY <1>1, <1>2

\* th' differs from th in goroutine p only, which goes to u.
Moves(p, u) ==
    /\ th' \in [Procs -> Threads] /\ th'[p] = u
    /\ \A r \in Procs : r # p => th'[r] = th[r]

LEMMA Moved ==
    ASSUME TypeOK, NEW p \in Procs, NEW u \in Threads, th' = [th EXCEPT ![p] = u]
    PROVE  Moves(p, u)
BY DEF TypeOK, Moves

LEMMA GotoMoves ==
    ASSUME TypeOK, NEW p \in Procs, NEW x \in AppPlaces \cup ConnPlaces, Goto(p, x)
    PROVE  /\ Moves(p, [th[p] EXCEPT !.pc = x])
           /\ th'[p].pc = x /\ th'[p].i = th[p].i
<1> DEFINE u == [th[p] EXCEPT !.pc = x]
<1>1. th[p] \in Threads
    BY DEF TypeOK
<1>2. u \in Threads /\ u.pc = x /\ u.i = th[p].i
    BY <1>1 DEF Threads, AppPlaces, ConnPlaces
<1>3. th' = [th EXCEPT ![p] = u]
    BY DEF Goto, TypeOK
<1> HIDE DEF u
<1>4. Moves(p, u)
    BY <1>2, <1>3, Moved
<1>5. th'[p] = u
    BY <1>4 DEF Moves
<1> QED BY <1>2, <1>4, <1>5 DEF u

LEMMA ConnectMoves ==
    ASSUME TypeOK, NEW k \in Clients, Connect(k)
    PROVE  /\ conns + 1 \in Conns
           /\ Moves(conns + 1, [th[conns + 1] EXCEPT !.pc = "onConnect"])
           /\ th'[conns + 1].pc = "onConnect"
<1>1. conns + 1 \in Conns
    BY ConstantsAssumption DEF Connect, TypeOK, Conns
<1> QED BY <1>1, GotoMoves, ProcFacts DEF Connect, ConnPlaces

\* subscribeLocked returned, with or without an error.
LEMMA ReturnMoves ==
    ASSUME TypeOK, NEW p \in Procs, NEW x \in AppPlaces \cup ConnPlaces,
           th' = [th EXCEPT ![p] = [Idle EXCEPT !.pc = x]]
    PROVE  Moves(p, [Idle EXCEPT !.pc = x]) /\ th'[p].pc = x
BY IdleFields, Moved DEF Moves

LEMMA SubscribedMoves ==
    ASSUME TypeOK, NEW p \in Procs, Subscribed(p)
    PROVE  \E u : Moves(p, u) /\ th'[p].pc = (IF p = App THEN "idle" ELSE "done")
<1> DEFINE x == IF p = App THEN "idle" ELSE "done"
<1>1. x \in AppPlaces \cup ConnPlaces /\ th' = [th EXCEPT ![p] = [Idle EXCEPT !.pc = x]]
    BY DEF Subscribed, AppPlaces, ConnPlaces
<1> HIDE DEF x
<1>2. Moves(p, [Idle EXCEPT !.pc = x]) /\ th'[p].pc = x
    BY <1>1, ReturnMoves
<1> QED BY <1>2 DEF x

LEMMA SubscribeErrorMoves ==
    ASSUME TypeOK, NEW p \in Procs, SubscribeError(p)
    PROVE  \E u : Moves(p, u) /\ th'[p].pc = (IF p = App THEN "tstop" ELSE "done")
<1> DEFINE x == IF p = App THEN "tstop" ELSE "done"
<1>1. x \in AppPlaces \cup ConnPlaces /\ th' = [th EXCEPT ![p] = [Idle EXCEPT !.pc = x]]
    BY DEF SubscribeError, AfterSubscribeError, AppPlaces, ConnPlaces
<1> HIDE DEF x
<1>2. Moves(p, [Idle EXCEPT !.pc = x]) /\ th'[p].pc = x
    BY <1>1, ReturnMoves
<1> QED BY <1>2 DEF x

\* SUBSCRIBE for the next filter is out.
Sends(p) ==
    /\ th[p].pc = "subscribe" /\ th[p].i <= NFilters /\ running /\ Up(cur)
    /\ th' = [th EXCEPT ![p].pc = "wait", ![p].on = link[cur]]

LEMMA SendsMoves ==
    ASSUME TypeOK, NEW p \in Procs, Sends(p)
    PROVE  \E u : Moves(p, u) /\ th'[p].pc = "wait" /\ th'[p].i = th[p].i
<1> DEFINE u == [th[p] EXCEPT !.pc = "wait", !.on = link[cur]]
<1>1. th[p] \in Threads /\ link[cur] \in 0 .. MaxConns
    BY DEF TypeOK, Sends, Up
<1>2. u \in Threads /\ u.pc = "wait" /\ u.i = th[p].i
    BY <1>1 DEF Threads
<1>3. th' = [th EXCEPT ![p] = u]
    BY DEF Sends, TypeOK
<1> HIDE DEF u
<1>4. Moves(p, u)
    BY <1>2, <1>3, Moved
<1> QED BY <1>2, <1>4 DEF Moves

LEMMA SubackMoves ==
    ASSUME TypeOK, PlaceOK, NEW p \in Procs, Suback(p)
    PROVE  /\ \E u : Moves(p, u)
           /\ th'[p].pc = "subscribe" /\ th'[p].i = th[p].i + 1
<1> DEFINE u == [th[p] EXCEPT !.pc = "subscribe", !.i = @ + 1, !.on = 0]
<1>1. th[p] \in Threads /\ th[p].i \in 1 .. NFilters
    BY DEF TypeOK, Suback, PlaceOK
<1>2. u \in Threads /\ u.pc = "subscribe" /\ u.i = th[p].i + 1
    <2>1. th[p].i + 1 \in 0 .. NFilters + 1 /\ 0 \in 0 .. MaxConns
        BY <1>1, ConstantsAssumption
    <2> QED BY <1>1, <2>1 DEF Threads
<1>3. th' = [th EXCEPT ![p] = u]
    BY DEF Suback, TypeOK
<1> HIDE DEF u
<1>4. Moves(p, u)
    BY <1>2, <1>3, Moved
<1> QED BY <1>2, <1>4 DEF Moves

\* A goroutine begins to subscribe: Start, or handleReconnect.
LEMMA BeginMoves ==
    ASSUME TypeOK, NEW p \in Procs,
           th' = [th EXCEPT ![p].pc = "subscribe", ![p].i = 1]
    PROVE  /\ \E u : Moves(p, u)
           /\ th'[p].pc = "subscribe" /\ th'[p].i = 1
<1> DEFINE u == [th[p] EXCEPT !.pc = "subscribe", !.i = 1]
<1>1. th[p] \in Threads
    BY DEF TypeOK
<1>2. u \in Threads /\ u.pc = "subscribe" /\ u.i = 1
    <2>1. 1 \in 0 .. NFilters + 1
        BY ConstantsAssumption
    <2> QED BY <1>1, <2>1 DEF Threads
<1>3. th' = [th EXCEPT ![p] = u]
    BY DEF TypeOK
<1> HIDE DEF u
<1>4. Moves(p, u)
    BY <1>2, <1>3, Moved
<1> QED BY <1>2, <1>4 DEF Moves

LEMMA StepMoves ==
    ASSUME TypeOK, PlaceOK, NEW p \in Procs, Step(p)
    PROVE  \E u : Moves(p, u)
<1>1. ASSUME NEW x \in {"lock1", "lock2", "done"}, Goto(p, x)
      PROVE  \E u : Moves(p, u)
    BY <1>1, GotoMoves DEF ConnPlaces
<1>2. CASE SubscribeNext(p)
    BY <1>2, SubscribedMoves, SubscribeErrorMoves, SendsMoves
       DEF SubscribeNext, Sends
<1>3. CASE Suback(p) \/ SubscribeFails(p)
    BY <1>3, SubackMoves, SubscribeErrorMoves DEF SubscribeFails
<1>4. CASE OnConnect(p) \/ ReconnectForget(p) \/ ReconnectSubscribe(p)
    BY <1>1, <1>4, BeginMoves DEF OnConnect, ReconnectForget, ReconnectSubscribe
<1> QED BY <1>2, <1>3, <1>4 DEF Step

LEMMA StopMoves ==
    ASSUME TypeOK, Stop
    PROVE  \E u : Moves(App, u) /\ th'[App].pc = "unsub"
<1> DEFINE u == [th[App] EXCEPT !.pc = "unsub", !.todo = unsubs]
<1>1. th[App] \in Threads /\ unsubs \in Seq(Filters)
    BY ProcFacts DEF TypeOK
<1>2. u \in Threads /\ u.pc = "unsub"
    BY <1>1 DEF Threads
<1>3. th' = [th EXCEPT ![App] = u]
    BY DEF TypeOK, Stop
<1> HIDE DEF u
<1>4. Moves(App, u)
    BY <1>2, <1>3, Moved, ProcFacts
<1> QED BY <1>2, <1>4 DEF Moves

LEMMA UnsubscribeMoves ==
    ASSUME TypeOK, StopUnsubscribe
    PROVE  \E u : Moves(App, u) /\ th'[App].pc = "unsub"
<1> DEFINE u == [th[App] EXCEPT !.todo = Front(@)]
<1>1. th[App] \in Threads /\ th[App].pc = "unsub"
    BY ProcFacts DEF TypeOK, StopUnsubscribe
<1>2. th[App].todo \in Seq(Filters) /\ th[App].todo # << >>
    BY <1>1 DEF Threads, StopUnsubscribe
<1>3. Front(th[App].todo) \in Seq(Filters)
    BY <1>2, EmptySeq, SubSeqProperties DEF Front
<1>4. u \in Threads /\ u.pc = "unsub"
    BY <1>1, <1>3 DEF Threads
<1>5. th' = [th EXCEPT ![App] = u]
    BY DEF TypeOK, StopUnsubscribe
<1> HIDE DEF u
<1>6. Moves(App, u)
    BY <1>4, <1>5, Moved, ProcFacts
<1> QED BY <1>4, <1>6 DEF Moves

-----------------------------------------------------------------------------
(***************************************************************************)
(* The types.                                                              *)
(***************************************************************************)
\* The three outcomes of SubscribeNext.
LEMMA SubscribeNextCases ==
    ASSUME NEW p, SubscribeNext(p)
    PROVE  /\ th[p].pc = "subscribe"
           /\ \/ th[p].i > NFilters /\ Subscribed(p)
              \/ Sends(p) /\ UNCHANGED <<started, holder, restoreOK>>
              \/ SubscribeError(p)
           /\ UNCHANGED <<unsubs, running, wasConnected, cur, lane, paho, subs,
                          gaveUp>>
BY DEF SubscribeNext, Sends

LEMMA PahoTypes ==
    ASSUME TypeOK, NEW k \in Clients, Connect(k) \/ Lose(k)
    PROVE  TypeOK'
<1>1. CASE Connect(k)
    <2>1. th' \in [Procs -> Threads]
        BY <1>1, ConnectMoves DEF Moves
    <2>2. /\ conns' \in 0 .. MaxConns
          /\ link' \in [Clients -> 0 .. MaxConns]
        BY <1>1, ConstantsAssumption DEF Connect, TypeOK
    <2>3. conn' \in [Clients -> {"none", "connecting", "up", "lost", "off"}]
        BY <1>1 DEF Connect, TypeOK
    <2> QED BY <1>1, <2>1, <2>2, <2>3 DEF Connect, TypeOK, clientVars, lane
<1>2. CASE Lose(k)
    BY <1>2 DEF Lose, TypeOK, clientVars, lane
<1> QED BY <1>1, <1>2

LEMMA LaneTypes ==
    ASSUME TypeOK, Arrive \/ Lane
    PROVE  TypeOK'
<1>1. QSize \in Nat
    BY ConstantsAssumption
<1>2. CASE Arrive
    <2>1. q' \in 0 .. QSize
        <3>1. (q < QSize /\ q' = q + 1) \/ q' = q
            BY <1>2 DEF Arrive, HasRoom
        <3> QED BY <1>1, <3>1 DEF TypeOK
    <2>2. blocked' \in BOOLEAN
        BY <1>2 DEF Arrive, TypeOK
    <2> QED BY <1>2, <2>1, <2>2 DEF Arrive, TypeOK, clientVars, paho
<1>3. CASE Unblock
    <2>1. q' \in 0 .. QSize
        BY <1>1, <1>3 DEF Unblock, HasRoom, TypeOK
    <2> QED BY <1>3, <2>1 DEF Unblock, TypeOK, clientVars, paho
<1>4. CASE Take
    BY <1>1, <1>4 DEF Take, TypeOK, clientVars, paho
<1>5. CASE Exit \/ Handle
    BY <1>5 DEF Exit, Handle, TypeOK, clientVars, paho
<1> QED BY <1>2, <1>3, <1>4, <1>5 DEF Lane

LEMMA AppTypes ==
    ASSUME TypeOK, PlaceOK, Start \/ Stop \/ AppStep
    PROVE  TypeOK'
<1>0. App \in Procs /\ Procs \subseteq Procs \cup {Nobody} /\ QSize \in Nat
    BY ProcFacts, ConstantsAssumption
<1>1. CASE Start
    <2>1. th' \in [Procs -> Threads]
        BY <1>0, <1>1, GotoMoves DEF Start, AppPlaces, Moves
    <2>2. cur + 1 \in Clients /\ cur' \in {0} \cup Clients
        <3>1. cur \in {0} \cup 1 .. MaxStarts /\ cur < MaxStarts /\ cur' = cur + 1
            BY <1>1 DEF Start, TypeOK, Clients
        <3> QED BY <3>1, ConstantsAssumption DEF Clients
    <2>3. conn' \in [Clients -> {"none", "connecting", "up", "lost", "off"}]
        BY <1>1, <2>2 DEF Start, TypeOK
    <2>4. blocked' \in BOOLEAN /\ dispatching' \in BOOLEAN
        BY <1>1 DEF Start
    <2>5. /\ q' \in 0 .. QSize /\ worker' \in {"none", "select", "lock"}
          /\ holder' \in Procs \cup {Nobody}
        BY <1>0, <1>1 DEF Start
    <2>6. UNCHANGED <<started, unsubs, running, wasConnected, conns, link, subs,
                      gaveUp, restoreOK>>
        BY <1>1 DEF Start, clientVars
    <2> QED BY <2>1, <2>2, <2>3, <2>4, <2>5, <2>6 DEF TypeOK
<1>2. CASE Stop
    <2>1. th' \in [Procs -> Threads]
        BY <1>2, StopMoves DEF Moves
    <2>2. << >> \in Seq(Filters)
        OBVIOUS
    <2> QED BY <1>2, <2>1, <2>2 DEF Stop, TypeOK, lane, paho
<1>3. CASE StartConnected
    <2>1. th' \in [Procs -> Threads]
        BY <1>0, <1>3, BeginMoves DEF StartConnected, Moves
    <2> QED BY <1>3, <2>1 DEF StartConnected, TypeOK, clientVars, lane, paho
<1>4. CASE StartGivesUp
    <2>1. th' \in [Procs -> Threads]
        BY <1>0, <1>4, GotoMoves DEF StartGivesUp, AppPlaces, Moves
    <2>2. cur \in Clients
        BY <1>4 DEF TypeOK, PlaceOK, StartGivesUp
    <2> QED BY <1>4, <2>1, <2>2 DEF StartGivesUp, TypeOK, clientVars, paho
<1>5. CASE StopUnsubscribe
    <2>1. th' \in [Procs -> Threads]
        BY <1>5, UnsubscribeMoves DEF Moves
    <2> QED BY <1>5, <2>1 DEF StopUnsubscribe, TypeOK, clientVars, lane, paho
<1>6. CASE StopTransport
    <2>1. th' \in [Procs -> Threads]
        BY <1>0, <1>6, GotoMoves DEF StopTransport, AppPlaces, Moves
    <2> QED BY <1>6, <2>1 DEF StopTransport, TypeOK, clientVars, paho
<1>7. CASE Disconnect
    <2>1. th' \in [Procs -> Threads]
        BY <1>0, <1>7, GotoMoves DEF Disconnect, AppPlaces, Moves
    <2>2. /\ conn' \in [Clients -> {"none", "connecting", "up", "lost", "off"}]
          /\ subs' \subseteq Filters
        BY <1>7 DEF Disconnect, TypeOK
    <2> QED BY <1>7, <2>1, <2>2 DEF Disconnect, TypeOK, clientVars, lane
<1>8. CASE Drain
    <2>1. th' \in [Procs -> Threads]
        BY <1>0, <1>8, IdleFields, Moved DEF Drain, Moves
    <2> QED BY <1>0, <1>8, <2>1 DEF Drain, TypeOK, clientVars, paho
<1> QED BY <1>1, <1>2, <1>3, <1>4, <1>5, <1>6, <1>7, <1>8 DEF AppStep

LEMMA StepTypes ==
    ASSUME TypeOK, PlaceOK, NEW p \in Procs, Step(p)
    PROVE  TypeOK'
<1>1. CASE SubscribeNext(p)
    <2>1. th' \in [Procs -> Threads]
        BY <1>1, SubscribeNextCases, SubscribedMoves, SendsMoves,
           SubscribeErrorMoves DEF Moves
    <2>2. started' \in BOOLEAN /\ holder' \in Procs \cup {Nobody}
          /\ restoreOK' \in BOOLEAN
        BY <1>1, SubscribeNextCases DEF TypeOK, Subscribed, SubscribeError
    <2> QED BY <1>1, <2>1, <2>2 DEF SubscribeNext, TypeOK, lane, paho
<1>2. CASE Suback(p)
    <2>1. th' \in [Procs -> Threads]
        BY <1>2, SubackMoves DEF Moves
    <2>2. th[p].i \in Filters
        BY <1>2 DEF Suback, PlaceOK, Filters
    <2>3. unsubs' \in Seq(Filters) /\ subs' \subseteq Filters
        BY <1>2, <2>2 DEF Suback, TypeOK
    <2> QED BY <1>2, <2>1, <2>3 DEF Suback, TypeOK, lane, paho
<1>3. CASE SubscribeFails(p)
    <2>1. th' \in [Procs -> Threads]
        BY <1>3, SubscribeErrorMoves DEF SubscribeFails, Moves
    <2>2. th[p].i \in Filters
        BY <1>3 DEF SubscribeFails, PlaceOK, Filters
    <2>3. subs' \subseteq Filters /\ holder' \in Procs \cup {Nobody}
          /\ restoreOK' \in BOOLEAN
        BY <1>3, <2>2 DEF SubscribeFails, SubscribeError, TypeOK
    <2> QED BY <1>3, <2>1, <2>3 DEF SubscribeFails, SubscribeError, TypeOK, lane, paho
<1>4. CASE OnConnect(p)
    <2>1. th' \in [Procs -> Threads]
        <3>1. PICK x \in {"lock1", "done"} : Goto(p, x)
            BY <1>4 DEF OnConnect
        <3> QED BY <3>1, GotoMoves DEF ConnPlaces, Moves
    <2> QED BY <1>4, <2>1 DEF OnConnect, TypeOK, clientVars, lane, paho
<1>5. CASE ReconnectForget(p)
    <2>1. th' \in [Procs -> Threads]
        <3>1. PICK x \in {"lock2", "done"} : Goto(p, x)
            BY <1>5 DEF ReconnectForget
        <3> QED BY <3>1, GotoMoves DEF ConnPlaces, Moves
    <2>2. unsubs' \in Seq(Filters)
        <3>1. << >> \in Seq(Filters)
            OBVIOUS
        <3> QED BY <1>5, <3>1 DEF ReconnectForget, TypeOK
    <2> QED BY <1>5, <2>1, <2>2 DEF ReconnectForget, TypeOK, lane, paho
<1>6. CASE ReconnectSubscribe(p)
    <2>1. th' \in [Procs -> Threads]
        BY <1>6, BeginMoves, GotoMoves DEF ReconnectSubscribe, ConnPlaces, Moves
    <2> QED BY <1>6, <2>1 DEF ReconnectSubscribe, TypeOK, clientVars, lane, paho
<1> QED BY <1>1, <1>2, <1>3, <1>4, <1>5, <1>6 DEF Step

LEMMA TypeStep ==
    ASSUME TypeOK, PlaceOK, [Next]_vars
    PROVE  TypeOK'
<1>1. CASE UNCHANGED vars
    BY <1>1 DEF vars, clientVars, lane, paho, TypeOK
<1> QED BY <1>1, PahoTypes, LaneTypes, AppTypes, StepTypes DEF Next

-----------------------------------------------------------------------------
(***************************************************************************)
(* Where the goroutines are.                                               *)
(***************************************************************************)
LEMMA PlaceStays ==
    ASSUME PlaceOK, UNCHANGED <<th, conns, started>>, cur' = cur
    PROVE  PlaceOK'
BY DEF PlaceOK

LEMMA PlaceMoves ==
    ASSUME TypeOK, PlaceOK, NEW p \in Procs, NEW u, Moves(p, u),
           conns' = conns \/ conns' = conns + 1,
           p = App => th'[p].pc \in AppPlaces,
           p \in Conns => th'[p].pc \in ConnPlaces /\ p <= conns',
           cur' = 0 => th'[App].pc = "idle" /\ ~started',
           th'[p].pc = "wait" => th'[p].i \in 1 .. NFilters,
           th'[p].pc = "subscribe" => th'[p].i \in 1 .. NFilters + 1
    PROVE  PlaceOK'
<1>1. \A r \in Procs : r # p => th'[r] = th[r]
    BY DEF Moves
<1>2. th'[App].pc \in AppPlaces
    BY <1>1, ProcFacts DEF PlaceOK
<1>3. \A r \in Conns : th'[r].pc \in ConnPlaces
    BY <1>1, ProcFacts DEF PlaceOK
<1>4. \A r \in Conns : r > conns' => th'[r] = Idle
    <2> SUFFICES ASSUME NEW r \in Conns, r > conns' PROVE th'[r] = Idle
        OBVIOUS
    <2>1. r > conns /\ r # p
        BY ConstantsAssumption DEF TypeOK, Conns
    <2> QED BY <1>1, <2>1, ProcFacts DEF PlaceOK
<1>5. \A r \in Procs : th'[r].pc = "wait" => th'[r].i \in 1 .. NFilters
    BY <1>1 DEF PlaceOK
<1>6. \A r \in Procs : th'[r].pc = "subscribe" => th'[r].i \in 1 .. NFilters + 1
    BY <1>1 DEF PlaceOK
<1> QED BY <1>2, <1>3, <1>4, <1>5, <1>6 DEF PlaceOK

\* A goroutine that is in a call is the platform's or that of a connection
\* there has been.
LEMMA BusyConns ==
    ASSUME PlaceOK, NEW p \in Conns, th[p].pc # "idle", TypeOK
    PROVE  p <= conns
BY IdleFields, ConstantsAssumption DEF PlaceOK, TypeOK, Conns

LEMMA AppPlaceStep ==
    ASSUME TypeOK, PlaceOK, LockOK, Start \/ Stop \/ AppStep
    PROVE  PlaceOK'
<1>0. App \in Procs /\ App \notin Conns
    BY ProcFacts
<1>1. CASE Start
    <2>1. th'[App].pc = "connect" /\ \E u : Moves(App, u)
        BY <1>0, <1>1, GotoMoves DEF Start, AppPlaces
    <2>2. cur' # 0 /\ conns' = conns
        BY <1>1, ConstantsAssumption DEF Start, TypeOK, Clients
    <2> QED BY <1>0, <2>1, <2>2, PlaceMoves DEF AppPlaces
<1>2. CASE Stop
    <2>1. cur # 0 /\ cur' = cur /\ conns' = conns
        BY <1>2 DEF Stop, PlaceOK, paho
    <2> QED BY <1>0, <1>2, <2>1, StopMoves, PlaceMoves DEF AppPlaces
<1>3. CASE StartConnected
    <2>1. cur # 0 /\ cur' = cur /\ conns' = conns
        BY <1>3 DEF StartConnected, PlaceOK, paho
    <2>2. 1 \in 1 .. NFilters + 1
        BY ConstantsAssumption
    <2>3. /\ \E u : Moves(App, u)
          /\ th'[App].pc = "subscribe" /\ th'[App].i = 1
        BY <1>0, <1>3, BeginMoves DEF StartConnected
    <2> QED BY <1>0, <2>1, <2>2, <2>3, PlaceMoves DEF AppPlaces
<1>4. CASE StartGivesUp
    <2>1. cur # 0 /\ cur' = cur /\ conns' = conns
        BY <1>4 DEF StartGivesUp, PlaceOK, paho
    <2>2. th'[App].pc = "drain" /\ \E u : Moves(App, u)
        BY <1>0, <1>4, GotoMoves DEF StartGivesUp, AppPlaces
    <2> QED BY <1>0, <2>1, <2>2, PlaceMoves DEF AppPlaces
<1>5. CASE StopUnsubscribe
    <2>1. cur # 0 /\ cur' = cur /\ conns' = conns
        BY <1>5 DEF StopUnsubscribe, PlaceOK, paho
    <2> QED BY <1>0, <1>5, <2>1, UnsubscribeMoves, PlaceMoves DEF AppPlaces
<1>6. CASE StopTransport
    <2>1. cur # 0 /\ cur' = cur /\ conns' = conns
        BY <1>6 DEF StopTransport, PlaceOK, paho
    <2>2. th'[App].pc = "disconnect" /\ \E u : Moves(App, u)
        BY <1>0, <1>6, GotoMoves DEF StopTransport, AppPlaces
    <2> QED BY <1>0, <2>1, <2>2, PlaceMoves DEF AppPlaces
<1>7. CASE Disconnect
    <2>1. cur # 0 /\ cur' = cur /\ conns' = conns
        BY <1>7 DEF Disconnect, PlaceOK
    <2>2. th'[App].pc = "drain" /\ \E u : Moves(App, u)
        BY <1>0, <1>7, GotoMoves DEF Disconnect, AppPlaces
    <2> QED BY <1>0, <2>1, <2>2, PlaceMoves DEF AppPlaces
<1>8. CASE Drain
    <2>1. cur # 0 /\ cur' = cur /\ conns' = conns
        BY <1>8 DEF Drain, PlaceOK, paho
    <2>2. th'[App].pc = "idle" /\ \E u : Moves(App, u)
        BY <1>0, <1>8, IdleFields, Moved DEF Drain, Moves
    <2> QED BY <1>0, <2>1, <2>2, PlaceMoves DEF AppPlaces
<1> QED BY <1>1, <1>2, <1>3, <1>4, <1>5, <1>6, <1>7, <1>8 DEF AppStep

LEMMA ProcPlaceStep ==
    ASSUME TypeOK, PlaceOK, LockOK, NEW p \in Procs, Step(p)
    PROVE  PlaceOK'
<1>1. th[p].pc # "idle"
    BY DEF Step, SubscribeNext, Suback, SubscribeFails, OnConnect,
           ReconnectForget, ReconnectSubscribe
<1>2. p \in Conns => p <= conns
    BY <1>1, BusyConns
<1>3. p = App \/ p \in Conns
    BY ProcFacts
<1>4. conns' = conns /\ cur' = cur
    BY DEF Step, SubscribeNext, Suback, SubscribeFails, OnConnect,
           ReconnectForget, ReconnectSubscribe, paho
<1>5. ASSUME cur' = 0, NEW u, Moves(p, u) PROVE th'[App].pc = "idle" /\ ~started'
    <2>1. cur = 0 /\ th[App].pc = "idle" /\ ~started
        BY <1>4, <1>5 DEF PlaceOK
    <2>2. p \in Conns /\ th'[App].pc = "idle"
        BY <1>1, <1>3, <1>5, <2>1, ProcFacts DEF Moves
    <2>3. th[p].pc \notin {"subscribe", "wait"}
        BY <2>1, <2>2 DEF LockOK
    <2>4. started' = started
        BY <2>3 DEF Step, SubscribeNext, Suback, SubscribeFails, OnConnect,
               ReconnectForget, ReconnectSubscribe, clientVars
    <2> QED BY <2>1, <2>2, <2>4
<1>6. CASE SubscribeNext(p)
    <2>1. CASE Subscribed(p) \/ SubscribeError(p)
        <3>1. \E u : /\ Moves(p, u)
                     /\ p = App => th'[p].pc \in {"idle", "tstop"}
                     /\ p # App => th'[p].pc = "done"
            BY <2>1, SubscribedMoves, SubscribeErrorMoves
        <3> QED BY <1>2, <1>3, <1>4, <1>5, <3>1, ProcFacts, PlaceMoves
                DEF AppPlaces, ConnPlaces
    <2>2. CASE Sends(p)
        <3>1. th[p].i \in 1 .. NFilters
            BY <2>2, ConstantsAssumption DEF Sends, PlaceOK
        <3> QED BY <1>2, <1>3, <1>4, <1>5, <2>2, <3>1, ProcFacts, SendsMoves, PlaceMoves
                DEF AppPlaces, ConnPlaces
    <2> QED BY <1>6, <2>1, <2>2, SubscribeNextCases
<1>7. CASE Suback(p)
    <2>1. th[p].i + 1 \in 1 .. NFilters + 1
        BY <1>7, ConstantsAssumption DEF Suback, PlaceOK
    <2> QED BY <1>2, <1>3, <1>4, <1>5, <1>7, <2>1, ProcFacts, SubackMoves, PlaceMoves
            DEF AppPlaces, ConnPlaces
<1>8. CASE SubscribeFails(p)
    <2>1. \E u : /\ Moves(p, u)
                 /\ p = App => th'[p].pc = "tstop"
                 /\ p # App => th'[p].pc = "done"
        BY <1>8, SubscribeErrorMoves DEF SubscribeFails
    <2> QED BY <1>2, <1>3, <1>4, <1>5, <2>1, ProcFacts, PlaceMoves
            DEF AppPlaces, ConnPlaces
<1>9. CASE OnConnect(p) \/ ReconnectForget(p) \/ (ReconnectSubscribe(p) /\ ~started)
    <2>1. PICK x \in {"lock1", "lock2", "done"} : Goto(p, x)
        BY <1>9 DEF OnConnect, ReconnectForget, ReconnectSubscribe
    <2>2. th'[p].pc = x /\ \E u : Moves(p, u)
        BY <2>1, GotoMoves DEF ConnPlaces
    <2>3. p # App
        BY <1>9 DEF OnConnect, ReconnectForget, ReconnectSubscribe, PlaceOK, AppPlaces
    <2> QED BY <1>2, <1>3, <1>4, <1>5, <2>2, <2>3, PlaceMoves DEF ConnPlaces
<1>10. CASE ReconnectSubscribe(p) /\ started
    <2>1. 1 \in 1 .. NFilters + 1
        BY ConstantsAssumption
    <2>2. th'[p].pc = "subscribe" /\ th'[p].i = 1 /\ \E u : Moves(p, u)
        BY <1>10, BeginMoves DEF ReconnectSubscribe
    <2> QED BY <1>2, <1>3, <1>4, <1>5, <2>1, <2>2, PlaceMoves DEF ConnPlaces, AppPlaces
<1> QED BY <1>6, <1>7, <1>8, <1>9, <1>10 DEF Step

LEMMA PlaceStep ==
    ASSUME TypeOK, PlaceOK, LockOK, [Next]_vars
    PROVE  PlaceOK'
<1>1. CASE UNCHANGED vars
    BY <1>1, PlaceStays DEF vars, clientVars, paho
<1>2. CASE Arrive \/ Lane
    BY <1>2, PlaceStays DEF Arrive, Lane, Unblock, Take, Exit, Handle, clientVars, paho
<1>3. ASSUME NEW k \in Clients, Lose(k)
      PROVE  PlaceOK'
    BY <1>3, PlaceStays DEF Lose, clientVars
<1>4. ASSUME NEW k \in Clients, Connect(k)
      PROVE  PlaceOK'
    <2>1. conns' = conns + 1 /\ cur' = cur /\ started' = started
        BY <1>4 DEF Connect, clientVars
    <2>2. conns + 1 # App /\ conns + 1 \in Procs
        BY <1>4, ConnectMoves, ProcFacts
    <2>3. cur' = 0 => th'[App].pc = "idle" /\ ~started'
        BY <1>4, <2>1, <2>2, ConnectMoves, ProcFacts DEF PlaceOK, Moves
    <2>4. conns + 1 <= conns'
        BY <2>1, ConstantsAssumption DEF TypeOK
    <2> QED BY <1>4, <2>1, <2>2, <2>3, <2>4, ConnectMoves, PlaceMoves DEF ConnPlaces
<1> QED BY <1>1, <1>2, <1>3, <1>4, AppPlaceStep, ProcPlaceStep DEF Next

-----------------------------------------------------------------------------
(***************************************************************************)
(* Who holds c.mu.                                                         *)
(***************************************************************************)
\* App moves and c.mu stays with whoever has it.
LEMMA AppKeepsLock ==
    ASSUME LockOK, NEW u, Moves(App, u), UNCHANGED <<started, holder>>, ~started,
           th'[App].pc # "idle",
           th'[App].pc \in {"connect", "subscribe", "wait", "tstop"} =>
               th[App].pc \in {"connect", "subscribe", "wait", "tstop"}
    PROVE  LockOK'
<1>1. \A r \in Conns : th'[r] = th[r]
    BY ProcFacts DEF Moves
<1> QED BY <1>1 DEF LockOK

\* The goroutine of a connection moves without subscribing.
LEMMA ConnKeepsLock ==
    ASSUME LockOK, NEW p \in Conns, NEW u, Moves(p, u), UNCHANGED <<started, holder>>,
           th[p].pc \notin {"subscribe", "wait"},
           th'[p].pc \notin {"subscribe", "wait"}
    PROVE  LockOK'
<1>1. th'[App] = th[App] /\ \A r \in Conns : r # p => th'[r] = th[r]
    BY ProcFacts DEF Moves
<1> QED BY <1>1 DEF LockOK

\* The goroutine that holds c.mu goes on to subscribe, or releases c.mu.
LEMMA HolderMoves ==
    ASSUME LockOK, NEW p \in Procs, NEW u, Moves(p, u),
           th[p].pc \in {"subscribe", "wait"},
           \/ /\ th'[p].pc \in {"subscribe", "wait"}
              /\ UNCHANGED <<started, holder>>
           \/ /\ p = App => th'[p].pc = "idle"
              /\ p # App => th'[p].pc = "done"
              /\ holder' = Nobody /\ started'
           \/ /\ p = App => th'[p].pc = "tstop" /\ holder' = holder
              /\ p # App => th'[p].pc = "done" /\ holder' = Nobody
              /\ started' = started
    PROVE  LockOK'
<1>1. \A r \in Procs : r # p => th'[r] = th[r]
    BY DEF Moves
<1>2. holder = p /\ (p # App => p \in Conns /\ started) /\ (p = App => ~started)
    BY ProcFacts DEF LockOK
<1>3. \A r \in Conns : r # p => th[r].pc \notin {"subscribe", "wait"}
    BY <1>2 DEF LockOK
<1>4. p # App => th[App].pc = "idle"
    BY <1>2 DEF LockOK
<1>5. CASE p = App
    BY <1>1, <1>2, <1>3, <1>5, ProcFacts DEF LockOK
<1>6. CASE p # App
    <2>1. th'[App] = th[App] /\ p \in Conns
        BY <1>1, <1>2, <1>6, ProcFacts
    <2> QED BY <1>1, <1>2, <1>3, <1>4, <1>6, <2>1, ProcFacts DEF LockOK
<1> QED BY <1>5, <1>6

LEMMA AppLockStep ==
    ASSUME TypeOK, PlaceOK, LockOK, Start \/ Stop \/ AppStep
    PROVE  LockOK'
<1>0. App \in Procs /\ App \notin Conns
    BY ProcFacts
<1>1. CASE Start
    <2>1. th'[App].pc = "connect" /\ \A r \in Conns : th'[r] = th[r]
        BY <1>0, <1>1, GotoMoves, ProcFacts, ZenonT(60) DEF Start, AppPlaces, Moves
    <2>2. \A r \in Conns : th[r].pc \notin {"subscribe", "wait"}
        BY <1>1, ProcFacts DEF Start, LockOK
    <2> QED BY <1>1, <2>1, <2>2, ProcFacts DEF Start, LockOK, clientVars
<1>2. CASE Stop
    <2>1. th'[App].pc = "unsub" /\ \A r \in Conns : th'[r] = th[r]
        BY <1>2, StopMoves, ProcFacts DEF Moves
    <2>2. \A r \in Conns : th[r].pc \notin {"subscribe", "wait"}
        BY <1>2, ProcFacts DEF Stop, LockOK
    <2> QED BY <1>2, <2>1, <2>2, ProcFacts DEF Stop, LockOK
<1>3. CASE StartConnected
    <2>1. th'[App].pc = "subscribe" /\ \E u : Moves(App, u)
        BY <1>0, <1>3, BeginMoves DEF StartConnected
    <2>2. ~started
        BY <1>3 DEF StartConnected, LockOK
    <2> QED BY <1>3, <2>1, <2>2, AppKeepsLock DEF StartConnected, clientVars
<1>4. CASE StartGivesUp
    <2>1. th'[App].pc = "drain" /\ \E u : Moves(App, u)
        BY <1>0, <1>4, GotoMoves DEF StartGivesUp, AppPlaces
    <2>2. ~started
        BY <1>4 DEF StartGivesUp, LockOK
    <2> QED BY <1>4, <2>1, <2>2, AppKeepsLock DEF StartGivesUp, clientVars
<1>5. CASE StopUnsubscribe
    <2>1. ~started
        BY <1>5 DEF StopUnsubscribe, LockOK
    <2> QED BY <1>5, <2>1, UnsubscribeMoves, AppKeepsLock DEF StopUnsubscribe, clientVars
<1>6. CASE StopTransport
    <2>1. th'[App].pc = "disconnect" /\ \E u : Moves(App, u)
        BY <1>0, <1>6, GotoMoves DEF StopTransport, AppPlaces
    <2>2. ~started
        BY <1>6 DEF StopTransport, LockOK
    <2> QED BY <1>6, <2>1, <2>2, AppKeepsLock DEF StopTransport, clientVars
<1>7. CASE Disconnect
    <2>1. th'[App].pc = "drain" /\ \E u : Moves(App, u)
        BY <1>0, <1>7, GotoMoves DEF Disconnect, AppPlaces
    <2>2. ~started
        BY <1>7 DEF Disconnect, LockOK
    <2> QED BY <1>7, <2>1, <2>2, AppKeepsLock DEF Disconnect, clientVars
<1>8. CASE Drain
    <2>1. th'[App].pc = "idle" /\ \A r \in Conns : th'[r] = th[r]
        BY <1>0, <1>8, IdleFields, ProcFacts, Moved DEF Drain, Moves
    <2>2. holder' # App /\ \A r \in Conns : holder' = r <=> holder = r
        BY <1>8, ProcFacts DEF Drain
    <2>3. started' = started
        BY <1>8 DEF Drain, clientVars
    <2> QED BY <2>1, <2>2, <2>3 DEF LockOK
<1> QED BY <1>1, <1>2, <1>3, <1>4, <1>5, <1>6, <1>7, <1>8 DEF AppStep

LEMMA ProcLockStep ==
    ASSUME TypeOK, PlaceOK, LockOK, NEW p \in Procs, Step(p)
    PROVE  LockOK'
<1>0. p = App \/ p \in Conns
    BY ProcFacts
<1>1. CASE SubscribeNext(p)
    <2>1. CASE Subscribed(p)
        BY <1>1, <2>1, SubscribeNextCases, SubscribedMoves, HolderMoves DEF Subscribed
    <2>2. CASE Sends(p) /\ UNCHANGED <<started, holder>>
        BY <2>2, SendsMoves, HolderMoves DEF Sends
    <2>3. CASE SubscribeError(p)
        <3>1. holder' = IF p = App THEN holder ELSE Nobody
            BY <2>3 DEF SubscribeError, AfterSubscribeError
        <3> QED BY <1>1, <2>3, <3>1, SubscribeNextCases, SubscribeErrorMoves, HolderMoves
                DEF SubscribeError
    <2> QED BY <1>1, <2>1, <2>2, <2>3, SubscribeNextCases
<1>2. CASE Suback(p)
    BY <1>2, SubackMoves, HolderMoves DEF Suback
<1>3. CASE SubscribeFails(p)
    <2>1. holder' = IF p = App THEN holder ELSE Nobody
        BY <1>3 DEF SubscribeFails, SubscribeError, AfterSubscribeError
    <2> QED BY <1>3, <2>1, SubscribeErrorMoves, HolderMoves
            DEF SubscribeFails, SubscribeError
<1>4. CASE OnConnect(p) \/ ReconnectForget(p) \/ (ReconnectSubscribe(p) /\ ~started)
    <2>1. PICK x \in {"lock1", "lock2", "done"} : Goto(p, x)
        BY <1>4 DEF OnConnect, ReconnectForget, ReconnectSubscribe
    <2>2. th'[p].pc = x /\ \E u : Moves(p, u)
        BY <2>1, GotoMoves DEF ConnPlaces
    <2>3. p # App /\ th[p].pc \notin {"subscribe", "wait"}
        BY <1>4 DEF OnConnect, ReconnectForget, ReconnectSubscribe, PlaceOK, AppPlaces
    <2>4. UNCHANGED <<started, holder>>
        BY <1>4 DEF OnConnect, ReconnectForget, ReconnectSubscribe, clientVars
    <2> QED BY <1>0, <2>2, <2>3, <2>4, ConnKeepsLock
<1>5. CASE ReconnectSubscribe(p) /\ started
    <2>1. /\ th'[p].pc = "subscribe" /\ p # App
          /\ \A r \in Procs : r # p => th'[r] = th[r]
        BY <1>5, BeginMoves DEF ReconnectSubscribe, Moves, PlaceOK, AppPlaces
    <2>2. /\ holder = Nobody /\ holder' = p /\ started' = started
          /\ \A r \in Conns : th[r].pc \notin {"subscribe", "wait"}
        BY <1>5, ProcFacts DEF ReconnectSubscribe, LockOK, clientVars
    <2>3. th'[App] = th[App] /\ th[App].pc = "idle"
        BY <1>5, <2>1, ProcFacts DEF LockOK
    <2> QED BY <1>0, <1>5, <2>1, <2>2, <2>3, ProcFacts DEF LockOK
<1> QED BY <1>1, <1>2, <1>3, <1>4, <1>5 DEF Step

LEMMA LockStep ==
    ASSUME TypeOK, PlaceOK, LockOK, [Next]_vars
    PROVE  LockOK'
<1>1. CASE UNCHANGED vars
    BY <1>1 DEF vars, clientVars, LockOK
<1>2. CASE Arrive \/ Lane
    BY <1>2 DEF Arrive, Lane, Unblock, Take, Exit, Handle, clientVars, LockOK
<1>3. ASSUME NEW k \in Clients, Lose(k)
      PROVE  LockOK'
    BY <1>3 DEF Lose, clientVars, LockOK
<1>4. ASSUME NEW k \in Clients, Connect(k)
      PROVE  LockOK'
    <2>1. UNCHANGED <<started, holder>>
        BY <1>4 DEF Connect, clientVars
    <2>2. th[conns + 1] = Idle
        BY <1>4, ConnectMoves, ConstantsAssumption DEF PlaceOK, TypeOK
    <2> QED BY <1>4, <2>1, <2>2, IdleFields, ConnectMoves, ConnKeepsLock
<1> QED BY <1>1, <1>2, <1>3, <1>4, AppLockStep, ProcLockStep DEF Next

-----------------------------------------------------------------------------
(***************************************************************************)
(* Which paho clients are alive, and what a Start or Stop has undone.      *)
(***************************************************************************)
LEMMA CurFacts ==
    ASSUME TypeOK, PlaceOK, th[App].pc # "idle" \/ started
    PROVE  cur \in Clients
BY DEF TypeOK, PlaceOK

LEMMA PahoStep ==
    ASSUME Base, PahoOK, AppOK, [Next]_vars
    PROVE  PahoOK'
<1> USE DEF Base
<1>1. CASE UNCHANGED <<conn, link, cur, gaveUp>>
    BY <1>1 DEF PahoOK
<1>2. ASSUME NEW k \in Clients, Connect(k)
      PROVE  PahoOK'
    <2>1. /\ conn[k] \in {"connecting", "lost"}
          /\ link' = [link EXCEPT ![k] = conns + 1]
          /\ conn' = [j \in Clients |-> IF j = k THEN "up"
                                        ELSE IF conn[j] = "up" THEN "lost"
                                        ELSE conn[j]]
          /\ UNCHANGED <<cur, gaveUp>>
        BY <1>2 DEF Connect
    <2>2. conns + 1 # 0 /\ link \in [Clients -> 0 .. MaxConns]
        BY ConstantsAssumption DEF TypeOK
    <2>3. ~(k > cur) /\ (k \in gaveUp \/ k = cur)
        BY <2>1 DEF PahoOK
    <2> HIDE <1>2 DEF Base
    <2>4. \A j \in Clients : j > cur' => conn'[j] = "none" /\ link'[j] = 0
        BY <2>1, <2>2, <2>3 DEF PahoOK
    <2>5. \A j \in Clients : conn'[j] \in {"up", "lost"} => link'[j] # 0
        BY <2>1, <2>2, <2>3 DEF PahoOK
    <2>6. \A j \in Clients : j \notin gaveUp' /\ j # cur' => conn'[j] \in {"none", "off"}
        BY <2>1, <2>2, <2>3 DEF PahoOK
    <2> QED BY <2>4, <2>5, <2>6 DEF PahoOK
<1>3. ASSUME NEW k \in Clients, Lose(k)
      PROVE  PahoOK'
    <2>1. ~(k > cur) /\ (k \in gaveUp \/ k = cur) /\ link[k] # 0
        BY <1>3 DEF Lose, PahoOK
    <2> QED BY <1>3, <2>1 DEF Lose, PahoOK, TypeOK
<1>4. CASE Start
    <2>1. cur + 1 \in Clients /\ cur \in Nat
        <3>1. cur \in 0 .. MaxStarts /\ MaxStarts \in Nat /\ cur < MaxStarts
            BY <1>4, ConstantsAssumption DEF Start, TypeOK, Clients
        <3> QED BY <3>1 DEF Clients
    <2>2. /\ cur' = cur + 1 /\ conn' = [conn EXCEPT ![cur + 1] = "connecting"]
          /\ UNCHANGED <<link, gaveUp>> /\ ~started /\ th[App].pc = "idle"
        BY <1>4, IdleFields DEF Start
    <2>3. Finished
        BY <2>2 DEF AppOK
    <2>4. \A j \in Clients : j > cur' => conn'[j] = "none" /\ link'[j] = 0
        BY <2>1, <2>2 DEF PahoOK, TypeOK, Clients
    <2>5. \A j \in Clients : conn'[j] \in {"up", "lost"} => link'[j] # 0
        BY <2>1, <2>2 DEF PahoOK, TypeOK
    <2>6. \A j \in Clients : j \notin gaveUp' /\ j # cur' => conn'[j] \in {"none", "off"}
        BY <2>1, <2>2, <2>3 DEF PahoOK, TypeOK, Finished, Clients
    <2> QED BY <2>4, <2>5, <2>6 DEF PahoOK
<1>5. CASE StartGivesUp
    BY <1>5 DEF StartGivesUp, PahoOK, paho
<1>6. CASE Disconnect
    <2>1. cur \in Clients
        BY <1>6, CurFacts DEF Disconnect
    <2> QED BY <1>6, <2>1 DEF Disconnect, PahoOK, TypeOK, Clients
<1>7. CASE UNCHANGED vars \/ Arrive \/ Lane \/ Stop
    BY <1>1, <1>7 DEF vars, paho, Arrive, Lane, Unblock, Take, Exit, Handle, Stop
<1>8. CASE StartConnected \/ StopUnsubscribe \/ StopTransport \/ Drain
    BY <1>1, <1>8 DEF paho, StartConnected, StopUnsubscribe, StopTransport, Drain
<1>9. ASSUME NEW p \in Procs, Step(p) PROVE PahoOK'
    BY <1>1, <1>9 DEF paho, Step, SubscribeNext, Suback, SubscribeFails, OnConnect,
           ReconnectForget, ReconnectSubscribe
<1> QED BY <1>2, <1>3, <1>4, <1>5, <1>6, <1>7, <1>8, <1>9 DEF Next, AppStep

\* Finished outlives every step of paho.
LEMMA FinishedStays ==
    ASSUME Base, PahoOK, Finished, NEW k \in Clients, Connect(k) \/ Lose(k)
    PROVE  Finished'
<1>1. cur = 0 \/ cur \in Clients
    BY DEF Base, TypeOK
<1> QED BY <1>1 DEF Finished, Connect, Lose, Base, TypeOK

LEMMA AppOKStep ==
    ASSUME Base, PahoOK, AppOK, [Next]_vars
    PROVE  AppOK'
<1> USE DEF Base
<1>1. CASE UNCHANGED vars
    BY <1>1 DEF AppOK, Finished, vars, clientVars, lane, paho
<1>2. ASSUME NEW k \in Clients, Connect(k)
      PROVE  AppOK'
    <2>1. th'[App] = th[App] /\ UNCHANGED <<started, running, worker, cur>>
        BY <1>2, ConnectMoves, ProcFacts DEF Connect, Moves, clientVars, lane
    <2>2. th[App].pc = "connect" => conn'[cur] \in {"connecting", "up", "lost"}
        BY <1>2, CurFacts DEF Connect, AppOK
    <2>3. Finished => Finished'
        BY <1>2, FinishedStays
    <2> QED BY <2>1, <2>2, <2>3 DEF AppOK
<1>3. ASSUME NEW k \in Clients, Lose(k)
      PROVE  AppOK'
    <2>1. UNCHANGED <<th, started, running, worker, cur>>
        BY <1>3 DEF Lose, clientVars, lane
    <2>2. th[App].pc = "connect" => conn'[cur] \in {"connecting", "up", "lost"}
        BY <1>3, CurFacts DEF Lose, AppOK, TypeOK
    <2>3. Finished => Finished'
        BY <1>3, FinishedStays
    <2> QED BY <2>1, <2>2, <2>3 DEF AppOK
<1>4. CASE Arrive \/ Lane
    <2>1. UNCHANGED <<th, started, running, cur, conn, gaveUp>>
        BY <1>4 DEF Arrive, Lane, Unblock, Take, Exit, Handle, clientVars, paho
    <2>2. worker = "none" => worker' = "none"
        BY <1>4 DEF Arrive, Lane, Unblock, Take, Exit, Handle
    <2> QED BY <2>1, <2>2 DEF AppOK, Finished
<1>5. CASE Start
    <2>1. th'[App].pc = "connect"
        BY <1>5, GotoMoves, ProcFacts DEF Start, AppPlaces
    <2>2. cur + 1 \in Clients
        <3>1. cur \in 0 .. MaxStarts /\ MaxStarts \in Nat /\ cur < MaxStarts
            BY <1>5, ConstantsAssumption DEF Start, TypeOK, Clients
        <3> QED BY <3>1 DEF Clients
    <2>3. conn'[cur'] = "connecting"
        BY <1>5, <2>2 DEF Start, TypeOK
    <2> QED BY <2>1, <2>3 DEF AppOK
<1>6. CASE Stop
    BY <1>6, StopMoves DEF AppOK
<1>7. CASE StartConnected
    <2>1. th'[App].pc = "subscribe"
        BY <1>7, BeginMoves, ProcFacts DEF StartConnected
    <2> QED BY <2>1 DEF AppOK
<1>8. CASE StartGivesUp
    <2>1. th'[App].pc = "drain"
        BY <1>8, GotoMoves, ProcFacts DEF StartGivesUp, AppPlaces
    <2> QED BY <1>8, <2>1 DEF StartGivesUp, AppOK, Finished
<1>9. CASE StopUnsubscribe
    BY <1>9, UnsubscribeMoves DEF AppOK
<1>10. CASE StopTransport
    <2>1. th'[App].pc = "disconnect"
        BY <1>10, GotoMoves, ProcFacts DEF StopTransport, AppPlaces
    <2> QED BY <1>10, <2>1 DEF StopTransport, AppOK
<1>11. CASE Disconnect
    <2>1. th'[App].pc = "drain" /\ cur \in Clients
        BY <1>11, GotoMoves, CurFacts, ProcFacts DEF Disconnect, AppPlaces
    <2>2. ~running' /\ conn'[cur'] = "off"
        BY <1>11, <2>1 DEF Disconnect, AppOK, TypeOK
    <2> QED BY <2>1, <2>2 DEF AppOK, Finished
<1>12. CASE Drain
    <2>1. th'[App].pc = "idle"
        BY <1>12, IdleFields, Moved, ProcFacts DEF Drain, Moves
    <2>2. UNCHANGED <<running, worker, cur, conn, gaveUp, started>>
        BY <1>12 DEF Drain, paho, clientVars
    <2> QED BY <1>12, <2>1, <2>2 DEF Drain, AppOK, Finished
<1>13. ASSUME NEW p \in Procs, Step(p) PROVE AppOK'
    <2>1. UNCHANGED <<running, worker, cur, conn, gaveUp>>
        BY <1>13 DEF paho, lane, Step, SubscribeNext, Suback, SubscribeFails, OnConnect,
               ReconnectForget, ReconnectSubscribe
    <2>2. CASE p = App
        <3>1. th[App].pc \in {"subscribe", "wait"}
            BY <1>13, <2>2 DEF Step, SubscribeNext, Suback, SubscribeFails, OnConnect,
               ReconnectForget, ReconnectSubscribe, PlaceOK, AppPlaces
        <3>2. \/ th'[App].pc \in {"subscribe", "wait", "tstop"}
              \/ th'[App].pc = "idle" /\ started'
            BY <1>13, <2>2, <3>1, SubscribeNextCases, SubscribedMoves, SendsMoves,
               SubscribeErrorMoves, SubackMoves
               DEF Step, Subscribed, SubscribeFails, OnConnect, ReconnectForget,
                   ReconnectSubscribe
        <3> QED BY <3>2 DEF AppOK
    <2>3. CASE p # App
        <3>1. started' = started
            <4>1. th[p].pc \in {"subscribe", "wait"} => started
                BY <2>3, ProcFacts DEF LockOK
            <4>2. started' # started => th[p].pc = "subscribe" /\ started'
                BY <1>13 DEF Step, SubscribeNext, Subscribed, SubscribeError,
                   Suback, SubscribeFails, OnConnect, ReconnectForget,
                   ReconnectSubscribe, clientVars
            <4> QED BY <4>1, <4>2 DEF TypeOK
        <3>2. th'[App] = th[App]
            BY <1>13, <2>3, StepMoves, ProcFacts DEF Moves
        <3> QED BY <2>1, <3>1, <3>2 DEF AppOK, Finished
    <2> QED BY <2>2, <2>3
<1> QED BY <1>1, <1>2, <1>3, <1>4, <1>5, <1>6, <1>7, <1>8, <1>9, <1>10, <1>11,
           <1>12, <1>13 DEF Next, AppStep

-----------------------------------------------------------------------------
(***************************************************************************)
(* Who renews the subscriptions.                                           *)
(***************************************************************************)
\* Nobody subscribes while c.mu is free, or while somebody else holds it.
LEMMA OneSubscribes ==
    ASSUME LockOK, NEW p \in Procs, th[p].pc \in {"subscribe", "wait"}
    PROVE  holder = p /\ (p # App => p \in Conns /\ started)
BY ProcFacts DEF LockOK

\* A client that is not to be kept subscribed owes nothing.
LEMMA NotActive ==
    ASSUME LockOK', ~started', th'[App].pc \notin {"connect", "subscribe", "wait"}
    PROVE  RestoreInv'
<1>1. \A p \in Procs : th'[p].pc \notin {"subscribe", "wait"}
    BY ProcFacts DEF LockOK
<1> QED BY <1>1 DEF RestoreInv, Active, Subscribing

LEMMA OnConnectsSame ==
    ASSUME NEW p \in Procs, NEW u, Moves(p, u),
           th[p].pc \notin {"onConnect", "lock1", "lock2"},
           th'[p].pc \notin {"onConnect", "lock1", "lock2"},
           wasConnected' = wasConnected
    PROVE  OnConnects' = OnConnects /\ Repair' = Repair
<1>1. \A r \in Conns : r # p => th'[r] = th[r]
    BY ProcFacts DEF Moves
<1>2. OnConnects' = OnConnects
    BY <1>1 DEF OnConnects
<1>3. (\E r \in Conns : th'[r].pc \in {"lock1", "lock2"}) <=>
      (\E r \in Conns : th[r].pc \in {"lock1", "lock2"})
    BY <1>1
<1> QED BY <1>2, <1>3 DEF Repair

LEMMA ConnectRestore ==
    ASSUME Base, PahoOK, RestoreInv, NEW k \in Clients, Connect(k)
    PROVE  RestoreInv'
<1> USE DEF Base
<1>1. /\ conns + 1 \in Conns /\ th'[conns + 1].pc = "onConnect"
      /\ \A r \in Procs : r # conns + 1 => th'[r] = th[r]
    BY ConnectMoves DEF Moves
<1>2. th[conns + 1].pc = "idle"
    BY <1>1, IdleFields, ConstantsAssumption, SMTT(30) DEF PlaceOK, TypeOK
<1>3. OnConnects' = OnConnects \cup {conns + 1} /\ conns + 1 \notin OnConnects
    BY <1>1, <1>2, ProcFacts DEF OnConnects
<1>4. th'[App] = th[App]
    BY <1>1, ProcFacts
<1>5. UNCHANGED <<started, holder, wasConnected, cur, restoreOK>>
    BY DEF Connect, clientVars
<1>6. wasConnected \/ OnConnects # {} => Repair'
    BY <1>3, <1>5 DEF Repair
<1>7. Up(cur)' => k = cur
    BY <1>5 DEF Up, Connect, TypeOK
<1>8. cur # 0 /\ link[cur] # 0 => link'[cur] # 0
    BY ConstantsAssumption DEF Connect, TypeOK
<1>9. started \/ Subscribing => cur # 0 /\ link[cur] # 0
    BY CurFacts DEF RestoreInv, Clients, PlaceOK, Subscribing
<1>10. (started \/ Subscribing) => Repair'
    BY <1>6, <1>9 DEF RestoreInv, Active
<1>11. OnConnects' # {}
    BY <1>3
<1>12. (started \/ Subscribing)' => link'[cur'] # 0
    BY <1>4, <1>5, <1>8, <1>9 DEF Subscribing
<1>13. ASSUME NEW p \in Procs, th'[p].pc \in {"subscribe", "wait"} PROVE Repair'
    <2>1. th[p].pc \in {"subscribe", "wait"}
        BY <1>1, <1>13
    <2>2. started \/ Subscribing
        BY <2>1, OneSubscribes DEF Subscribing
    <2> QED BY <2>2, <1>10
<1> QED BY <1>5, <1>10, <1>11, <1>12, <1>13 DEF RestoreInv

\* Subscribing goes on, or ends with an answer.
LEMMA SubscriberRestore ==
    ASSUME Base, RestoreInv, LockOK', NEW p \in Procs,
           SubscribeNext(p) \/ Suback(p) \/ SubscribeFails(p)
    PROVE  RestoreInv'
<1> USE DEF Base
<1>1. /\ th[p].pc \in {"subscribe", "wait"} /\ holder = p
      /\ UNCHANGED <<wasConnected, cur, conn, link>>
    BY OneSubscribes DEF SubscribeNext, Suback, SubscribeFails, paho
<1>2. PICK u : Moves(p, u)
    BY StepMoves DEF Step
<1>3. \A r \in Procs : r # p => th'[r] = th[r]
    BY <1>2 DEF Moves
<1>4. \A r \in Procs : r # p => th'[r].pc \notin {"subscribe", "wait"}
    BY <1>1, <1>3, OneSubscribes
<1>5. started \/ Subscribing
    BY <1>1, OneSubscribes DEF Subscribing
<1>6. (wasConnected \/ OnConnects # {}) /\ link[cur] # 0
    BY <1>5, CurFacts DEF RestoreInv, Active, Clients, Subscribing
<1>7. th'[p].pc \in {"idle", "tstop", "done", "wait", "subscribe"}
    BY SubscribeNextCases, SubscribedMoves, SubscribeErrorMoves, SendsMoves, SubackMoves
       DEF SubscribeFails
<1>8. OnConnects' = OnConnects /\ Repair' = Repair
    BY <1>1, <1>2, <1>7, OnConnectsSame
<1>9. (wasConnected' \/ OnConnects' # {}) /\ link'[cur'] # 0
    BY <1>1, <1>6, <1>8
<1>10. th[p].i \in Nat /\ NFilters \in Nat
    BY ConstantsAssumption DEF TypeOK, Threads
<1>11. CASE Subscribed(p) /\ th[p].i > NFilters /\ subs' = subs
    <2>1. \A r \in Procs : th'[r].pc \notin {"subscribe", "wait"}
        BY <1>4, <1>11, SubscribedMoves
    <2>2. Up(cur) => Repair \/ \A f \in Filters : f < th[p].i => f \in subs
        BY <1>1 DEF RestoreInv
    <2>3. Up(cur) => Repair \/ subs = Filters
        <3>1. \A f \in Filters : f < th[p].i
            BY <1>10, <1>11 DEF Filters
        <3>2. subs \subseteq Filters
            BY DEF TypeOK
        <3> QED BY <2>2, <3>1, <3>2
    <2>4. Up(cur)' => Repair' \/ subs' = Filters
        BY <1>1, <1>8, <1>11, <2>3 DEF Up
    <2> QED BY <1>9, <2>1, <2>4 DEF RestoreInv
<1>12. CASE Sends(p) /\ UNCHANGED <<subs, holder>>
    <2>1. th'[p].i = th[p].i /\ th[p].pc = "subscribe"
        BY <1>12, SendsMoves DEF Sends
    <2>2. Up(cur)' => Repair' \/ \A f \in Filters : f < th'[p].i => f \in subs'
        BY <1>1, <1>8, <1>12, <2>1 DEF RestoreInv, Up
    <2>3. holder' # Nobody
        BY <1>1, <1>12, ProcFacts
    <2> QED BY <1>4, <1>9, <2>2, <2>3 DEF RestoreInv
<1>13. CASE SubscribeError(p)
    <2>1. \A r \in Procs : th'[r].pc \notin {"subscribe", "wait"}
        BY <1>4, <1>13, SubscribeErrorMoves
    <2> QED BY <1>9, <1>13, <2>1 DEF RestoreInv, SubscribeError
<1>14. CASE Suback(p)
    <2>1. th'[p].i = th[p].i + 1 /\ subs' = subs \cup {th[p].i} /\ holder' = p
        BY <1>1, <1>14, SubackMoves DEF Suback
    <2>2. Up(cur) => Repair \/ \A f \in Filters : f < th[p].i => f \in subs
        BY <1>1 DEF RestoreInv
    <2>3. (\A f \in Filters : f < th[p].i => f \in subs) =>
          (\A f \in Filters : f < th'[p].i => f \in subs')
        BY <1>10, <2>1 DEF Filters
    <2>4. Up(cur)' => Repair' \/ \A f \in Filters : f < th'[p].i => f \in subs'
        BY <1>1, <1>8, <2>2, <2>3 DEF Up
    <2>5. holder' # Nobody
        BY <2>1, ProcFacts
    <2> QED BY <1>4, <1>9, <2>4, <2>5 DEF RestoreInv
<1> QED BY <1>11, <1>12, <1>13, <1>14, SubscribeNextCases DEF SubscribeFails

LEMMA ReconnectRestore ==
    ASSUME Base, RestoreInv, LockOK', NEW p \in Procs,
           OnConnect(p) \/ ReconnectForget(p) \/ ReconnectSubscribe(p)
    PROVE  RestoreInv'
<1> USE DEF Base
<1>1. /\ p \in Conns /\ th[p].pc \in {"onConnect", "lock1", "lock2"}
      /\ UNCHANGED <<started, cur, conn, link, subs, restoreOK>>
    BY ProcFacts DEF PlaceOK, AppPlaces, OnConnect, ReconnectForget,
           ReconnectSubscribe, paho, clientVars
<1>2. PICK u : Moves(p, u)
    BY StepMoves DEF Step
<1>3. (\A r \in Procs : r # p => th'[r] = th[r]) /\ th'[App] = th[App]
    BY <1>1, <1>2, ProcFacts DEF Moves
<1>4. Subscribing' = Subscribing /\ Active' = Active
    BY <1>1, <1>3 DEF Subscribing, Active
<1>5. CASE OnConnect(p)
    <2>1. /\ wasConnected' /\ holder' = holder /\ th[p].pc = "onConnect"
          /\ th'[p].pc = IF wasConnected THEN "lock1" ELSE "done"
        <3>1. CASE wasConnected
            BY <1>5, <3>1, GotoMoves DEF OnConnect, IsReconnect, ConnPlaces
        <3>2. CASE ~wasConnected
            BY <1>5, <3>2, GotoMoves DEF OnConnect, IsReconnect, ConnPlaces
        <3> QED BY <3>1, <3>2
    <2>2. OnConnects' = OnConnects \ {p}
        BY <1>1, <1>3, <2>1, ProcFacts DEF OnConnects
    <2>3. Repair => Repair'
        <3>1. CASE wasConnected
            BY <1>1, <2>1, <3>1 DEF Repair
        <3>2. ASSUME NEW r \in OnConnects, NEW s \in OnConnects, r # s PROVE Repair'
            BY <2>1, <2>2, <3>2 DEF Repair
        <3>3. ASSUME NEW r \in Conns, th[r].pc \in {"lock1", "lock2"} PROVE Repair'
            <4>1. r # p /\ th'[r] = th[r]
                BY <1>3, <2>1, <3>3, ProcFacts
            <4> QED BY <3>3, <4>1 DEF Repair
        <3> QED BY <3>1, <3>2, <3>3 DEF Repair
    <2>4. \A r \in Procs : th'[r].pc \in {"subscribe", "wait"} =>
              th[r].pc \in {"subscribe", "wait"} /\ th'[r] = th[r]
        BY <1>3, <2>1
    <2>5. Up(cur)' = Up(cur)
        BY <1>1 DEF Up
    <2> QED BY <1>1, <1>4, <2>1, <2>3, <2>4, <2>5 DEF RestoreInv
<1>6. CASE ~started /\ ~OnConnect(p)
    <2>1. holder = Nobody
        BY <1>6 DEF ReconnectForget, ReconnectSubscribe
    <2>2. th[App].pc \notin {"connect", "subscribe", "wait"}
        BY <2>1, ProcFacts DEF LockOK
    <2>3. ~started' /\ th'[App].pc \notin {"connect", "subscribe", "wait"}
        BY <1>1, <1>3, <1>6, <2>2
    <2>4. RestoreInv'
        BY <2>3, NotActive
    <2> QED BY <2>4
<1>7. CASE started /\ ~OnConnect(p)
    <2>1. holder = Nobody /\ wasConnected' = wasConnected
        BY <1>7 DEF ReconnectForget, ReconnectSubscribe
    <2>2. th[p].pc # "onConnect" /\ th'[p].pc # "onConnect"
        <3>1. th[p].pc # "onConnect"
            BY <1>7 DEF ReconnectForget, ReconnectSubscribe
        <3>2. CASE ReconnectForget(p)
            BY <1>7, <3>2, GotoMoves DEF ReconnectForget, ConnPlaces
        <3>3. CASE ReconnectSubscribe(p)
            BY <1>7, <3>3, BeginMoves DEF ReconnectSubscribe
        <3> QED BY <1>7, <3>1, <3>2, <3>3
    <2>3. OnConnects' = OnConnects
        BY <1>3, <2>2, ProcFacts DEF OnConnects
    <2>4. \A r \in Procs : r # p => th'[r].pc \notin {"subscribe", "wait"}
        BY <1>3, <2>1, OneSubscribes, ProcFacts
    <2>5. CASE ReconnectForget(p)
        <3>1. th'[p].pc = "lock2"
            BY <1>7, <2>5, GotoMoves DEF ReconnectForget, ConnPlaces
        <3>2. Repair'
            BY <1>1, <3>1 DEF Repair
        <3> QED BY <1>1, <1>4, <2>1, <2>3, <3>2 DEF RestoreInv
    <2>6. CASE ReconnectSubscribe(p)
        <3>1. th'[p].i = 1 /\ holder' = p
            BY <1>7, <2>6, BeginMoves DEF ReconnectSubscribe
        <3>2. \A f \in Filters : ~(f < th'[p].i)
            BY <3>1, ConstantsAssumption DEF Filters
        <3>3. holder' # Nobody
            BY <3>1, ProcFacts
        <3> QED BY <1>1, <1>4, <2>1, <2>3, <2>4, <3>2, <3>3 DEF RestoreInv
    <2> QED BY <1>7, <2>5, <2>6
<1> QED BY <1>5, <1>6, <1>7

-----------------------------------------------------------------------------
\* A client has filters at the broker only while it is connected, and none
\* before its Start has seen the connection.
LEMMA SubsStep ==
    ASSUME Base, PahoOK, AppOK, SubsOK, [Next]_vars
    PROVE  SubsOK'
<1> USE DEF Base
<1>0. cur \in 0 .. MaxStarts /\ MaxStarts \in Nat /\ gaveUp \subseteq Clients
    BY ConstantsAssumption DEF TypeOK, Clients
<1>1. CASE UNCHANGED vars
    BY <1>1 DEF SubsOK, Up, vars, clientVars, lane, paho
<1>2. ASSUME NEW k \in Clients, Connect(k)
      PROVE  SubsOK'
    <2>1. th'[App] = th[App] /\ UNCHANGED <<started, cur, gaveUp>> /\ subs' = {}
        BY <1>2, ConnectMoves, ProcFacts DEF Connect, Moves, clientVars
    <2> QED BY <2>1 DEF SubsOK
<1>3. ASSUME NEW k \in Clients, Lose(k)
      PROVE  SubsOK'
    <2>1. UNCHANGED <<th, started, cur, gaveUp>>
        BY <1>3 DEF Lose, clientVars
    <2>2. subs' # {} => subs # {} /\ (Up(cur) => Up(cur)')
        BY <1>3 DEF Lose, Up, TypeOK
    <2> QED BY <2>1, <2>2 DEF SubsOK
<1>4. CASE Arrive \/ Lane
    <2>1. UNCHANGED <<th, started, cur, gaveUp, conn, subs>>
        BY <1>4 DEF Arrive, Lane, Unblock, Take, Exit, Handle, clientVars, paho
    <2> QED BY <2>1 DEF SubsOK, Up
<1>5. CASE Start
    <2>1. /\ ~started /\ th[App].pc = "idle" /\ cur' = cur + 1
          /\ UNCHANGED <<gaveUp, subs>>
        BY <1>5, IdleFields DEF Start
    <2>2. Finished
        BY <2>1 DEF AppOK
    <2>3. subs = {}
        BY <2>2 DEF SubsOK, Finished, Up
    <2>4. \A k \in gaveUp : k <= cur /\ k \in Nat
        BY <1>0 DEF SubsOK, Clients
    <2> QED BY <1>0, <2>1, <2>3, <2>4 DEF SubsOK
<1>6. CASE Stop
    <2>1. started /\ UNCHANGED <<cur, gaveUp, conn, subs>>
        BY <1>6 DEF Stop, paho
    <2>2. th'[App].pc = "unsub"
        BY <1>6, StopMoves
    <2> QED BY <2>1, <2>2 DEF SubsOK, Up
<1>7. CASE StartConnected
    <2>1. /\ th[App].pc = "connect" /\ UNCHANGED <<cur, gaveUp, subs, started>>
        BY <1>7 DEF StartConnected, clientVars
    <2> QED BY <2>1 DEF SubsOK
<1>8. CASE StartGivesUp
    <2>1. /\ th[App].pc = "connect" /\ UNCHANGED <<cur, subs, started>>
          /\ gaveUp' = gaveUp \cup {cur}
        BY <1>8 DEF StartGivesUp, clientVars
    <2>2. th'[App].pc = "drain" /\ ~started
        BY <1>8, <2>1, GotoMoves, ProcFacts DEF StartGivesUp, AppPlaces, LockOK
    <2> QED BY <1>0, <2>1, <2>2 DEF SubsOK
<1>9. CASE StopUnsubscribe
    <2>1. /\ th[App].pc = "unsub" /\ th'[App].pc = "unsub"
          /\ UNCHANGED <<cur, gaveUp, started, conn>> /\ subs' \subseteq subs
        BY <1>9, UnsubscribeMoves DEF StopUnsubscribe, clientVars, paho
    <2> QED BY <2>1 DEF SubsOK, Up
<1>10. CASE StopTransport
    <2>1. /\ th[App].pc \in {"unsub", "tstop"}
          /\ UNCHANGED <<cur, gaveUp, started, conn, subs>>
        BY <1>10 DEF StopTransport, clientVars, paho
    <2>2. th'[App].pc = "disconnect"
        BY <1>10, GotoMoves, ProcFacts DEF StopTransport, AppPlaces
    <2> QED BY <2>1, <2>2 DEF SubsOK, Up
<1>11. CASE Disconnect
    <2>1. th[App].pc = "disconnect" /\ UNCHANGED <<cur, gaveUp, started>>
        BY <1>11 DEF Disconnect, clientVars
    <2>2. subs' = {}
        BY <1>11 DEF Disconnect, SubsOK
    <2> QED BY <2>1, <2>2 DEF SubsOK
<1>12. CASE Drain
    <2>1. /\ th[App].pc = "drain" /\ UNCHANGED <<cur, gaveUp, started, conn, subs>>
        BY <1>12 DEF Drain, clientVars, paho
    <2>2. th'[App].pc = "idle"
        BY <1>12, IdleFields, Moved, ProcFacts DEF Drain, Moves
    <2> QED BY <2>1, <2>2 DEF SubsOK, Up
<1>13. ASSUME NEW p \in Procs, Step(p) PROVE SubsOK'
    <2>1. UNCHANGED <<cur, gaveUp, conn>>
        BY <1>13 DEF paho, Step, SubscribeNext, Suback, SubscribeFails, OnConnect,
               ReconnectForget, ReconnectSubscribe
    <2>2. CASE OnConnect(p) \/ ReconnectForget(p) \/ ReconnectSubscribe(p)
        <3>1. p \in Conns
            BY <2>2, ProcFacts DEF PlaceOK, AppPlaces, OnConnect, ReconnectForget,
                   ReconnectSubscribe
        <3>2. th'[App] = th[App]
            BY <1>13, <3>1, StepMoves, ProcFacts DEF Moves
        <3>3. UNCHANGED <<started, subs>>
            BY <2>2 DEF OnConnect, ReconnectForget, ReconnectSubscribe, clientVars
        <3> QED BY <2>1, <3>2, <3>3 DEF SubsOK, Up
    <2>3. CASE SubscribeNext(p) \/ Suback(p) \/ SubscribeFails(p)
        <3>1. th[p].pc \in {"subscribe", "wait"}
            BY <2>3 DEF SubscribeNext, Suback, SubscribeFails
        <3>2. cur \notin gaveUp /\ th[App].pc # "connect"
            BY <3>1, ProcFacts DEF LockOK, SubsOK
        <3>3. th'[App].pc # "connect"
            <4>1. CASE p # App
                BY <1>13, <3>2, <4>1, StepMoves, ProcFacts DEF Moves
            <4>2. CASE p = App
                BY <2>3, <4>2, SubscribeNextCases, SubscribedMoves, SendsMoves,
                   SubscribeErrorMoves, SubackMoves DEF SubscribeFails
            <4> QED BY <4>1, <4>2
        <3>4. subs' # {} => Up(cur)
            BY <2>3 DEF SubscribeNext, Suback, SubscribeFails, Answered,
                   SameConnection, SubsOK
        <3> QED BY <2>1, <3>2, <3>3, <3>4 DEF SubsOK, Up
    <2> QED BY <1>13, <2>2, <2>3 DEF Step
<1> QED BY <1>1, <1>2, <1>3, <1>4, <1>5, <1>6, <1>7, <1>8, <1>9, <1>10, <1>11,
           <1>12, <1>13 DEF Next, AppStep

-----------------------------------------------------------------------------
(***************************************************************************)
(* The theorems.                                                           *)
(***************************************************************************)
LEMMA RestoreStep ==
    ASSUME Base, PahoOK, AppOK, RestoreInv, LockOK', [Next]_vars
    PROVE  RestoreInv'
<1> USE DEF Base
<1>1. CASE UNCHANGED vars
    BY <1>1 DEF vars, clientVars, paho, RestoreInv, Active, Subscribing, Repair,
           OnConnects, Up
<1>2. CASE Arrive \/ Lane
    <2>1. UNCHANGED <<th, started, holder, wasConnected, cur, conn, link, subs,
                      restoreOK>>
        BY <1>2 DEF Arrive, Lane, Unblock, Take, Exit, Handle, clientVars, paho
    <2> QED BY <2>1 DEF RestoreInv, Active, Subscribing, Repair, OnConnects, Up
<1>3. ASSUME NEW k \in Clients, Lose(k)
      PROVE  RestoreInv'
    <2>1. /\ UNCHANGED <<th, started, holder, wasConnected, cur, link, restoreOK>>
          /\ Up(cur)' => Up(cur) /\ subs' = subs
        BY <1>3 DEF Lose, clientVars, Up, TypeOK
    <2> QED BY <2>1 DEF RestoreInv, Active, Subscribing, Repair, OnConnects
<1>4. CASE Start
    <2>1. /\ th'[App].pc = "connect" /\ ~started'
          /\ \A r \in Procs : r # App => th'[r] = th[r]
        BY <1>4, GotoMoves, ProcFacts DEF Start, AppPlaces, Moves, clientVars
    <2>2. \A r \in Procs : th'[r].pc \notin {"subscribe", "wait"}
        BY <1>4, <2>1, OneSubscribes, ProcFacts DEF Start
    <2>3. cur + 1 \in Clients /\ cur + 1 > cur
        <3>1. cur \in 0 .. MaxStarts /\ MaxStarts \in Nat /\ cur < MaxStarts
            BY <1>4, ConstantsAssumption DEF Start, TypeOK, Clients
        <3> QED BY <3>1 DEF Clients
    <2>4. link'[cur'] = 0
        BY <1>4, <2>3 DEF Start, PahoOK
    <2> QED BY <2>1, <2>2, <2>4 DEF RestoreInv, Subscribing
<1>5. CASE Stop \/ StartGivesUp \/ StopUnsubscribe \/ StopTransport \/ Disconnect \/ Drain
    <2>1. /\ ~started'
          /\ th'[App].pc \notin {"connect", "subscribe", "wait"}
        <3>1. CASE Stop
            BY <3>1, StopMoves DEF Stop
        <3>2. CASE StopUnsubscribe
            BY <3>2, UnsubscribeMoves DEF StopUnsubscribe, LockOK, clientVars
        <3>3. CASE Drain
            BY <3>3, IdleFields, Moved, ProcFacts DEF Drain, Moves, LockOK, clientVars
        <3>4. CASE StartGivesUp
            <4>1. th'[App].pc = "drain"
                BY <3>4, GotoMoves, ProcFacts DEF StartGivesUp, AppPlaces
            <4>2. ~started'
                BY <3>4 DEF StartGivesUp, LockOK, clientVars
            <4> QED BY <4>1, <4>2
        <3>5. CASE StopTransport
            <4>1. th'[App].pc = "disconnect"
                BY <3>5, GotoMoves, ProcFacts DEF StopTransport, AppPlaces
            <4>2. ~started'
                BY <3>5 DEF StopTransport, LockOK, clientVars
            <4> QED BY <4>1, <4>2
        <3>6. CASE Disconnect
            <4>1. th'[App].pc = "drain"
                BY <3>6, GotoMoves, ProcFacts DEF Disconnect, AppPlaces
            <4>2. ~started'
                BY <3>6 DEF Disconnect, LockOK, clientVars
            <4> QED BY <4>1, <4>2
        <3> QED BY <1>5, <3>1, <3>2, <3>3, <3>4, <3>5, <3>6
    <2> QED BY <2>1, NotActive
<1>6. CASE StartConnected
    <2>1. /\ th[App].pc = "connect" /\ conn[cur] # "connecting" /\ cur \in Clients
          /\ UNCHANGED <<started, holder, wasConnected, cur, link, conn, subs, restoreOK>>
        BY <1>6, CurFacts DEF StartConnected, clientVars, paho
    <2>2. /\ th'[App].pc = "subscribe" /\ th'[App].i = 1
          /\ \E u : Moves(App, u)
        BY <1>6, BeginMoves, ProcFacts DEF StartConnected
    <2>3. link[cur] # 0
        BY <2>1 DEF AppOK, PahoOK
    <2>4. OnConnects' = OnConnects
        BY <2>1, <2>2, OnConnectsSame, ProcFacts
    <2>5. wasConnected \/ OnConnects # {}
        BY <2>1, <2>3 DEF RestoreInv, Active, Clients
    <2>6. holder = App
        BY <2>1 DEF LockOK
    <2>7. \A r \in Procs : r # App => th'[r].pc \notin {"subscribe", "wait"}
        BY <2>2, <2>6, OneSubscribes DEF Moves
    <2>8. \A f \in Filters : ~(f < th'[App].i)
        BY <2>2, ConstantsAssumption DEF Filters
    <2>9. holder' # Nobody
        BY <2>1, <2>6, ProcFacts
    <2> QED BY <2>1, <2>3, <2>4, <2>5, <2>7, <2>8, <2>9 DEF RestoreInv
<1> QED BY <1>1, <1>2, <1>3, <1>4, <1>5, <1>6, ConnectRestore, SubscriberRestore,
           ReconnectRestore DEF Next, AppStep, Step

LEMMA InvInit == Init => Inv
<1> SUFFICES ASSUME Init PROVE Inv
    OBVIOUS
<1>1. \A p \in Procs : th[p] = Idle
    BY DEF Init
<1>2. TypeOK
    <2>1. << >> \in Seq(Filters)
        OBVIOUS
    <2>2. th \in [Procs -> Threads]
        BY IdleFields DEF Init
    <2>3. 0 \in 0 .. QSize /\ 0 \in 0 .. MaxConns
        BY ConstantsAssumption
    <2> QED BY <2>1, <2>2, <2>3 DEF Init, TypeOK
<1>3. PlaceOK /\ LockOK
    BY <1>1, IdleFields, ProcFacts DEF Init, PlaceOK, LockOK, AppPlaces, ConnPlaces
<1>4. PahoOK /\ AppOK
    BY <1>1, IdleFields, ProcFacts DEF Init, PahoOK, AppOK, Finished
<1>5. RestoreInv
    BY <1>1, IdleFields, ProcFacts DEF Init, RestoreInv, Active, Subscribing
<1>6. SubsOK
    BY DEF Init, SubsOK
<1> QED BY <1>2, <1>3, <1>4, <1>5, <1>6 DEF Inv, Base

LEMMA InvStep == Inv /\ [Next]_vars => Inv'
<1> SUFFICES ASSUME Inv, [Next]_vars PROVE Inv'
    OBVIOUS
<1>1. TypeOK' /\ PlaceOK' /\ LockOK'
    BY TypeStep, PlaceStep, LockStep DEF Inv, Base
<1>2. PahoOK' /\ AppOK' /\ RestoreInv' /\ SubsOK'
    BY <1>1, PahoStep, AppOKStep, RestoreStep, SubsStep DEF Inv
<1> QED BY <1>1, <1>2 DEF Inv, Base

\* The invariant holds for ever: what is proved below is read off it.
THEOREM ClientInvariant == Spec => []Inv
BY InvInit, InvStep, PTL DEF Spec

\* The variables keep their types: the program counters, the filter being
\* subscribed and the number of the connection SUBSCRIBE was sent on among them.
THEOREM ClientTypeCorrect == Spec => []TypeOK
<1>1. Inv => TypeOK
    BY DEF Inv, Base
<1> QED BY <1>1, ClientInvariant, PTL

\* When Transport.Stop, or a Start that failed, has returned, no worker is left,
\* the broker has no filter of the client, and every paho client is
\* disconnected, but for those a Start gave up on.
THEOREM StopIsComplete == Spec => []StopLeavesNothing
<1>1. Inv => StopLeavesNothing
    <2> SUFFICES ASSUME Inv, ~started, th[App] = Idle PROVE
                    /\ worker = "none" /\ ~running
                    /\ subs = {}
                    /\ \A k \in Clients \ gaveUp : conn[k] \in {"none", "off"}
        BY DEF StopLeavesNothing
    <2>1. worker = "none" /\ ~running /\ Finished
        BY IdleFields DEF Inv, AppOK
    <2>2. ASSUME NEW k \in Clients \ gaveUp PROVE conn[k] \in {"none", "off"}
        <3>1. CASE k = cur
            BY <2>1, <3>1 DEF Finished, Clients
        <3>2. CASE k # cur
            BY <3>2 DEF Inv, PahoOK
        <3> QED BY <3>1, <3>2
    <2>3. subs = {}
        BY <2>1 DEF Inv, SubsOK, Finished, Up
    <2> QED BY <2>1, <2>2, <2>3
<1> QED BY <1>1, ClientInvariant, PTL

\* handleReconnect restores all subscriptions: a client on which nobody is
\* working and whose connection is up has all its filters at the broker, unless
\* the last subscribeLocked reported an error.
THEOREM FiltersRestored == Spec => []Restored
<1>1. Inv => Restored
    <2> SUFFICES ASSUME Inv, Quiet, Up(cur), restoreOK PROVE subs = Filters
        BY DEF Restored
    <2>1. \A p \in Procs : th[p].pc \in {"idle", "done"}
        BY DEF Quiet, Busy
    <2>2. started /\ holder \in Procs \cup {Nobody}
        BY DEF Quiet, Inv, Base, TypeOK
    <2>3. th[App].pc = "idle"
        BY <2>1, ProcFacts DEF Inv, Base, PlaceOK, AppPlaces
    <2>4. holder = Nobody
        BY <2>1, <2>2, <2>3, ProcFacts DEF Inv, Base, LockOK
    <2>5. ~Repair
        BY <2>1, ProcFacts DEF Repair, OnConnects
    <2> QED BY <2>2, <2>4, <2>5 DEF Inv, RestoreInv
<1> QED BY <1>1, ClientInvariant, PTL
=============================================================================
