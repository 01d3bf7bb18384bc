------------------------- MODULE MqttDispatchProofs -------------------------
(***************************************************************************)
(* Proofs about MqttDispatch, for any number of AGVs, routes and messages  *)
(* and any queue size: its invariants, the order and the losses, and that  *)
(* it implements OrderedLanes.                                             *)
(***************************************************************************)
EXTENDS MqttDispatch, TLAPS

(***************************************************************************)
(* The callback works on the last arrival; between the lookup of a queue   *)
(* and the send it holds a route.                                          *)
(***************************************************************************)
CallbackOK ==
    /\ cbPc # "idle" => Last >= 1
    /\ cbPc \in {"send", "blocked"} => cbRoute \in Routes

TypeInv == TypeOK /\ CallbackOK

\* classify.go: every queued topic has a queue.
LEMMA QueueKeyType ==
    ASSUME NEW a \in AGVs, NEW ch \in Channels
    PROVE  QueueKey(a, ch) \in Keys
BY DEF QueueKey, Keys

\* Recording a fate keeps the history well formed.
LEMMA SetFateType ==
    ASSUME TypeOK, NEW S, NEW f \in Fates
    PROVE  SetFate(S, f) \in [Items -> Fates]
BY DEF SetFate, TypeOK

\* The message the callback works on.
LEMMA CurrentType ==
    ASSUME TypeInv, cbPc # "idle"
    PROVE  /\ Last \in Ids
           /\ Current \in Messages
           /\ Current.agv \in AGVs /\ Current.ch \in Channels
           /\ QueueKey(Current.agv, Current.ch) \in Keys
<1>1. Last \in Ids
  BY ConstantsAssumption DEF TypeInv, TypeOK, CallbackOK, Last, Ids
<1>2. Current \in Messages
  BY <1>1 DEF TypeInv, TypeOK, Last, Current, Ids
<1>3. Current.agv \in AGVs /\ Current.ch \in Channels
  BY <1>2 DEF Messages
<1> QED BY <1>1, <1>2, <1>3, QueueKeyType

\* Init establishes the types.
LEMMA TypeInit == Init => TypeInv
<1> SUFFICES ASSUME Init PROVE TypeInv
  OBVIOUS
<1>1. queue \in [Keys -> Seq(Items)] /\ \A k \in Keys : Len(queue[k]) <= QSize
  BY ConstantsAssumption DEF Init
<1>2. sent \in Seq(Messages) /\ Len(sent) <= MaxMsgs
  BY ConstantsAssumption DEF Init
<1> QED BY <1>1, <1>2 DEF Init, TypeInv, TypeOK, CallbackOK, Phases, Fates

\* Every step preserves the types and what the callback holds.
LEMMA TypeNext == TypeInv /\ [Next]_vars => TypeInv'
<1> SUFFICES ASSUME TypeInv, [Next]_vars PROVE TypeInv'
  OBVIOUS
<1> USE ConstantsAssumption
<1>1. ASSUME NEW a \in AGVs, NEW ch \in Channels, Deliver(a, ch)
      PROVE  TypeInv'
  <2> DEFINE matching == {r \in Routes : ch \in RouteChannels[r]}
  <2>1. fate' \in [Items -> Fates]
    BY <1>1, SetFateType DEF Deliver, TypeInv, Fates, Pending
  <2>2. sent' \in Seq(Messages) /\ Len(sent') = Len(sent) + 1
    BY <1>1 DEF Deliver, TypeInv, TypeOK, Messages
  <2>3. Len(sent') <= MaxMsgs /\ Len(sent') >= 1
    BY <1>1, <2>2 DEF Deliver, TypeInv, TypeOK, Last
  <2> QED BY <1>1, <2>1, <2>2, <2>3
          DEF Deliver, TypeInv, TypeOK, CallbackOK, Last
<1>2. ASSUME NEW r \in Routes, EnqueueConnection(r)
      PROVE  TypeInv'
  <2>0. Last \in Ids /\ Current.agv \in AGVs /\ <<Last, r>> \in Items
    BY <1>2, CurrentType DEF EnqueueConnection, Items
  <2>1. fate' \in [Items -> Fates]
    <3>1. CASE phase = "running"
      BY <1>2, <3>1 DEF EnqueueConnection, TypeInv, TypeOK, Fates, Pending
    <3>2. CASE phase # "running"
      BY <1>2, <3>2, SetFateType DEF EnqueueConnection, TypeInv, Fates
    <3> QED BY <3>1, <3>2
  <2>2. connLatest' \in [AGVs -> Items \cup {None}]
    BY <1>2, <2>0 DEF EnqueueConnection, Coalesce, TypeInv, TypeOK
  <2> QED BY <1>2, <2>1, <2>2
          DEF EnqueueConnection, NextRoute, TypeInv, TypeOK, CallbackOK, Last
<1>3. CASE Signal
  BY <1>3 DEF Signal, WakeTokens, NextRoute, TypeInv, TypeOK, CallbackOK, Last
<1>4. ASSUME NEW r \in Routes, QueueFor(r)
      PROVE  TypeInv'
  <2>0. QueueKey(Current.agv, Current.ch) \in Keys
    BY <1>4, CurrentType DEF QueueFor
  <2>1. fate' \in [Items -> Fates]
    BY <1>4, SetFateType DEF QueueFor, TypeInv, TypeOK, Fates
  <2>2. wpc' \in [Workers -> {"none", "select", "drain", "handling"}]
    BY <1>4, <2>0 DEF QueueFor, TypeInv, TypeOK, Workers
  <2> QED BY <1>4, <2>1, <2>2
          DEF QueueFor, NextRoute, TypeInv, TypeOK, CallbackOK, Last
<1>5. ASSUME NEW k \in Keys, ~Full(k), cbPc \in {"send", "blocked"}, PutCurrent(k)
      PROVE  /\ queue' \in [Keys -> Seq(Items)]
             /\ \A l \in Keys : Len(queue'[l]) <= QSize
             /\ fate' \in [Items -> Fates]
  <2>1. <<Last, cbRoute>> \in Items
    BY <1>5, CurrentType DEF TypeInv, CallbackOK, Items
  <2>2. fate' \in [Items -> Fates]
    BY <1>5, SetFateType DEF PutCurrent, Discard, TypeInv, Fates, Pending
  <2>3. queue[k] \in Seq(Items) /\ Len(queue[k]) < QSize
    BY <1>5 DEF Full, TypeInv, TypeOK
  <2>4. /\ Append(queue[k], <<Last, cbRoute>>) \in Seq(Items)
        /\ Len(Append(queue[k], <<Last, cbRoute>>)) <= QSize
    BY <2>1, <2>3
  <2>5. CASE phase = "stopped"
    BY <1>5, <2>2, <2>5 DEF PutCurrent, Discard, TypeInv, TypeOK
  <2>6. CASE phase # "stopped"
    BY <1>5, <2>2, <2>4, <2>6 DEF PutCurrent, TypeInv, TypeOK
  <2> QED BY <2>5, <2>6
<1>6. CASE Send
  <2> DEFINE k == QueueKey(Current.agv, Current.ch)
  <2>0. k \in Keys
    BY <1>6, CurrentType DEF Send
  <2>1. CASE ~Full(k) /\ PutCurrent(k) /\ EnqueueReturns
    BY <1>5, <1>6, <2>0, <2>1
       DEF Send, EnqueueReturns, NextRoute, TypeInv, TypeOK, CallbackOK, Last
  <2>2. CASE Discard("dropped") /\ EnqueueReturns
    BY <1>6, <2>2, SetFateType
       DEF Send, Discard, EnqueueReturns, NextRoute, TypeInv, TypeOK,
           CallbackOK, Last, Fates
  <2>3. CASE cbPc' = "blocked" /\ UNCHANGED <<cbRoute, queue, fate>>
    BY <1>6, <2>3 DEF Send, TypeInv, TypeOK, CallbackOK, Last
  <2> QED BY <1>6, <2>1, <2>2, <2>3 DEF Send
<1>7. CASE Unblock
  <2> DEFINE k == QueueKey(Current.agv, Current.ch)
  <2>0. k \in Keys
    BY <1>7, CurrentType DEF Unblock
  <2>1. CASE ~Full(k) /\ PutCurrent(k)
    BY <1>5, <1>7, <2>0, <2>1
       DEF Unblock, EnqueueReturns, NextRoute, TypeInv, TypeOK, CallbackOK, Last
  <2>2. CASE Discard("stopped")
    BY <1>7, <2>2, SetFateType
       DEF Unblock, Discard, EnqueueReturns, NextRoute, TypeInv, TypeOK,
           CallbackOK, Last, Fates
  <2> QED BY <1>7, <2>1, <2>2 DEF Unblock
<1>8. ASSUME NEW k \in Keys, TakeQueue(k)
      PROVE  TypeInv'
  <2>1. queue[k] \in Seq(Items) /\ queue[k] # << >> /\ Len(queue[k]) <= QSize
    BY <1>8 DEF TakeQueue, TypeInv, TypeOK
  <2>2. Tail(queue[k]) \in Seq(Items) /\ Len(Tail(queue[k])) <= QSize
    BY <2>1
  <2>3. fate' \in [Items -> Fates]
    BY <1>8, SetFateType DEF TakeQueue, TypeInv, Fates
  <2>4. wpc' \in [Workers -> {"none", "select", "drain", "handling"}]
    BY <1>8 DEF TakeQueue, TypeInv, TypeOK
  <2>5. queue' \in [Keys -> Seq(Items)] /\ \A l \in Keys : Len(queue'[l]) <= QSize
    BY <1>8, <2>2 DEF TakeQueue, TypeInv, TypeOK
  <2> QED BY <1>8, <2>3, <2>4, <2>5
          DEF TakeQueue, TypeInv, TypeOK, CallbackOK, Last, cbVars
<1>9. CASE TakeWake \/ DrainEnd
  BY <1>9 DEF TakeWake, DrainEnd, TypeInv, TypeOK, CallbackOK, Last, cbVars
<1>10. ASSUME NEW a \in AGVs, TakeConn(a)
       PROVE  TypeInv'
  <2>1. fate' \in [Items -> Fates]
    BY <1>10, SetFateType DEF TakeConn, TypeInv, Fates
  <2> QED BY <1>10, <2>1 DEF TakeConn, TypeInv, TypeOK, CallbackOK, Last, cbVars
<1>11. ASSUME NEW w \in Workers, HandlerReturns(w) \/ Exit(w)
       PROVE  TypeInv'
  BY <1>11 DEF HandlerReturns, AfterHandler, Exit, Leaves, TypeInv, TypeOK, CallbackOK,
               Last, cbVars
<1>12. CASE StartDispatch
  <2>1. queue' \in [Keys -> Seq(Items)] /\ \A l \in Keys : Len(queue'[l]) <= QSize
    BY <1>12 DEF StartDispatch
  <2> QED BY <1>12, <2>1
          DEF StartDispatch, TypeInv, TypeOK, CallbackOK, Last, cbVars, Phases
<1>13. CASE Connected \/ ConnectFailed \/ StopCancel \/ StopDisconnect
  BY <1>13 DEF Connected, ConnectFailed, StopCancel, StopDisconnect, TypeInv,
               TypeOK, CallbackOK, Last, cbVars, Phases
<1>14. CASE StopLock
  <2>1. fate' \in [Items -> Fates]
    BY <1>14, SetFateType DEF StopLock, TypeInv, Fates
  <2> QED BY <1>14, <2>1
          DEF StopLock, TypeInv, TypeOK, CallbackOK, Last, cbVars, Phases
<1>15. CASE StopWait
  <2>1. fate' \in [Items -> Fates]
    BY <1>15, SetFateType DEF StopWait, TypeInv, Fates
  <2>2. queue' \in [Keys -> Seq(Items)] /\ \A l \in Keys : Len(queue'[l]) <= QSize
    BY <1>15 DEF StopWait
  <2> QED BY <1>15, <2>1, <2>2
          DEF StopWait, TypeInv, TypeOK, CallbackOK, Last, cbVars, Phases
<1>16. CASE UNCHANGED vars
  BY <1>16 DEF vars, cbVars, TypeInv, TypeOK, CallbackOK, Last
<1> QED
  BY <1>1, <1>2, <1>3, <1>4, <1>6, <1>7, <1>8, <1>9, <1>10, <1>11, <1>12,
     <1>13, <1>14, <1>15, <1>16
     DEF Next, Callback, Worker, ConnWorker, Stop

\* Every step keeps the dispatcher's state well formed; in particular a shard
\* or the topic queue never holds more than InboundQueueSize messages.
THEOREM TypeCorrect == Spec => []TypeOK
<1>1. Init => TypeInv
  BY TypeInit
<1>2. TypeInv /\ [Next]_vars => TypeInv'
  BY TypeNext
<1>3. TypeInv => TypeOK
  BY DEF TypeInv
<1> QED BY <1>1, <1>2, <1>3, PTL DEF Spec

-----------------------------------------------------------------------------
(***************************************************************************)
(* No lost wake-up.  Only a running transport has pending connection       *)
(* messages: Stop takes the map away before it stops anything else.        *)
(***************************************************************************)
PendingOnlyRunning ==
    phase # "running" => \A a \in AGVs : connLatest[a] = None

WakeInv == PendingOnlyRunning /\ NoLostWakeup

\* Every step preserves the wake-up of the connection worker.
LEMMA WakeNext == TypeInv /\ WakeInv /\ [Next]_vars => WakeInv'
<1> SUFFICES ASSUME TypeInv, WakeInv, [Next]_vars PROVE WakeInv'
  OBVIOUS
<1> USE ConstantsAssumption DEF WakeInv, PendingOnlyRunning, NoLostWakeup
<1>1. ASSUME NEW a \in AGVs, NEW ch \in Channels, Deliver(a, ch)
      PROVE  WakeInv'
  BY <1>1 DEF Deliver
<1>2. ASSUME NEW r \in Routes, EnqueueConnection(r)
      PROVE  WakeInv'
  BY <1>2 DEF EnqueueConnection
<1>3. CASE Signal
  BY <1>3 DEF Signal, WakeTokens
<1>4. ASSUME NEW r \in Routes, QueueFor(r)
      PROVE  WakeInv'
  <2>1. QueueKey(Current.agv, Current.ch) # Conn
    BY <1>4, CurrentType DEF QueueFor
  <2>2. wpc'[Conn] = wpc[Conn]
    BY <1>4, <2>1 DEF QueueFor, TypeInv, TypeOK, Workers
  <2> QED BY <1>4, <2>2 DEF QueueFor
<1>5. CASE Send \/ Unblock
  BY <1>5 DEF Send, Unblock
<1>6. ASSUME NEW k \in Keys, TakeQueue(k)
      PROVE  WakeInv'
  BY <1>6 DEF TakeQueue, cbVars, TypeInv, TypeOK, Workers
<1>7. CASE TakeWake \/ DrainEnd
  BY <1>7 DEF TakeWake, DrainEnd, cbVars, TypeInv, TypeOK, Workers
<1>8. ASSUME NEW a \in AGVs, TakeConn(a)
      PROVE  WakeInv'
  BY <1>8 DEF TakeConn, cbVars, TypeInv, TypeOK, Workers
<1>9. ASSUME NEW w \in Workers, HandlerReturns(w) \/ Exit(w)
      PROVE  WakeInv'
  BY <1>9 DEF HandlerReturns, AfterHandler, Exit, Leaves, CtxDone, cbVars, TypeInv,
              TypeOK, Workers
<1>10. CASE StartDispatch \/ Connected \/ ConnectFailed
  BY <1>10 DEF StartDispatch, Connected, ConnectFailed
<1>11. CASE StopLock \/ Stop
  BY <1>11 DEF StopLock, Stop, StopCancel, StopDisconnect, StopWait
<1>12. CASE UNCHANGED vars
  BY <1>12 DEF vars, cbVars
<1> QED
  BY <1>1, <1>2, <1>3, <1>4, <1>5, <1>6, <1>7, <1>8, <1>9, <1>10, <1>11, <1>12
     DEF Next, Callback, Worker, ConnWorker

\* The connection worker is never asleep with a message pending and no
\* wake-up on its way, although enqueueConnection signals outside the lock.
THEOREM WakeupSafe == Spec => []NoLostWakeup
<1>1. Init => TypeInv /\ WakeInv
  BY TypeInit DEF Init, WakeInv, PendingOnlyRunning, NoLostWakeup
<1>2. TypeInv /\ WakeInv /\ [Next]_vars => TypeInv' /\ WakeInv'
  BY TypeNext, WakeNext
<1>3. WakeInv => NoLostWakeup
  BY DEF WakeInv
<1> QED BY <1>1, <1>2, <1>3, PTL DEF Spec

-----------------------------------------------------------------------------
(***************************************************************************)
(* Order.  NoOvertaking is not inductive: a step of a worker keeps it only *)
(* because queues are sorted by arrival and hold all that waits.           *)
(***************************************************************************)
\* What the callback has not passed on belongs to the last arrival.
CallbackHolds ==
    /\ cbPc = "idle" => cbTodo = {}
    /\ \A it \in Items : fate[it] = "cb" =>
          /\ it[1] = Last
          /\ it[2] \in cbTodo \/ (cbPc \in {"send", "blocked"} /\ it[2] = cbRoute)

\* A queue holds messages that arrived, of its own lane, oldest first.
QueuesSorted ==
    \A k \in Keys : \A p \in 1 .. Len(queue[k]) :
        /\ queue[k][p][1] <= Last
        /\ Lane(sent[queue[k][p][1]].ch) # "connection"
        /\ QueueKey(sent[queue[k][p][1]].agv, sent[queue[k][p][1]].ch) = k
        /\ \A q \in p .. Len(queue[k]) : queue[k][p][1] <= queue[k][q][1]

\* The entry of an AGV in connLatest is a connection message of that AGV.
ConnKeyed ==
    \A a \in AGVs : connLatest[a] # None =>
        /\ connLatest[a][1] <= Last
        /\ sent[connLatest[a][1]].ch = "connection"
        /\ sent[connLatest[a][1]].agv = a

\* A message that waits is on its lane.
Waits(it, m) ==
    IF Lane(m.ch) = "connection" THEN connLatest[m.agv] = it
    ELSE \E p \in 1 .. Len(queue[QueueKey(m.agv, m.ch)]) :
             queue[QueueKey(m.agv, m.ch)][p] = it

WaitsOnItsLane ==
    \A it \in Items : fate[it] = "queued" =>
        it[1] <= Last /\ Waits(it, sent[it[1]])

\* Nothing has happened to a message that has not arrived.
FutureUntouched == \A it \in Items : it[1] > Last => fate[it] = "none"

\* No callback is under way in Start, and nothing is queued before a transport
\* runs; the callback holds a queue only for a message that has one.
PhaseInv ==
    /\ phase = "connecting" => cbPc = "idle"
    /\ phase \in {"stopped", "connecting"} => \A k \in Keys : queue[k] = << >>
    /\ cbPc \in {"send", "blocked"} => Lane(Current.ch) # "connection"

OrderInv ==
    /\ CallbackHolds /\ QueuesSorted /\ ConnKeyed
    /\ WaitsOnItsLane /\ FutureUntouched /\ NoOvertaking

\* The inductive invariant.
Inv == TypeInv /\ WakeInv /\ PhaseInv /\ OrderInv

\* Every step preserves what Start and Stop need of the callback and the queues.
LEMMA PhaseNext == Inv /\ [Next]_vars => PhaseInv'
<1> SUFFICES ASSUME Inv, [Next]_vars PROVE PhaseInv'
  OBVIOUS
<1> USE ConstantsAssumption DEF Inv, PhaseInv, Current, Last
<1>1. ASSUME NEW a \in AGVs, NEW ch \in Channels, Deliver(a, ch)
      PROVE  PhaseInv'
  BY <1>1 DEF Deliver
<1>2. CASE Callback
  <2>1. ASSUME NEW r \in Routes, EnqueueConnection(r)
        PROVE  PhaseInv'
    BY <2>1 DEF EnqueueConnection, NextRoute
  <2>2. ASSUME NEW r \in Routes, QueueFor(r)
        PROVE  PhaseInv'
    BY <2>2 DEF QueueFor, NextRoute
  <2>3. CASE Signal
    BY <2>3 DEF Signal, NextRoute
  <2>4. CASE Send \/ Unblock
    BY <2>4 DEF Send, Unblock, PutCurrent, Discard, EnqueueReturns, NextRoute
  <2> QED BY <1>2, <2>1, <2>2, <2>3, <2>4 DEF Callback
<1>3. ASSUME NEW w \in Workers, Worker(w)
      PROVE  PhaseInv'
  <2>1. CASE w \in Keys /\ TakeQueue(w)
    BY <2>1 DEF TakeQueue, cbVars
  <2>2. CASE HandlerReturns(w) \/ Exit(w) \/ ConnWorker
    BY <2>2 DEF HandlerReturns, Exit, Leaves, ConnWorker, TakeWake, TakeConn, DrainEnd,
                cbVars
  <2> QED BY <1>3, <2>1, <2>2 DEF Worker
<1>4. CASE StartDispatch \/ Connected \/ ConnectFailed \/ StopLock \/ Stop
  BY <1>4 DEF StartDispatch, Connected, ConnectFailed, StopLock, Stop,
              StopCancel, StopDisconnect, StopWait, cbVars
<1>5. CASE UNCHANGED vars
  BY <1>5 DEF vars, cbVars
<1> QED BY <1>1, <1>2, <1>3, <1>4, <1>5 DEF Next

\* Messages with one owner are in one queue, or under one key of connLatest.
LEMMA OwnerLane ==
    ASSUME NEW m1 \in Messages, NEW m2 \in Messages, Owner(m1) = Owner(m2)
    PROVE  /\ Lane(m1.ch) = "connection" <=> Lane(m2.ch) = "connection"
           /\ Lane(m1.ch) = "connection" => m1.agv = m2.agv
           /\ QueueKey(m1.agv, m1.ch) = QueueKey(m2.agv, m2.ch)
BY DEF Owner, Lane, QueueKey, Messages, Channels

\* Only connection states take the coalescing lane.
LEMMA LaneConnection ==
    ASSUME NEW ch \in Channels
    PROVE  Lane(ch) = "connection" <=> ch = "connection"
BY DEF Lane, Channels

\* Every message that arrived is well formed.
LEMMA SentType ==
    ASSUME TypeInv, NEW i \in 1 .. Last
    PROVE  /\ i \in Ids /\ sent[i] \in Messages
           /\ sent[i].agv \in AGVs /\ sent[i].ch \in Channels
           /\ QueueKey(sent[i].agv, sent[i].ch) \in Keys
<1>1. i \in Ids /\ sent[i] \in Messages
  BY ConstantsAssumption DEF TypeInv, TypeOK, Last, Ids
<1> QED BY <1>1, QueueKeyType DEF Messages

\* An arrival is the newest message of its lane.
LEMMA OrderDeliver ==
    ASSUME Inv, NEW a \in AGVs, NEW ch \in Channels, Deliver(a, ch)
    PROVE  OrderInv'
<1> USE ConstantsAssumption DEF Inv
<1> DEFINE matching == {r \in Routes : ch \in RouteChannels[r]}
<1>1. /\ Last \in Nat /\ Last' = Last + 1 /\ Last + 1 \in Ids
      /\ \A i \in 1 .. Last : sent'[i] = sent[i]
  BY DEF Deliver, TypeInv, TypeOK, Last, Ids
<1>2. \A it \in Items : fate[it] # "cb"
  BY DEF Deliver, OrderInv, CallbackHolds
<1>3. \A it \in Items :
        /\ it[1] \in Ids /\ it[2] \in Routes
        /\ it[1] <= Last => fate'[it] = fate[it]
        /\ it[1] > Last => fate'[it] \in {"none", "cb"}
        /\ it[1] > Last + 1 => fate'[it] = "none"
        /\ fate'[it] = "cb" => it[1] = Last + 1 /\ it[2] \in matching
  BY <1>1, <1>2 DEF Deliver, SetFate, OrderInv, FutureUntouched, Items, Ids
<1>4. CallbackHolds'
  BY <1>1, <1>3 DEF Deliver, CallbackHolds
<1>5. QueuesSorted'
  <2> SUFFICES ASSUME NEW k \in Keys, NEW p \in 1 .. Len(queue[k])
               PROVE  /\ queue[k][p][1] <= Last'
                      /\ Lane(sent'[queue[k][p][1]].ch) # "connection"
                      /\ QueueKey(sent'[queue[k][p][1]].agv,
                                  sent'[queue[k][p][1]].ch) = k
                      /\ \A q \in p .. Len(queue[k]) :
                            queue[k][p][1] <= queue[k][q][1]
    BY DEF Deliver, QueuesSorted
  <2>1. queue[k][p] \in Items
    BY DEF TypeInv, TypeOK
  <2>2. queue[k][p][1] \in 1 .. Last
    BY <2>1, <1>1 DEF OrderInv, QueuesSorted, Items, Ids
  <2> QED BY <2>2, <1>1 DEF OrderInv, QueuesSorted
<1>6. ConnKeyed'
  <2> SUFFICES ASSUME NEW b \in AGVs, connLatest[b] # None
               PROVE  /\ connLatest[b][1] <= Last'
                      /\ sent'[connLatest[b][1]].ch = "connection"
                      /\ sent'[connLatest[b][1]].agv = b
    BY DEF Deliver, ConnKeyed
  <2>1. connLatest[b] \in Items
    BY DEF TypeInv, TypeOK
  <2>2. connLatest[b][1] \in 1 .. Last
    BY <2>1, <1>1 DEF OrderInv, ConnKeyed, Items, Ids
  <2> QED BY <2>2, <1>1 DEF OrderInv, ConnKeyed
<1>7. WaitsOnItsLane'
  <2> SUFFICES ASSUME NEW it \in Items, fate'[it] = "queued"
               PROVE  it[1] <= Last' /\ Waits(it, sent'[it[1]])
    BY ZenonT(60) DEF Deliver, WaitsOnItsLane, Waits
  <2>1. it[1] \in 1 .. Last /\ fate[it] = "queued"
    BY <1>1, <1>3 DEF Ids
  <2> QED BY <2>1, <1>1 DEF OrderInv, WaitsOnItsLane
<1>8. FutureUntouched'
  BY <1>1, <1>3 DEF FutureUntouched, Ids
<1>9. NoOvertaking'
  <2> SUFFICES ASSUME NEW i \in 1 .. Last', NEW j \in 1 .. Last',
                      NEW r \in Routes, NEW q \in Routes,
                      i < j, Owner(sent'[i]) = Owner(sent'[j]),
                      fate'[<<j, q>>] = "delivered"
               PROVE  fate'[<<i, r>>] \notin Pending
    BY DEF NoOvertaking
  <2>1. <<j, q>> \in Items /\ <<i, r>> \in Items
    BY <1>1 DEF Items, Ids
  <2>2. j <= Last
    BY <1>1, <1>3, <2>1
  <2> QED BY <1>1, <1>3, <2>1, <2>2 DEF OrderInv, NoOvertaking
<1> QED BY <1>4, <1>5, <1>6, <1>7, <1>8, <1>9 DEF OrderInv

(***************************************************************************)
(* A step that records fates but lets nothing arrive and nothing be        *)
(* handled keeps the order: only what the last arrival becomes is new.     *)
(***************************************************************************)
LEMMA OrderNoDelivery ==
    ASSUME Inv, sent' = sent, 
           \A it \in Items :
               /\ fate'[it] = "delivered" => fate[it] = "delivered"
               /\ fate'[it] \in Pending => it[1] = Last \/ fate[it] \in Pending
    PROVE  NoOvertaking'
<1> SUFFICES ASSUME NEW i \in 1 .. Last', NEW j \in 1 .. Last',
                    NEW r \in Routes, NEW q \in Routes,
                    i < j, Owner(sent'[i]) = Owner(sent'[j]),
                    fate'[<<j, q>>] = "delivered"
             PROVE  fate'[<<i, r>>] \notin Pending
  BY DEF NoOvertaking
<1>1. Last' = Last /\ Last \in Nat
  BY DEF Last, Inv, TypeInv, TypeOK
<1>2. <<j, q>> \in Items /\ <<i, r>> \in Items
  BY <1>1, SentType DEF Items, Inv
<1> QED BY <1>1, <1>2 DEF Inv, OrderInv, NoOvertaking

\* enqueueConnection replaces an older state by the newest one.
LEMMA OrderEnqueueConnection ==
    ASSUME Inv, NEW r \in Routes, EnqueueConnection(r)
    PROVE  OrderInv'
<1> USE ConstantsAssumption DEF Inv
<1> DEFINE a == Current.agv
           new == <<Last, r>>
           old == connLatest[a]
<1>1. /\ Last \in Nat /\ Last' = Last /\ sent' = sent /\ queue' = queue
      /\ Last \in Ids /\ a \in AGVs /\ Current = sent[Last] /\ new \in Items
      /\ Current.ch = "connection" /\ fate \in [Items -> Fates]
  BY CurrentType, LaneConnection
     DEF EnqueueConnection, Last, Current, Items, TypeInv, TypeOK
<1>2. CallbackHolds'
  <2>1. \A it \in Items : it[1] = Last /\ it[2] = r => it = new
    BY DEF Items
  <2>2. \A it \in Items : fate'[it] = "cb" => fate[it] = "cb" /\ it # new
    BY <1>1 DEF EnqueueConnection, Coalesce, SetFate
  <2>3. \A it \in Items : fate'[it] = "cb" => it[1] = Last /\ it[2] \in cbTodo'
    BY <2>1, <2>2 DEF EnqueueConnection, OrderInv, CallbackHolds
  <2>4. cbPc' = "idle" => cbTodo' = {}
    BY DEF EnqueueConnection, NextRoute
  <2> QED BY <1>1, <2>3, <2>4 DEF CallbackHolds
<1>3. QueuesSorted'
  BY <1>1 DEF OrderInv, QueuesSorted
<1>4. ConnKeyed'
  <2>1. \A b \in AGVs : connLatest'[b] = connLatest[b] \/ (b = a /\ connLatest'[b] = new)
    BY <1>1 DEF EnqueueConnection, Coalesce, TypeInv, TypeOK
  <2> QED BY <1>1, <2>1 DEF OrderInv, ConnKeyed
<1>5. WaitsOnItsLane'
  <2> SUFFICES ASSUME NEW it \in Items, fate'[it] = "queued"
               PROVE  it[1] <= Last /\ Waits(it, sent[it[1]])'
    BY <1>1 DEF WaitsOnItsLane
  <2>1. CASE phase = "running"
    <3>1. connLatest' = [connLatest EXCEPT ![a] = new] /\ connLatest'[a] = new
      BY <1>1, <2>1 DEF EnqueueConnection, Coalesce, TypeInv, TypeOK
    <3>2. CASE it = new
      BY <1>1, <3>1, <3>2 DEF Waits, Lane
    <3>3. CASE it # new
      <4>1. fate[it] = "queued" /\ it # old
        BY <1>1, <2>1, <3>3 DEF EnqueueConnection, Coalesce
      <4>2. it[1] \in 1 .. Last /\ Waits(it, sent[it[1]])
        BY <4>1, <1>1 DEF OrderInv, WaitsOnItsLane, Items, Ids
      <4>3. CASE Lane(sent[it[1]].ch) = "connection"
        BY <4>1, <4>2, <4>3, <3>1, <1>1, SentType, SMTT(30) DEF Waits, TypeInv, TypeOK
      <4>4. CASE Lane(sent[it[1]].ch) # "connection"
        BY <4>2, <4>4, <1>1 DEF Waits
      <4> QED BY <4>3, <4>4, <4>2
    <3> QED BY <3>2, <3>3
  <2>2. CASE phase # "running"
    <3>1. fate[it] = "queued" /\ connLatest' = connLatest
      BY <1>1, <2>2 DEF EnqueueConnection, SetFate
    <3> QED BY <1>1, <3>1 DEF OrderInv, WaitsOnItsLane, Waits
  <2> QED BY <2>1, <2>2
<1>6. FutureUntouched'
  <2>1. old = None \/ (old \in Items /\ old[1] <= Last)
    BY <1>1 DEF OrderInv, ConnKeyed, TypeInv, TypeOK
  <2>2. \A it \in Items : it[1] > Last => it # old /\ it # new /\ it[1] \in Nat
    BY <2>1, <1>1 DEF Items, Ids
  <2> QED BY <1>1, <2>2
          DEF EnqueueConnection, Coalesce, SetFate, OrderInv, FutureUntouched
<1>7. NoOvertaking'
  <2>1. \A it \in Items :
               /\ fate'[it] = "delivered" => fate[it] = "delivered"
               /\ fate'[it] \in Pending => it[1] = Last \/ fate[it] \in Pending
    BY <1>1 DEF EnqueueConnection, Coalesce, SetFate, Pending
  <2> QED BY <1>1, <2>1, OrderNoDelivery
<1> QED BY <1>2, <1>3, <1>4, <1>5, <1>6, <1>7 DEF OrderInv

\* Steps that leave the lanes and the history alone.
LEMMA OrderFrame ==
    ASSUME Inv, UNCHANGED <<sent, queue, connLatest, fate>>, CallbackHolds'
    PROVE  OrderInv'
BY DEF Inv, OrderInv, QueuesSorted, ConnKeyed, WaitsOnItsLane, Waits,
       FutureUntouched, NoOvertaking, Last

\* Steps that give up the message the callback holds.
LEMMA OrderGiveUp ==
    ASSUME Inv, NEW it0 \in Items, NEW f \in {"stopped", "dropped"},
           it0[1] = Last, UNCHANGED <<sent, queue, connLatest>>,
           fate' = SetFate({it0}, f), CallbackHolds'
    PROVE  OrderInv'
<1>1. \A it \in Items : fate'[it] = fate[it] \/ (it = it0 /\ fate'[it] = f)
  BY DEF SetFate
<1>2. Last' = Last
  BY DEF Last
<1>3. QueuesSorted' /\ ConnKeyed'
  BY <1>2 DEF Inv, OrderInv, QueuesSorted, ConnKeyed
<1>4. WaitsOnItsLane'
  BY <1>1, <1>2 DEF Inv, OrderInv, WaitsOnItsLane, Waits
<1>5. FutureUntouched'
  <2>1. Last \in Nat
    BY DEF Inv, TypeInv, TypeOK, Last
  <2> QED BY <1>1, <1>2, <2>1 DEF Inv, OrderInv, FutureUntouched
<1>6. NoOvertaking'
  BY <1>1, OrderNoDelivery DEF Pending
<1> QED BY <1>3, <1>4, <1>5, <1>6 DEF OrderInv

\* The signal touches no lane.
LEMMA OrderSignal ==
    ASSUME Inv, Signal
    PROVE  OrderInv'
<1>1. CallbackHolds'
  BY DEF Inv, OrderInv, CallbackHolds, Signal, NextRoute, Last
<1> QED BY <1>1, OrderFrame DEF Signal

\* queueFor takes the message in hand, or gives it up.
LEMMA OrderQueueFor ==
    ASSUME Inv, NEW r \in Routes, QueueFor(r)
    PROVE  OrderInv'
<1>1. <<Last, r>> \in Items /\ Last' = Last
  BY CurrentType DEF QueueFor, Inv, Items, Last
<1>2. CASE phase = "running"
  <2>1. CallbackHolds'
    BY <1>1, <1>2 DEF Inv, OrderInv, CallbackHolds, QueueFor
  <2> QED BY <1>2, <2>1, OrderFrame DEF QueueFor
<1>3. CASE phase # "running"
  <2>1. \A it \in Items : fate'[it] = "cb" => fate[it] = "cb" /\ it # <<Last, r>>
    BY <1>1, <1>3 DEF QueueFor, SetFate
  <2>2. \A it \in Items : it[1] = Last /\ it[2] = r => it = <<Last, r>>
    BY DEF Items
  <2>3. CallbackHolds'
    BY <1>1, <1>3, <2>1, <2>2 DEF Inv, OrderInv, CallbackHolds, QueueFor, NextRoute
  <2> QED BY <1>1, <1>3, <2>3, OrderGiveUp DEF QueueFor
<1> QED BY <1>2, <1>3

\* enqueue returns with the message it held on a queue or given up.
LEMMA CallbackLetsGo ==
    ASSUME Inv, cbPc \in {"send", "blocked"}, EnqueueReturns, UNCHANGED <<sent, cbTodo>>,
           NEW f, f # "cb", fate' = SetFate({<<Last, cbRoute>>}, f)
    PROVE  CallbackHolds'
<1>1. <<Last, cbRoute>> \in Items /\ Last' = Last
  BY CurrentType DEF Inv, TypeInv, CallbackOK, Items, Last
<1>2. \A it \in Items : fate'[it] = "cb" => fate[it] = "cb" /\ it # <<Last, cbRoute>>
  BY <1>1 DEF SetFate
<1>3. \A it \in Items : it[1] = Last /\ it[2] = cbRoute => it = <<Last, cbRoute>>
  BY DEF Items
<1> QED BY <1>1, <1>2, <1>3 DEF Inv, OrderInv, CallbackHolds, EnqueueReturns, NextRoute

\* enqueue gives up the message it holds.
LEMMA OrderDiscard ==
    ASSUME Inv, cbPc \in {"send", "blocked"}, EnqueueReturns,
           NEW f \in {"stopped", "dropped"}, Discard(f),
           UNCHANGED <<sent, cbTodo, connLatest>>
    PROVE  OrderInv'
<1>1. <<Last, cbRoute>> \in Items
  BY CurrentType DEF Inv, TypeInv, CallbackOK, Items
<1>2. CallbackHolds'
  BY CallbackLetsGo DEF Discard
<1> QED BY <1>1, <1>2, OrderGiveUp DEF Discard

\* enqueue appends the newest message to its queue.
LEMMA OrderPut ==
    ASSUME Inv, cbPc \in {"send", "blocked"}, EnqueueReturns,
           phase # "stopped", PutCurrent(QueueKey(Current.agv, Current.ch)),
           UNCHANGED <<sent, cbTodo, connLatest>>
    PROVE  OrderInv'
<1> DEFINE k == QueueKey(Current.agv, Current.ch)
           new == <<Last, cbRoute>>
<1>1. /\ new \in Items /\ Last' = Last /\ Last \in Nat /\ Last \in 1 .. Last
      /\ k \in Keys /\ Current = sent[Last] /\ new[1] = Last
      /\ Lane(Current.ch) # "connection"
  BY CurrentType
     DEF Inv, PhaseInv, TypeInv, TypeOK, CallbackOK, Items, Last, Current, Ids
<1>2. CallbackHolds'
  BY CallbackLetsGo DEF PutCurrent
<1>3. /\ queue' = [queue EXCEPT ![k] = Append(queue[k], new)]
      /\ \A it \in Items : IF it = new THEN fate'[it] = "queued" ELSE fate'[it] = fate[it]
  BY <1>1 DEF PutCurrent, SetFate
<1>4. /\ queue[k] \in Seq(Items) /\ Len(queue[k]) \in Nat
      /\ \A l \in Keys : l # k => queue'[l] = queue[l]
      /\ Len(queue'[k]) = Len(queue[k]) + 1
      /\ \A p \in 1 .. Len(queue[k]) : queue'[k][p] = queue[k][p]
      /\ queue'[k][Len(queue[k]) + 1] = new
  BY <1>1, <1>3 DEF Inv, TypeInv, TypeOK
<1>5. QueuesSorted'
  <2> SUFFICES ASSUME NEW l \in Keys, NEW p \in 1 .. Len(queue'[l])
               PROVE  /\ queue'[l][p][1] <= Last
                      /\ Lane(sent[queue'[l][p][1]].ch) # "connection"
                      /\ QueueKey(sent[queue'[l][p][1]].agv,
                                  sent[queue'[l][p][1]].ch) = l
                      /\ \A q \in p .. Len(queue'[l]) :
                            queue'[l][p][1] <= queue'[l][q][1]
    BY <1>1 DEF QueuesSorted
  <2>1. CASE l # k
    BY <2>1, <1>4, SMTT(30) DEF Inv, OrderInv, QueuesSorted
  <2>2. CASE l = k /\ p = Len(queue[k]) + 1
    <3>1. queue'[l][p] = new /\ Len(queue'[l]) = p /\ p \in Nat
      BY <2>2, <1>4
    <3>2. \A q \in p .. Len(queue'[l]) : q = p
      BY <3>1
    <3>3. \A q \in p .. Len(queue'[l]) : queue'[l][p][1] <= queue'[l][q][1]
      <4>1. queue'[l][p][1] <= queue'[l][p][1]
        <5>1. queue'[l][p][1] = Last
          BY <3>1, <1>1
        <5>2. Last <= Last
          BY <1>1, SMTT(30)
        <5> QED BY <5>1, <5>2
      <4> QED BY <3>2, <4>1
    <3> QED BY <2>2, <3>1, <3>3, <1>1
  <2>3. CASE l = k /\ p \in 1 .. Len(queue[k])
    <3>1. /\ queue'[l][p] = queue[k][p] /\ queue[k][p][1] <= Last
          /\ Lane(sent[queue[k][p][1]].ch) # "connection"
          /\ QueueKey(sent[queue[k][p][1]].agv, sent[queue[k][p][1]].ch) = k
      BY <2>3, <1>4, <1>1, ZenonT(60) DEF Inv, OrderInv, QueuesSorted
    <3>2. ASSUME NEW q \in p .. Len(queue'[l])
          PROVE  queue'[l][p][1] <= queue'[l][q][1]
      <4>1. CASE q = Len(queue[k]) + 1
        <5>1. queue'[l][q][1] = Last
          BY <4>1, <1>4, <1>1, <2>3
        <5> QED BY <5>1, <3>1
      <4>2. CASE q \in p .. Len(queue[k])
        <5>1. q \in 1 .. Len(queue[k]) /\ queue'[l][q] = queue[k][q]
          BY <4>2, <1>4, <2>3
        <5>2. queue[k][p][1] <= queue[k][q][1]
          BY <4>2, <1>1, <2>3 DEF Inv, OrderInv, QueuesSorted
        <5> QED BY <5>1, <5>2, <3>1
      <4> QED BY <3>2, <4>1, <4>2, <1>4, <2>3
    <3> QED BY <2>3, <3>1, <3>2, SMTT(30)
  <2> QED BY <2>1, <2>2, <2>3, <1>4
<1>6. ConnKeyed'
  BY <1>1 DEF Inv, OrderInv, ConnKeyed
<1>7. WaitsOnItsLane'
  <2> SUFFICES ASSUME NEW it \in Items, fate'[it] = "queued"
               PROVE  it[1] <= Last /\ Waits(it, sent[it[1]])'
    BY <1>1 DEF WaitsOnItsLane
  <2>1. CASE it = new
    <3>1. Len(queue[k]) + 1 \in 1 .. Len(queue'[k])
      BY <1>4, SMTT(30)
    <3>2. it[1] = Last /\ queue'[k][Len(queue[k]) + 1] = it
      BY <2>1, <1>1, <1>4
    <3>3. Waits(it, sent[Last])'
      BY <3>1, <3>2, <1>1 DEF Waits
    <3> QED BY <3>2, <3>3, <1>1
  <2>2. CASE it # new
    <3>1. it[1] \in 1 .. Last /\ Waits(it, sent[it[1]])
      BY <2>2, <1>3, <1>1 DEF Inv, OrderInv, WaitsOnItsLane, Items, Ids
    <3>2. QueueKey(sent[it[1]].agv, sent[it[1]].ch) \in Keys
      BY <3>1, SentType DEF Inv
    <3>3. CASE Lane(sent[it[1]].ch) = "connection"
      BY <3>1, <3>3 DEF Waits
    <3>4. CASE Lane(sent[it[1]].ch) # "connection"
      <4> DEFINE l == QueueKey(sent[it[1]].agv, sent[it[1]].ch)
      <4>1. PICK p \in 1 .. Len(queue[l]) : queue[l][p] = it
        BY <3>1, <3>4 DEF Waits
      <4>2. p \in 1 .. Len(queue'[l]) /\ queue'[l][p] = it
        <5>1. CASE l = k
          BY <4>1, <5>1, <1>4
        <5>2. CASE l # k
          <6>1. queue'[l] = queue[l]
            BY <5>2, <3>2, <1>4
          <6> QED BY <4>1, <6>1
        <5> QED BY <5>1, <5>2
      <4> QED BY <3>1, <3>4, <4>2 DEF Waits
    <3> QED BY <3>3, <3>4
  <2> QED BY <2>1, <2>2
<1>8. FutureUntouched'
  BY <1>1, <1>3 DEF Inv, OrderInv, FutureUntouched
<1>9. NoOvertaking'
  BY <1>1, <1>3, OrderNoDelivery DEF Pending
<1> QED BY <1>2, <1>5, <1>6, <1>7, <1>8, <1>9 DEF OrderInv

\* A queue worker takes the oldest message of its queue.
LEMMA OrderTakeQueue ==
    ASSUME Inv, NEW k \in Keys, TakeQueue(k)
    PROVE  OrderInv'
<1> DEFINE head == Head(queue[k])
<1>1. /\ Last' = Last /\ Last \in Nat /\ queue[k] \in Seq(Items)
      /\ queue[k] # << >> /\ Len(queue[k]) \in Nat \ {0}
      /\ head = queue[k][1] /\ head \in Items
      /\ sent' = sent /\ connLatest' = connLatest
  BY DEF TakeQueue, Last, Inv, TypeInv, TypeOK
<1>2. /\ \A l \in Keys : l # k => queue'[l] = queue[l]
      /\ Len(queue'[k]) = Len(queue[k]) - 1
      /\ \A p \in 1 .. Len(queue[k]) - 1 : queue'[k][p] = queue[k][p + 1]
  BY <1>1 DEF TakeQueue, Inv, TypeInv, TypeOK
<1>3. \A it \in Items :
        IF it = head THEN fate'[it] = "delivered" ELSE fate'[it] = fate[it]
  BY DEF TakeQueue, SetFate
<1>4. CallbackHolds'
  BY <1>1, <1>3 DEF TakeQueue, cbVars, Inv, OrderInv, CallbackHolds
<1>5. QueuesSorted'
  <2> SUFFICES ASSUME NEW l \in Keys, NEW p \in 1 .. Len(queue'[l])
               PROVE  /\ queue'[l][p][1] <= Last
                      /\ Lane(sent[queue'[l][p][1]].ch) # "connection"
                      /\ QueueKey(sent[queue'[l][p][1]].agv,
                                  sent[queue'[l][p][1]].ch) = l
                      /\ \A q \in p .. Len(queue'[l]) :
                            queue'[l][p][1] <= queue'[l][q][1]
    BY <1>1 DEF QueuesSorted
  <2>1. CASE l # k
    BY <2>1, <1>2 DEF Inv, OrderInv, QueuesSorted
  <2>2. CASE l = k
    <3>1. p + 1 \in 1 .. Len(queue[k]) /\ queue'[l][p] = queue[k][p + 1]
      BY <2>2, <1>1, <1>2
    <3>2. ASSUME NEW q \in p .. Len(queue'[l])
          PROVE  queue'[l][p][1] <= queue'[l][q][1]
      <4>1. q + 1 \in p + 1 .. Len(queue[k]) /\ queue'[l][q] = queue[k][q + 1]
        BY <2>2, <1>1, <1>2
      <4> QED BY <3>1, <4>1 DEF Inv, OrderInv, QueuesSorted
    <3> QED BY <2>2, <3>1, <3>2 DEF Inv, OrderInv, QueuesSorted
  <2> QED BY <2>1, <2>2
<1>6. ConnKeyed'
  BY <1>1 DEF TakeQueue, Inv, OrderInv, ConnKeyed
<1>7. ASSUME NEW it \in Items, fate[it] = "queued", it # head,
             Lane(sent[it[1]].ch) # "connection",
             QueueKey(sent[it[1]].agv, sent[it[1]].ch) = k
      PROVE  \E p \in 2 .. Len(queue[k]) : queue[k][p] = it
  BY <1>1, <1>7 DEF Inv, OrderInv, WaitsOnItsLane, Waits
<1>8. WaitsOnItsLane'
  <2> SUFFICES ASSUME NEW it \in Items, fate'[it] = "queued"
               PROVE  it[1] <= Last /\ Waits(it, sent[it[1]])'
    BY <1>1 DEF WaitsOnItsLane, TakeQueue
  <2>1. /\ fate[it] = "queued" /\ it # head
        /\ it[1] \in 1 .. Last /\ Waits(it, sent[it[1]])
    BY <1>1, <1>3 DEF Inv, OrderInv, WaitsOnItsLane, Items, Ids
  <2> DEFINE l == QueueKey(sent[it[1]].agv, sent[it[1]].ch)
  <2>2. l \in Keys
    BY <2>1, SentType DEF Inv
  <2>3. CASE Lane(sent[it[1]].ch) = "connection"
    BY <2>1, <2>3 DEF Waits, TakeQueue
  <2>4. CASE Lane(sent[it[1]].ch) # "connection" /\ l # k
    <3>1. queue'[l] = queue[l]
      BY <2>2, <2>4, <1>2
    <3> QED BY <2>1, <2>4, <3>1 DEF Waits, TakeQueue
  <2>5. CASE Lane(sent[it[1]].ch) # "connection" /\ l = k
    <3>1. PICK p \in 2 .. Len(queue[k]) : queue[k][p] = it
      BY <2>1, <2>5, <1>7
    <3>2. p - 1 \in 1 .. Len(queue'[k]) /\ queue'[k][p - 1] = it
      BY <3>1, <1>1, <1>2
    <3>3. p - 1 \in 1 .. Len(queue'[l]) /\ queue'[l][p - 1] = it
      BY <3>2, <2>5
    <3> QED BY <2>1, <2>5, <3>3, <1>1 DEF Waits
  <2> QED BY <2>3, <2>4, <2>5
<1>9. FutureUntouched'
  <2>1. head[1] <= Last /\ head[1] \in Nat
    BY <1>1 DEF Inv, OrderInv, QueuesSorted, Items, Ids
  <2> QED BY <2>1, <1>1, <1>3 DEF Inv, OrderInv, FutureUntouched
<1>10. NoOvertaking'
  <2> SUFFICES ASSUME NEW i \in 1 .. Last, NEW j \in 1 .. Last,
                      NEW r \in Routes, NEW q \in Routes,
                      i < j, Owner(sent[i]) = Owner(sent[j]),
                      fate'[<<j, q>>] = "delivered"
               PROVE  fate'[<<i, r>>] \notin Pending
    BY <1>1 DEF NoOvertaking
  <2>1. <<j, q>> \in Items /\ <<i, r>> \in Items
    BY SentType DEF Items, Inv
  <2>2. CASE <<j, q>> # head
    BY <2>1, <2>2, <1>3 DEF Inv, OrderInv, NoOvertaking, Pending
  <2>3. CASE <<j, q>> = head
    <3>1. /\ Lane(sent[j].ch) # "connection"
          /\ QueueKey(sent[j].agv, sent[j].ch) = k
          /\ \A p \in 1 .. Len(queue[k]) : j <= queue[k][p][1]
      BY <2>3, <1>1 DEF Inv, OrderInv, QueuesSorted
    <3>2. /\ Lane(sent[i].ch) # "connection"
          /\ QueueKey(sent[i].agv, sent[i].ch) = k
      BY <3>1, OwnerLane, SentType DEF Inv
    <3>3. <<i, r>> # head /\ fate'[<<i, r>>] = fate[<<i, r>>]
      BY <2>1, <2>3, <1>3
    <3>4. fate[<<i, r>>] # "cb"
      BY <2>1 DEF Inv, OrderInv, CallbackHolds
    <3>5. fate[<<i, r>>] # "queued"
      <4> SUFFICES ASSUME fate[<<i, r>>] = "queued" PROVE FALSE
        OBVIOUS
      <4>1. PICK p \in 2 .. Len(queue[k]) : queue[k][p] = <<i, r>>
        BY <2>1, <3>2, <3>3, <1>7
      <4> QED BY <4>1, <3>1
    <3> QED BY <3>3, <3>4, <3>5 DEF Pending
  <2> QED BY <2>2, <2>3
<1> QED BY <1>4, <1>5, <1>6, <1>8, <1>9, <1>10 DEF OrderInv

\* The connection worker takes the only message under a key.
LEMMA OrderTakeConn ==
    ASSUME Inv, NEW a \in AGVs, TakeConn(a)
    PROVE  OrderInv'
<1> DEFINE it0 == connLatest[a]
<1>1. /\ Last' = Last /\ Last \in Nat /\ sent' = sent /\ queue' = queue
      /\ it0 \in Items /\ it0[1] \in 1 .. Last
      /\ sent[it0[1]].ch = "connection" /\ sent[it0[1]].agv = a
  BY DEF TakeConn, Last, Inv, TypeInv, TypeOK, OrderInv, ConnKeyed, Items, Ids
<1>2. \A it \in Items :
        IF it = it0 THEN fate'[it] = "delivered" ELSE fate'[it] = fate[it]
  BY DEF TakeConn, SetFate
<1>3. connLatest' = [connLatest EXCEPT ![a] = None]
  BY DEF TakeConn
<1>4. CallbackHolds'
  BY <1>1, <1>2 DEF TakeConn, cbVars, Inv, OrderInv, CallbackHolds
<1>5. QueuesSorted' /\ ConnKeyed'
  BY <1>1, <1>3 DEF Inv, OrderInv, QueuesSorted, ConnKeyed, TypeInv, TypeOK
<1>6. WaitsOnItsLane'
  <2> SUFFICES ASSUME NEW it \in Items, fate'[it] = "queued"
               PROVE  it[1] <= Last /\ Waits(it, sent[it[1]])'
    BY <1>1 DEF WaitsOnItsLane
  <2>1. /\ it # it0
        /\ it[1] \in 1 .. Last /\ Waits(it, sent[it[1]])
    BY <1>1, <1>2 DEF Inv, OrderInv, WaitsOnItsLane, Items, Ids
  <2>2. sent[it[1]].agv \in AGVs
    BY <2>1, SentType DEF Inv
  <2> QED BY <1>1, <1>3, <2>1, <2>2 DEF Waits, Inv, TypeInv, TypeOK
<1>7. FutureUntouched'
  BY <1>1, <1>2 DEF Inv, OrderInv, FutureUntouched
<1>8. NoOvertaking'
  <2> SUFFICES ASSUME NEW i \in 1 .. Last, NEW j \in 1 .. Last,
                      NEW r \in Routes, NEW q \in Routes,
                      i < j, Owner(sent[i]) = Owner(sent[j]),
                      fate'[<<j, q>>] = "delivered"
               PROVE  fate'[<<i, r>>] \notin Pending
    BY <1>1 DEF NoOvertaking
  <2>1. <<j, q>> \in Items /\ <<i, r>> \in Items
    BY SentType DEF Items, Inv
  <2>2. CASE <<j, q>> # it0
    BY <2>1, <2>2, <1>2 DEF Inv, OrderInv, NoOvertaking, Pending
  <2>3. CASE <<j, q>> = it0
    <3>1. Lane(sent[j].ch) = "connection" /\ sent[j].agv = a
      BY <2>3, <1>1 DEF Lane
    <3>2. Lane(sent[i].ch) = "connection" /\ sent[i].agv = a
      BY <3>1, OwnerLane, SentType DEF Inv
    <3>3. <<i, r>> # it0 /\ fate'[<<i, r>>] = fate[<<i, r>>]
      BY <2>1, <2>3, <1>2
    <3>4. fate[<<i, r>>] # "cb"
      BY <2>1 DEF Inv, OrderInv, CallbackHolds
    <3>5. fate[<<i, r>>] # "queued"
      BY <2>1, <3>2, <3>3 DEF Inv, OrderInv, WaitsOnItsLane, Waits
    <3> QED BY <3>3, <3>4, <3>5 DEF Pending
  <2> QED BY <2>2, <2>3
<1> QED BY <1>4, <1>5, <1>6, <1>7, <1>8 DEF OrderInv

\* Start makes empty lanes.
LEMMA OrderStart ==
    ASSUME Inv, StartDispatch
    PROVE  OrderInv'
<1>1. /\ Last' = Last /\ sent' = sent /\ fate' = fate
      /\ \A k \in Keys : queue[k] = << >> /\ queue'[k] = << >>
      /\ connLatest \in [AGVs -> Items \cup {None}]
      /\ connLatest' = [a \in AGVs |-> None]
      /\ \A a \in AGVs : connLatest[a] = None
  BY DEF StartDispatch, Last, Inv, PhaseInv, WakeInv, PendingOnlyRunning,
         TypeInv, TypeOK
<1>2. \A it \in Items : fate[it] # "queued"
  <2> SUFFICES ASSUME NEW it \in Items, fate[it] = "queued" PROVE FALSE
    OBVIOUS
  <2>1. it[1] \in 1 .. Last /\ Waits(it, sent[it[1]])
    BY DEF Inv, OrderInv, WaitsOnItsLane, Items, Ids, TypeInv, TypeOK, Last
  <2>2. /\ sent[it[1]].agv \in AGVs
        /\ QueueKey(sent[it[1]].agv, sent[it[1]].ch) \in Keys
    BY <2>1, SentType DEF Inv
  <2> QED BY <1>1, <2>1, <2>2, ConstantsAssumption DEF Waits
<1>3. CallbackHolds'
  BY <1>1 DEF StartDispatch, cbVars, Inv, OrderInv, CallbackHolds
<1>4. QueuesSorted' /\ ConnKeyed'
  BY <1>1 DEF QueuesSorted, ConnKeyed
<1>5. WaitsOnItsLane' /\ FutureUntouched' /\ NoOvertaking'
  BY <1>1, <1>2 DEF WaitsOnItsLane, Inv, OrderInv, FutureUntouched, NoOvertaking
<1> QED BY <1>3, <1>4, <1>5 DEF OrderInv

\* Stop drops the connection states that wait.
LEMMA OrderStopLock ==
    ASSUME Inv, StopLock
    PROVE  OrderInv'
<1> DEFINE S == {connLatest[a] : a \in AGVs}
<1>1. /\ Last' = Last /\ Last \in Nat /\ sent' = sent /\ queue' = queue
      /\ connLatest' = [a \in AGVs |-> None]
      /\ \A it \in Items :
           IF it \in S THEN fate'[it] = "stopped" ELSE fate'[it] = fate[it]
  BY DEF StopLock, Last, SetFate, Inv, TypeInv, TypeOK
<1>2. CallbackHolds'
  BY <1>1 DEF StopLock, cbVars, Inv, OrderInv, CallbackHolds
<1>3. QueuesSorted' /\ ConnKeyed'
  BY <1>1 DEF Inv, OrderInv, QueuesSorted, ConnKeyed
<1>4. WaitsOnItsLane'
  <2> SUFFICES ASSUME NEW it \in Items, fate'[it] = "queued"
               PROVE  it[1] <= Last /\ Waits(it, sent[it[1]])'
    BY <1>1 DEF WaitsOnItsLane
  <2>1. it \notin S /\ it[1] \in 1 .. Last /\ Waits(it, sent[it[1]])
    BY <1>1 DEF Inv, OrderInv, WaitsOnItsLane, Items, Ids
  <2>2. Lane(sent[it[1]].ch) # "connection"
    BY <2>1, SentType DEF Waits, Inv
  <2> QED BY <1>1, <2>1, <2>2 DEF Waits
<1>5. FutureUntouched'
  <2>1. \A a \in AGVs : connLatest[a] \in Items => connLatest[a][1] <= Last
    BY ConstantsAssumption DEF Inv, OrderInv, ConnKeyed
  <2>2. \A it \in Items : it[1] > Last => it \notin S
    BY <2>1, <1>1 DEF Items, Ids
  <2> QED BY <1>1, <2>2 DEF Inv, OrderInv, FutureUntouched
<1>6. NoOvertaking'
  BY <1>1, OrderNoDelivery DEF Pending
<1> QED BY <1>2, <1>3, <1>4, <1>5, <1>6 DEF OrderInv

\* Stop drops what the workers left in the queues.
LEMMA OrderStopWait ==
    ASSUME Inv, StopWait
    PROVE  OrderInv'
<1> DEFINE S == UNION {InQueue(k) : k \in Keys}
<1>1. /\ Last' = Last /\ Last \in Nat /\ sent' = sent /\ connLatest' = connLatest
      /\ \A k \in Keys : queue'[k] = << >>
      /\ \A it \in Items :
           IF it \in S THEN fate'[it] = "stopped" ELSE fate'[it] = fate[it]
  BY DEF StopWait, Last, SetFate, Inv, TypeInv, TypeOK
<1>2. CallbackHolds'
  BY <1>1 DEF StopWait, cbVars, Inv, OrderInv, CallbackHolds
<1>3. QueuesSorted' /\ ConnKeyed'
  BY <1>1 DEF Inv, OrderInv, QueuesSorted, ConnKeyed
<1>4. WaitsOnItsLane'
  <2> SUFFICES ASSUME NEW it \in Items, fate'[it] = "queued"
               PROVE  it[1] <= Last /\ Waits(it, sent[it[1]])'
    BY <1>1 DEF WaitsOnItsLane
  <2>1. it \notin S /\ it[1] \in 1 .. Last /\ Waits(it, sent[it[1]])
    BY <1>1 DEF Inv, OrderInv, WaitsOnItsLane, Items, Ids
  <2>2. QueueKey(sent[it[1]].agv, sent[it[1]].ch) \in Keys
    BY <2>1, SentType DEF Inv
  <2>3. Lane(sent[it[1]].ch) = "connection"
    BY <2>1, <2>2 DEF Waits, InQueue
  <2> QED BY <1>1, <2>1, <2>3 DEF Waits
<1>5. FutureUntouched'
  <2>1. ASSUME NEW it \in Items, it \in S PROVE it[1] <= Last
    BY <2>1 DEF InQueue, Inv, OrderInv, QueuesSorted
  <2>2. \A it \in Items : it[1] > Last => it \notin S
    BY <2>1, <1>1 DEF Items, Ids
  <2> QED BY <1>1, <2>2 DEF Inv, OrderInv, FutureUntouched
<1>6. NoOvertaking'
  BY <1>1, OrderNoDelivery DEF Pending
<1> QED BY <1>2, <1>3, <1>4, <1>5, <1>6 DEF OrderInv

\* Every step preserves the order of the lanes.
LEMMA OrderNext == Inv /\ [Next]_vars => OrderInv'
<1> SUFFICES ASSUME Inv, [Next]_vars PROVE OrderInv'
  OBVIOUS
<1>1. ASSUME cbPc' = cbPc, cbTodo' = cbTodo, cbRoute' = cbRoute,
             UNCHANGED <<sent, queue, connLatest, fate>>
      PROVE  OrderInv'
  <2>1. CallbackHolds'
    BY <1>1 DEF Inv, OrderInv, CallbackHolds, Last
  <2> QED BY <1>1, <2>1, OrderFrame
<1>2. CASE Callback
  <2>1. CASE Send
    <3> DEFINE k == QueueKey(Current.agv, Current.ch)
    <3>1. CASE PutCurrent(k) /\ EnqueueReturns
      BY <2>1, <3>1, OrderPut, OrderDiscard DEF Send, PutCurrent
    <3>2. CASE Discard("dropped") /\ EnqueueReturns
      BY <2>1, <3>2, OrderDiscard DEF Send
    <3>3. CASE cbPc' = "blocked" /\ UNCHANGED <<cbRoute, queue, fate>>
      <4>1. CallbackHolds'
        BY <2>1, <3>3 DEF Send, Inv, OrderInv, CallbackHolds, Last
      <4> QED BY <2>1, <3>3, <4>1, OrderFrame DEF Send
    <3> QED BY <2>1, <3>1, <3>2, <3>3 DEF Send
  <2>2. CASE Unblock
    BY <2>2, OrderPut, OrderDiscard DEF Unblock, PutCurrent
  <2> QED BY <1>2, <2>1, <2>2, OrderEnqueueConnection, OrderQueueFor, OrderSignal
          DEF Callback
<1>3. ASSUME NEW w \in Workers, Worker(w)
      PROVE  OrderInv'
  <2>1. CASE HandlerReturns(w) \/ Exit(w) \/ TakeWake \/ DrainEnd
    BY <1>1, <2>1 DEF HandlerReturns, Exit, Leaves, TakeWake, DrainEnd, cbVars
  <2> QED BY <1>3, <2>1, OrderTakeQueue, OrderTakeConn DEF Worker, ConnWorker
<1>4. CASE StartDispatch \/ StopLock \/ StopWait
  BY <1>4, OrderStart, OrderStopLock, OrderStopWait
<1>5. CASE Connected \/ ConnectFailed \/ StopCancel \/ StopDisconnect
  BY <1>1, <1>5 DEF Connected, ConnectFailed, StopCancel, StopDisconnect, cbVars
<1>6. CASE UNCHANGED vars
  BY <1>1, <1>6 DEF vars, cbVars
<1> QED BY <1>2, <1>3, <1>4, <1>5, <1>6, OrderDeliver DEF Next, Stop

\* Init establishes the invariant.
LEMMA InvInit == Init => Inv
<1> SUFFICES ASSUME Init PROVE Inv
  OBVIOUS
<1>1. Last = 0 /\ \A k \in Keys : Len(queue[k]) = 0
  BY DEF Init, Last
<1>2. TypeInv /\ WakeInv
  BY TypeInit DEF Init, WakeInv, PendingOnlyRunning, NoLostWakeup
<1>3. OrderInv
  BY <1>1 DEF Init, OrderInv, CallbackHolds, QueuesSorted, ConnKeyed,
              WaitsOnItsLane, FutureUntouched, NoOvertaking
<1> QED BY <1>2, <1>3 DEF Inv, Init, PhaseInv

\* Every step preserves the invariant.
LEMMA InvNext == Inv /\ [Next]_vars => Inv'
BY TypeNext, WakeNext, PhaseNext, OrderNext DEF Inv

\* Handlers see the messages of a lane in order of arrival: nothing is handled
\* while an earlier message of the same AGV (or of the topic lane) waits.
THEOREM OrderCorrect == Spec => []NoOvertaking
<1>1. Inv => NoOvertaking
  BY DEF Inv, OrderInv
<1> QED BY <1>1, InvInit, InvNext, PTL DEF Spec

\* While it runs, the dispatcher gives up nothing but visualizations that met
\* a full queue and connection states that something as new replaced.
THEOREM LossCorrect == Spec => LosesOnlyDroppable
<1> DEFINE A == phase = "running" /\ phase' = "running" =>
          \A i \in 1 .. Last, r \in Routes :
              /\ fate[<<i, r>>] \in Pending
              /\ fate'[<<i, r>>] \notin Pending \cup {"delivered"}
              => \/ /\ sent[i].ch = "visualization"
                    /\ Len(queue[sent[i].agv]) = QSize
                 \/ /\ sent[i].ch = "connection"
                    /\ connLatest'[sent[i].agv] # None
                    /\ connLatest'[sent[i].agv][1] >= i
<1>1. ASSUME Inv, [Next]_vars PROVE A
  <2> SUFFICES ASSUME phase = "running", phase' = "running",
                      NEW i \in 1 .. Last, NEW r \in Routes,
                      fate[<<i, r>>] \in Pending,
                      fate'[<<i, r>>] \notin Pending \cup {"delivered"}
               PROVE  \/ /\ sent[i].ch = "visualization"
                         /\ Len(queue[sent[i].agv]) = QSize
                      \/ /\ sent[i].ch = "connection"
                         /\ connLatest'[sent[i].agv] # None
                         /\ connLatest'[sent[i].agv][1] >= i
    OBVIOUS
  <2>0. <<i, r>> \in Items /\ Last \in Nat /\ fate'[<<i, r>>] # fate[<<i, r>>]
    BY <1>1, SentType DEF Items, Inv, TypeInv, TypeOK, Last
  <2>1. ASSUME NEW a \in AGVs, NEW ch \in Channels PROVE ~ Deliver(a, ch)
    <3>1. <<i, r>> \notin {Last + 1} \X {q \in Routes : ch \in RouteChannels[q]}
      BY <2>0
    <3> QED BY <2>0, <3>1 DEF Deliver, SetFate
  <2>2. CASE Callback
    <3>1. ASSUME NEW q \in Routes, EnqueueConnection(q)
          PROVE  /\ sent[i].ch = "connection"
                 /\ connLatest'[sent[i].agv] # None
                 /\ connLatest'[sent[i].agv][1] >= i
      <4>1. <<Last, q>> \in Items /\ Current.agv \in AGVs
        BY <1>1, <3>1, CurrentType DEF EnqueueConnection, Inv, Items
      <4>2. <<i, r>> = connLatest[Current.agv]
        BY <2>0, <3>1 DEF EnqueueConnection, Coalesce, Pending
      <4>3. sent[i].ch = "connection" /\ sent[i].agv = Current.agv
        BY <1>1, <4>1, <4>2, <2>0, ConstantsAssumption DEF Inv, OrderInv, ConnKeyed
      <4>4. connLatest'[Current.agv] = <<Last, q>>
        BY <1>1, <3>1, <4>1 DEF EnqueueConnection, Coalesce, Inv, TypeInv, TypeOK
      <4> QED BY <4>1, <4>3, <4>4, <2>0, ConstantsAssumption
    <3>2. ASSUME NEW q \in Routes PROVE ~ QueueFor(q)
      BY <2>0 DEF QueueFor
    <3>3. ~ Signal
      BY <2>0 DEF Signal
    <3>4. CASE Send
      <4> DEFINE k == QueueKey(Current.agv, Current.ch)
      <4>1. Full(k) /\ Droppable(Current.ch) /\ Discard("dropped")
        BY <2>0, <3>4 DEF Send, PutCurrent, SetFate, Pending
      <4>2. i = Last
        BY <2>0, <4>1 DEF Discard, SetFate
      <4>3. sent[i].ch = "visualization" /\ k = sent[i].agv /\ k \in Keys
        BY <1>1, <3>4, <4>1, <4>2, CurrentType
           DEF Send, Inv, Droppable, QueueKey, Lane, Current
      <4>4. Len(queue[k]) = QSize
        BY <1>1, <4>1, <4>3, ConstantsAssumption DEF Full, Inv, TypeInv, TypeOK
      <4> QED BY <4>3, <4>4
    <3>5. ~ Unblock
      BY <2>0 DEF Unblock, GivesUp, CtxDone, PutCurrent, SetFate, Pending
    <3> QED BY <2>2, <3>1, <3>2, <3>3, <3>4, <3>5 DEF Callback
  <2>3. ASSUME NEW w \in Workers PROVE ~ Worker(w)
    BY <2>0 DEF Worker, Exit, Leaves, HandlerReturns, TakeQueue, ConnWorker, TakeWake,
                DrainEnd, TakeConn, SetFate
  <2>4. ~ (StartDispatch \/ Connected \/ ConnectFailed \/ StopLock \/ Stop)
    BY DEF StartDispatch, Connected, ConnectFailed, StopLock, Stop, StopCancel,
           StopDisconnect, StopWait
  <2>5. ~ UNCHANGED vars
    BY <2>0 DEF vars
  <2> QED BY <1>1, <2>1, <2>2, <2>3, <2>4, <2>5 DEF Next
<1> QED BY <1>1, InvInit, InvNext, PTL DEF Spec, LosesOnlyDroppable

-----------------------------------------------------------------------------
(***************************************************************************)
(* Refinement: MqttDispatch implements OrderedLanes.                       *)
(*                                                                         *)
(* That a handler gets the oldest message of its lane is NoOvertaking.     *)
(* That it gets each message once needs the converse of WaitsOnItsLane:    *)
(* what is on a lane waits, and is there only once.                        *)
(*                                                                         *)
(* The end of the module proves that coalescing only ever loses a          *)
(* connection state to a newer one of the same AGV, provided that all      *)
(* connection states have one route.                                       *)
(***************************************************************************)
\* What the callback holds has not been passed on.
CallbackWaits ==
    /\ \A r \in cbTodo : fate[<<Last, r>>] = "cb"
    /\ cbPc \in {"send", "blocked"} =>
         cbRoute \notin cbTodo /\ fate[<<Last, cbRoute>>] = "cb"

\* What is pending under a key waits.
ConnWaits ==
    \A a \in AGVs : connLatest[a] # None => fate[connLatest[a]] = "queued"

\* What is on a queue waits, and is on it once.
QueueWaits ==
    \A k \in Keys : \A p \in 1 .. Len(queue[k]) :
        /\ fate[queue[k][p]] = "queued"
        /\ \A o \in 1 .. Len(queue[k]) : queue[k][o] = queue[k][p] => o = p

LaneWaits == CallbackWaits /\ ConnWaits /\ QueueWaits

-----------------------------------------------------------------------------
\* What is on the lanes are messages that arrived, each on the lane of its own
\* kind.
LEMMA LaneItems ==
    ASSUME Inv
    PROVE  /\ \A a \in AGVs : connLatest[a] # None =>
                /\ connLatest[a] \in Items
                /\ connLatest[a][1] \in 1 .. Last
                /\ sent[connLatest[a][1]].ch = "connection"
                /\ sent[connLatest[a][1]].agv = a
           /\ \A k \in Keys : \A p \in 1 .. Len(queue[k]) :
                /\ queue[k][p] \in Items
                /\ queue[k][p][1] \in 1 .. Last
                /\ sent[queue[k][p][1]].ch # "connection"
                /\ QueueKey(sent[queue[k][p][1]].agv,
                            sent[queue[k][p][1]].ch) = k
<1>1. ASSUME NEW a \in AGVs, connLatest[a] # None
      PROVE  /\ connLatest[a] \in Items
             /\ connLatest[a][1] \in 1 .. Last
             /\ sent[connLatest[a][1]].ch = "connection"
             /\ sent[connLatest[a][1]].agv = a
  BY <1>1 DEF Inv, TypeInv, TypeOK, OrderInv, ConnKeyed, Items, Ids, Last
<1>2. ASSUME NEW k \in Keys, NEW p \in 1 .. Len(queue[k])
      PROVE  /\ queue[k][p] \in Items
             /\ queue[k][p][1] \in 1 .. Last
             /\ sent[queue[k][p][1]].ch # "connection"
             /\ QueueKey(sent[queue[k][p][1]].agv,
                         sent[queue[k][p][1]].ch) = k
  <2>1. queue[k] \in Seq(Items)
    BY DEF Inv, TypeInv, TypeOK
  <2>2. queue[k][p] \in Items
    BY <2>1
  <2>3. queue[k][p][1] \in 1 .. Last
    BY <2>2 DEF Inv, OrderInv, QueuesSorted, Items, Ids, Last, TypeInv, TypeOK
  <2> QED BY <2>2, <2>3 DEF Inv, OrderInv, QueuesSorted, Lane
<1> QED BY <1>1, <1>2

\* A step that takes nothing onto a lane, and decides only about messages that
\* leave their place, keeps the lanes.
LEMMA WaitsFrame ==
    ASSUME LaneWaits, UNCHANGED <<sent, cbPc, cbTodo, cbRoute, queue,
                                  connLatest, fate>>
    PROVE  LaneWaits'
BY DEF LaneWaits, CallbackWaits, ConnWaits, QueueWaits, Last

\* An arrival is on no lane yet.
LEMMA WaitsDeliver ==
    ASSUME Inv, LaneWaits, NEW a \in AGVs, NEW ch \in Channels, Deliver(a, ch)
    PROVE  LaneWaits'
<1>1. /\ Last \in Nat /\ Last' = Last + 1 /\ Last' \in Ids
      /\ cbTodo' \subseteq Routes
      /\ cbPc' = "enqueue"
      /\ queue' = queue /\ connLatest' = connLatest
  <2>1. sent \in Seq(Messages) /\ sent' = Append(sent, [agv |-> a, ch |-> ch])
    BY DEF Deliver, Inv, TypeInv, TypeOK
  <2>2. Len(sent') = Len(sent) + 1 /\ Len(sent) \in Nat
    BY <2>1 DEF Messages
  <2> QED BY <2>2, ConstantsAssumption DEF Deliver, Last, Ids
<1>2. \A it \in Items :
        fate'[it] = IF it \in {Last + 1} \X cbTodo' THEN "cb" ELSE fate[it]
  BY DEF Deliver, SetFate
<1>3. CallbackWaits'
  BY <1>1, <1>2 DEF CallbackWaits, Items
<1>4. ConnWaits'
  BY <1>1, <1>2, LaneItems DEF LaneWaits, ConnWaits
<1>5. QueueWaits'
  BY <1>1, <1>2, LaneItems DEF LaneWaits, QueueWaits
<1> QED BY <1>3, <1>4, <1>5 DEF LaneWaits

\* The callback passes message it on, or gives it up: f says which.  The lanes
\* that this step leaves alone keep what they had.
LEMMA WaitsCallback ==
    ASSUME Inv, LaneWaits, NEW it \in Items, fate[it] = "cb",
           NEW f, fate' = SetFate({it}, f),
           UNCHANGED <<sent, queue, connLatest>>
    PROVE  ConnWaits' /\ QueueWaits'
BY LaneItems DEF LaneWaits, ConnWaits, QueueWaits, SetFate

LEMMA WaitsEnqueueConnection ==
    ASSUME Inv, LaneWaits, NEW r \in Routes, EnqueueConnection(r)
    PROVE  LaneWaits'
<1> USE ConstantsAssumption
<1> DEFINE new == <<Last, r>>
           old == connLatest[Current.agv]
<1>1. /\ Last \in Ids /\ Current \in Messages /\ Current = sent[Last]
      /\ Current.agv \in AGVs /\ Current.ch = "connection"
      /\ new \in Items /\ fate[new] = "cb"
  BY CurrentType, LaneConnection
     DEF EnqueueConnection, Inv, Items, LaneWaits, CallbackWaits, Current
<1>2. /\ Last' = Last /\ sent' = sent /\ queue' = queue /\ cbTodo' = cbTodo \ {r}
      /\ cbPc' \in {"signal", "idle", "enqueue"} /\ cbTodo \subseteq Routes
  BY DEF EnqueueConnection, NextRoute, Last, Inv, TypeInv, TypeOK
<1>3. CASE phase = "running"
  <2>1. /\ connLatest' = [connLatest EXCEPT ![Current.agv] = new]
        /\ \A it \in Items : fate'[it] = IF it = new THEN "queued"
                                         ELSE IF it = old THEN "superseded"
                                         ELSE fate[it]
    BY <1>3 DEF EnqueueConnection, Coalesce
  <2>2. old # None => old \in Items /\ fate[old] = "queued"
    BY <1>1, LaneItems DEF LaneWaits, ConnWaits
  <2>3. CallbackWaits'
    BY <1>1, <1>2, <2>1, <2>2 DEF LaneWaits, CallbackWaits, Items
  <2>4. ConnWaits'
    <3> SUFFICES ASSUME NEW a \in AGVs, connLatest'[a] # None
                 PROVE  fate'[connLatest'[a]] = "queued"
      BY DEF ConnWaits
    <3>1. CASE a = Current.agv
      BY <3>1, <1>1, <2>1 DEF Inv, TypeInv, TypeOK
    <3>2. CASE a # Current.agv
      <4>1. connLatest'[a] = connLatest[a]
        BY <3>2, <2>1 DEF Inv, TypeInv, TypeOK
      <4>2. connLatest[a] # old /\ connLatest[a] # new
        BY <3>2, <4>1, <1>1, LaneItems
      <4> QED BY <4>1, <4>2, <2>1, LaneItems DEF LaneWaits, ConnWaits
    <3> QED BY <3>1, <3>2
  <2>5. QueueWaits'
    <3> SUFFICES ASSUME NEW k \in Keys, NEW p \in 1 .. Len(queue[k])
                 PROVE  fate'[queue[k][p]] = "queued"
      BY <1>2 DEF LaneWaits, QueueWaits
    <3>1. queue[k][p] # new /\ queue[k][p] # old
      BY <1>1, LaneItems
    <3> QED BY <3>1, <2>1, LaneItems DEF LaneWaits, QueueWaits
  <2> QED BY <2>3, <2>4, <2>5 DEF LaneWaits
<1>4. CASE phase # "running"
  <2>1. fate' = SetFate({new}, "stopped") /\ connLatest' = connLatest
    BY <1>4 DEF EnqueueConnection
  <2>2. CallbackWaits'
    BY <1>1, <1>2, <2>1 DEF LaneWaits, CallbackWaits, SetFate, Items
  <2>3. ConnWaits' /\ QueueWaits'
    BY <1>1, <1>2, <2>1, WaitsCallback
  <2> QED BY <2>2, <2>3 DEF LaneWaits
<1> QED BY <1>3, <1>4

LEMMA WaitsQueueFor ==
    ASSUME Inv, LaneWaits, NEW r \in Routes, QueueFor(r)
    PROVE  LaneWaits'
<1> DEFINE new == <<Last, r>>
<1>1. Last \in Ids /\ new \in Items /\ fate[new] = "cb"
  BY CurrentType DEF QueueFor, Inv, Items, LaneWaits, CallbackWaits
<1>2. /\ Last' = Last /\ sent' = sent /\ queue' = queue
      /\ connLatest' = connLatest /\ cbTodo' = cbTodo \ {r}
      /\ cbTodo \subseteq Routes
  BY DEF QueueFor, Last, Inv, TypeInv, TypeOK
<1>3. CASE phase = "running"
  <2>1. fate' = fate /\ cbRoute' = r
    BY <1>3 DEF QueueFor
  <2> QED BY <1>1, <1>2, <2>1
          DEF LaneWaits, CallbackWaits, ConnWaits, QueueWaits
<1>4. CASE phase # "running"
  <2>1. /\ fate' = SetFate({new}, "stopped")
        /\ cbPc' \in {"idle", "enqueue"}
    BY <1>4 DEF QueueFor, NextRoute
  <2>2. CallbackWaits'
    BY <1>1, <1>2, <2>1 DEF LaneWaits, CallbackWaits, SetFate, Items
  <2>3. ConnWaits' /\ QueueWaits'
    BY <1>1, <1>2, <2>1, WaitsCallback
  <2> QED BY <2>2, <2>3 DEF LaneWaits
<1> QED BY <1>3, <1>4

\* What Send and Unblock have in hand.
LEMMA InHand ==
    ASSUME Inv, LaneWaits, cbPc \in {"send", "blocked"}
    PROVE  /\ Last \in Ids /\ Current = sent[Last]
           /\ <<Last, cbRoute>> \in Items /\ fate[<<Last, cbRoute>>] = "cb"
           /\ cbRoute \notin cbTodo /\ cbTodo \subseteq Routes
           /\ QueueKey(Current.agv, Current.ch) \in Keys
BY CurrentType DEF Inv, TypeInv, TypeOK, CallbackOK, Items, Current, LaneWaits,
                   CallbackWaits

LEMMA WaitsDiscard ==
    ASSUME Inv, LaneWaits, cbPc \in {"send", "blocked"}, NEW f, Discard(f),
           EnqueueReturns, UNCHANGED <<sent, cbTodo, connLatest>>
    PROVE  LaneWaits'
<1>1. /\ Last' = Last /\ fate' = SetFate({<<Last, cbRoute>>}, f)
      /\ queue' = queue /\ cbPc' \in {"idle", "enqueue"}
  BY DEF Discard, EnqueueReturns, NextRoute, Last
<1>2. CallbackWaits'
  BY <1>1, InHand DEF LaneWaits, CallbackWaits, SetFate, Items
<1>3. ConnWaits' /\ QueueWaits'
  BY <1>1, InHand, WaitsCallback
<1> QED BY <1>2, <1>3 DEF LaneWaits

LEMMA WaitsPut ==
    ASSUME Inv, LaneWaits, cbPc \in {"send", "blocked"},
           phase # "stopped", PutCurrent(QueueKey(Current.agv, Current.ch)),
           EnqueueReturns, UNCHANGED <<sent, cbTodo, connLatest>>
    PROVE  LaneWaits'
<1> DEFINE k   == QueueKey(Current.agv, Current.ch)
           new == <<Last, cbRoute>>
<1>1. /\ Last' = Last /\ fate' = SetFate({new}, "queued")
      /\ cbPc' \in {"idle", "enqueue"}
  BY DEF PutCurrent, EnqueueReturns, NextRoute, Last
<1>2. /\ queue[k] \in Seq(Items) /\ k \in Keys
      /\ new \in Items /\ fate[new] = "cb"
  BY InHand DEF Inv, TypeInv, TypeOK
<1>3. /\ \A l \in Keys : l # k => queue'[l] = queue[l]
      /\ Len(queue'[k]) = Len(queue[k]) + 1
      /\ queue'[k][Len(queue[k]) + 1] = new
      /\ \A p \in 1 .. Len(queue[k]) : queue'[k][p] = queue[k][p]
  <2>1. queue' = [queue EXCEPT ![k] = Append(queue[k], new)]
    BY DEF PutCurrent
  <2> QED BY <1>2, <2>1 DEF Inv, TypeInv, TypeOK
<1>4. CallbackWaits'
  BY <1>1, InHand DEF LaneWaits, CallbackWaits, SetFate, Items
<1>5. ConnWaits'
  BY <1>1, <1>2, LaneItems DEF LaneWaits, ConnWaits, SetFate
<1>6. \A l \in Keys : \A p \in 1 .. Len(queue[l]) :
        queue[l][p] # new /\ fate'[queue[l][p]] = "queued"
  BY <1>1, <1>2, LaneItems DEF LaneWaits, QueueWaits, SetFate
<1>7. fate'[new] = "queued"
  BY <1>1, <1>2 DEF SetFate
<1>8. QueueWaits'
  <2> SUFFICES ASSUME NEW l \in Keys, NEW p \in 1 .. Len(queue'[l])
               PROVE  /\ fate'[queue'[l][p]] = "queued"
                      /\ \A o \in 1 .. Len(queue'[l]) :
                            queue'[l][o] = queue'[l][p] => o = p
    BY DEF QueueWaits
  <2>1. CASE l # k
    BY <2>1, <1>3, <1>6 DEF LaneWaits, QueueWaits
  <2>2. CASE l = k
    <3>1. /\ Len(queue[k]) \in Nat
          /\ p \in 1 .. Len(queue[k]) \/ p = Len(queue[k]) + 1
      BY <2>2, <1>2, <1>3
    <3>2. ASSUME NEW o \in 1 .. Len(queue'[k])
          PROVE  o \in 1 .. Len(queue[k]) \/ o = Len(queue[k]) + 1
      BY <3>1, <1>3
    <3>3. CASE p \in 1 .. Len(queue[k])
      <4>1. queue'[k][p] = queue[k][p] /\ fate'[queue[k][p]] = "queued"
        BY <3>3, <1>2, <1>3, <1>6
      <4>2. ASSUME NEW o \in 1 .. Len(queue'[k]), queue'[k][o] = queue'[k][p]
            PROVE  o = p
        BY <4>1, <4>2, <3>2, <3>3, <1>2, <1>3, <1>6, SMTT(30) DEF LaneWaits, QueueWaits
      <4> QED BY <2>2, <4>1, <4>2
    <3>4. CASE p = Len(queue[k]) + 1
      <4>1. queue'[k][p] = new
        BY <3>4, <1>3, SMTT(30)
      <4>2. ASSUME NEW o \in 1 .. Len(queue'[k]), queue'[k][o] = queue'[k][p]
            PROVE  o = p
        BY <4>1, <4>2, <3>2, <3>4, <1>2, <1>3, <1>6
      <4> QED BY <2>2, <4>1, <4>2, <1>7
    <3> QED BY <3>1, <3>3, <3>4
  <2> QED BY <2>1, <2>2
<1> QED BY <1>4, <1>5, <1>8 DEF LaneWaits

\* A queue's worker takes the only copy of the oldest message.
LEMMA WaitsTakeQueue ==
    ASSUME Inv, LaneWaits, NEW k \in Keys, TakeQueue(k)
    PROVE  LaneWaits'
<1> DEFINE head == Head(queue[k])
<1>1. /\ Last' = Last /\ connLatest' = connLatest /\ queue[k] \in Seq(Items)
      /\ Len(queue[k]) \in Nat \ {0} /\ head = queue[k][1] /\ head \in Items
      /\ cbPc' = cbPc /\ cbTodo' = cbTodo /\ cbRoute' = cbRoute
  BY DEF TakeQueue, Last, Inv, TypeInv, TypeOK, cbVars
<1>2. /\ \A l \in Keys : l # k => queue'[l] = queue[l]
      /\ Len(queue'[k]) = Len(queue[k]) - 1
      /\ \A p \in 1 .. Len(queue[k]) - 1 : queue'[k][p] = queue[k][p + 1]
  BY <1>1 DEF TakeQueue, Inv, TypeInv, TypeOK
<1>3. fate' = SetFate({head}, "delivered") /\ fate[head] = "queued"
  BY <1>1 DEF TakeQueue, LaneWaits, QueueWaits
<1>4. CallbackWaits'
  <2>1. ASSUME NEW r \in cbTodo PROVE fate'[<<Last, r>>] = "cb"
    <3>1. cbPc # "idle"
      BY <2>1 DEF Inv, OrderInv, CallbackHolds
    <3>2. <<Last, r>> \in Items
      BY <3>1, CurrentType DEF Inv, TypeInv, TypeOK, Items
    <3> QED BY <3>2, <1>3 DEF LaneWaits, CallbackWaits, SetFate
  <2>2. CASE cbPc \in {"send", "blocked"}
    BY <2>1, <2>2, <1>1, <1>3, InHand DEF CallbackWaits, SetFate
  <2> QED BY <2>1, <2>2, <1>1 DEF CallbackWaits
<1>5. ConnWaits'
  BY <1>1, <1>3, LaneItems DEF LaneWaits, ConnWaits, SetFate
<1>6. QueueWaits'
  <2> SUFFICES ASSUME NEW l \in Keys, NEW p \in 1 .. Len(queue'[l])
               PROVE  /\ fate'[queue'[l][p]] = "queued"
                      /\ \A o \in 1 .. Len(queue'[l]) :
                            queue'[l][o] = queue'[l][p] => o = p
    BY DEF QueueWaits
  <2>1. CASE l # k
    <3>1. queue'[l] = queue[l]
      BY <2>1, <1>2
    <3>2. queue[l][p] # head /\ queue[l][p] \in Items
      BY <2>1, <3>1, <1>1, LaneItems, SMTT(30)
    <3> QED BY <3>1, <3>2, <1>3 DEF LaneWaits, QueueWaits, SetFate
  <2>2. CASE l = k
    <3>1. \A o \in 1 .. Len(queue'[k]) :
            o + 1 \in 2 .. Len(queue[k]) /\ queue'[k][o] = queue[k][o + 1]
      BY <1>1, <1>2, SMTT(30)
    <3>2. ASSUME NEW o \in 1 .. Len(queue'[k]), queue'[k][o] = queue'[k][p]
          PROVE  o = p
      BY <2>2, <3>1, <3>2 DEF LaneWaits, QueueWaits
    <3>3. p + 1 \in 2 .. Len(queue[k]) /\ queue'[k][p] = queue[k][p + 1]
      BY <2>2, <3>1
    <3>4. queue[k][p + 1] # head /\ queue[k][p + 1] \in Items
      BY <3>3, <1>1, LaneItems DEF LaneWaits, QueueWaits
    <3>5. fate'[queue'[k][p]] = "queued"
      BY <3>3, <3>4, <1>3 DEF LaneWaits, QueueWaits, SetFate
    <3> QED BY <2>2, <3>2, <3>5
  <2> QED BY <2>1, <2>2
<1> QED BY <1>4, <1>5, <1>6 DEF LaneWaits

\* The connection worker takes the only message under a key.
LEMMA WaitsTakeConn ==
    ASSUME Inv, LaneWaits, NEW a \in AGVs, TakeConn(a)
    PROVE  LaneWaits'
<1> DEFINE it0 == connLatest[a]
<1>1. /\ Last' = Last /\ queue' = queue
      /\ cbPc' = cbPc /\ cbTodo' = cbTodo /\ cbRoute' = cbRoute
      /\ connLatest' = [connLatest EXCEPT ![a] = None]
      /\ fate' = SetFate({it0}, "delivered")
      /\ it0 \in Items /\ fate[it0] = "queued"
  BY LaneItems DEF TakeConn, Last, cbVars, LaneWaits, ConnWaits
<1>2. CallbackWaits'
  <2>1. ASSUME NEW r \in cbTodo PROVE fate'[<<Last, r>>] = "cb"
    <3>1. cbPc # "idle"
      BY <2>1 DEF Inv, OrderInv, CallbackHolds
    <3>2. <<Last, r>> \in Items
      BY <3>1, CurrentType DEF Inv, TypeInv, TypeOK, Items
    <3> QED BY <3>2, <1>1 DEF LaneWaits, CallbackWaits, SetFate
  <2>2. CASE cbPc \in {"send", "blocked"}
    BY <2>1, <2>2, <1>1, InHand DEF CallbackWaits, SetFate
  <2> QED BY <2>1, <2>2, <1>1 DEF CallbackWaits
<1>3. ConnWaits'
  <2> SUFFICES ASSUME NEW b \in AGVs, connLatest'[b] # None
               PROVE  fate'[connLatest'[b]] = "queued"
    BY DEF ConnWaits
  <2>1. b # a /\ connLatest'[b] = connLatest[b]
    BY <1>1 DEF Inv, TypeInv, TypeOK
  <2>2. connLatest[b] # it0 /\ connLatest[b] \in Items
    BY <2>1, LaneItems DEF TakeConn
  <2> QED BY <2>1, <2>2, <1>1 DEF LaneWaits, ConnWaits, SetFate
<1>4. QueueWaits'
  BY <1>1, LaneItems DEF TakeConn, LaneWaits, QueueWaits, SetFate
<1> QED BY <1>2, <1>3, <1>4 DEF LaneWaits

\* Start and Stop empty the lanes.
LEMMA WaitsStartStop ==
    ASSUME Inv, LaneWaits, StartDispatch \/ StopLock \/ StopWait
    PROVE  LaneWaits'
<1>1. CASE StartDispatch
  BY <1>1 DEF StartDispatch, cbVars, LaneWaits, CallbackWaits, ConnWaits,
              QueueWaits, Last
<1>2. ASSUME \A it \in Items : fate[it] = "cb" => fate'[it] = "cb",
             UNCHANGED <<sent, cbVars>>
      PROVE  CallbackWaits'
  <2>0. /\ Last' = Last
        /\ cbPc' = cbPc /\ cbTodo' = cbTodo /\ cbRoute' = cbRoute
    BY <1>2 DEF Last, cbVars
  <2>1. ASSUME NEW r \in cbTodo PROVE fate'[<<Last, r>>] = "cb"
    <3>1. cbPc # "idle"
      BY <2>1 DEF Inv, OrderInv, CallbackHolds
    <3>2. <<Last, r>> \in Items
      BY <3>1, CurrentType DEF Inv, TypeInv, TypeOK, Items
    <3> QED BY <3>2, <1>2 DEF LaneWaits, CallbackWaits
  <2>2. CASE cbPc \in {"send", "blocked"}
    BY <2>0, <2>1, <2>2, <1>2, InHand DEF CallbackWaits
  <2> QED BY <2>0, <2>1, <2>2 DEF CallbackWaits
<1>3. CASE StopLock
  <2> DEFINE S == {connLatest[a] : a \in AGVs}
  <2>1. /\ queue' = queue /\ fate' = SetFate(S, "stopped")
        /\ connLatest' = [a \in AGVs |-> None]
        /\ UNCHANGED <<sent, cbVars>>
    BY <1>3 DEF StopLock
  <2>2. ASSUME NEW it \in Items, fate[it] = "cb" PROVE fate'[it] = "cb"
    BY <2>1, <2>2, ConstantsAssumption DEF SetFate, LaneWaits, ConnWaits
  <2>3. QueueWaits'
    <3> SUFFICES ASSUME NEW k \in Keys, NEW p \in 1 .. Len(queue[k])
                 PROVE  fate'[queue[k][p]] = "queued"
      BY <2>1 DEF LaneWaits, QueueWaits
    <3>1. queue[k][p] \in Items /\ queue[k][p] \notin S
      BY LaneItems, ConstantsAssumption
    <3> QED BY <3>1, <2>1 DEF SetFate, LaneWaits, QueueWaits
  <2> QED BY <1>2, <2>1, <2>2, <2>3 DEF LaneWaits, ConnWaits
<1>4. CASE StopWait
  <2> DEFINE S == UNION {InQueue(k) : k \in Keys}
  <2>1. /\ fate' = SetFate(S, "stopped")
        /\ queue' = [k \in Keys |-> << >>]
        /\ UNCHANGED <<sent, cbVars>>
        /\ \A a \in AGVs : connLatest'[a] = None
    BY <1>4 DEF StopWait, Inv, WakeInv, PendingOnlyRunning
  <2>2. ASSUME NEW it \in Items, fate[it] = "cb" PROVE fate'[it] = "cb"
    BY <2>1, <2>2 DEF SetFate, InQueue, LaneWaits, QueueWaits
  <2>3. QueueWaits' /\ ConnWaits'
    BY <2>1 DEF QueueWaits, ConnWaits
  <2> QED BY <1>2, <2>1, <2>2, <2>3 DEF LaneWaits
<1> QED BY <1>1, <1>3, <1>4

\* Every step keeps what is on a lane waiting, and on it once.
LEMMA WaitsNext == Inv /\ LaneWaits /\ [Next]_vars => LaneWaits'
<1> SUFFICES ASSUME Inv, LaneWaits, [Next]_vars PROVE LaneWaits'
  OBVIOUS
<1>1. CASE Callback
  <2>1. CASE Signal
    BY <2>1 DEF Signal, NextRoute, LaneWaits, CallbackWaits, ConnWaits,
                QueueWaits, Last
  <2>2. CASE Send
    <3>1. CASE cbPc' = "blocked" /\ UNCHANGED <<cbRoute, queue, fate>>
      BY <2>2, <3>1 DEF Send, LaneWaits, CallbackWaits, ConnWaits, QueueWaits,
                        Last
    <3> QED BY <2>2, <3>1, WaitsPut, WaitsDiscard DEF Send, PutCurrent
  <2>3. CASE Unblock
    BY <2>3, WaitsPut, WaitsDiscard DEF Unblock, PutCurrent
  <2> QED BY <1>1, <2>1, <2>2, <2>3, WaitsEnqueueConnection, WaitsQueueFor
          DEF Callback
<1>2. ASSUME NEW w \in Workers, Worker(w)
      PROVE  LaneWaits'
  <2>1. CASE HandlerReturns(w) \/ Exit(w) \/ TakeWake \/ DrainEnd
    BY <2>1, WaitsFrame DEF HandlerReturns, Exit, Leaves, TakeWake, DrainEnd, cbVars
  <2> QED BY <1>2, <2>1, WaitsTakeQueue, WaitsTakeConn DEF Worker, ConnWorker
<1>3. CASE StartDispatch \/ StopLock \/ StopWait
  BY <1>3, WaitsStartStop
<1>4. CASE Connected \/ ConnectFailed \/ StopCancel \/ StopDisconnect
  BY <1>4, WaitsFrame DEF Connected, ConnectFailed, StopCancel, StopDisconnect,
                          cbVars
<1>5. CASE UNCHANGED vars
  BY <1>5, WaitsFrame DEF vars, cbVars
<1> QED BY <1>1, <1>2, <1>3, <1>4, <1>5, WaitsDeliver DEF Next, Stop

-----------------------------------------------------------------------------
(***************************************************************************)
(* The refinement.                                                         *)
(***************************************************************************)
\* The items of OrderedLanes, and which of them wait.
LEMMA LanesItems ==
    /\ Lanes!Items = Items
    /\ Lanes!Waiting = {it \in Items : fate[it] \in Pending}
<1>1. Lanes!Items = Items
  BY DEF Lanes!Items, Items, Ids
<1>2. \A it \in Items : AbstractFate(fate[it]) = "waiting" <=> fate[it] \in Pending
  BY DEF AbstractFate, Pending
<1> QED BY <1>1, <1>2 DEF Lanes!Waiting

\* A step that decides about the items in L only.
LEMMA LanesBecome ==
    ASSUME NEW L, NEW s,
           \A it \in Items :
             AbstractFate(fate'[it]) = IF it \in L THEN s
                                       ELSE AbstractFate(fate[it])
    PROVE  Lanes!Become(L, s)
BY LanesItems DEF Lanes!Become

\* A step that OrderedLanes does not see.
LEMMA LanesStutter ==
    ASSUME (phase = "running")' = (phase = "running"), sent' = sent,
           \A it \in Items : AbstractFate(fate'[it]) = AbstractFate(fate[it])
    PROVE  UNCHANGED Lanes!vars
BY DEF Lanes!vars

\* The fates of what is given up look alike.
LEMMA LostFates ==
    ASSUME NEW S \in SUBSET Items, NEW f \in {"dropped", "superseded", "stopped"},
           fate' = SetFate(S, f)
    PROVE  Lanes!Become(S, "lost")
<1>1. AbstractFate(f) = "lost"
  BY DEF AbstractFate, Pending
<1> QED BY <1>1, LanesBecome DEF SetFate

\* What a stopped transport gives up, on the lanes or in the callback.
LEMMA RefineAbandon ==
    ASSUME NEW S \in SUBSET Items, \A it \in S : fate[it] \in Pending,
           fate' = SetFate(S, "stopped"), phase # "running",
           UNCHANGED <<phase, sent>>
    PROVE  Lanes!Next
<1>1. Lanes!Become(S, "lost")
  BY LostFates
<1>2. S \in SUBSET Lanes!Waiting
  BY LanesItems
<1> QED BY <1>1, <1>2 DEF Lanes!Next, Lanes!Abandon

\* A handler gets a message.  No older one of its lane waits: NoOvertaking.
LEMMA RefineHandle ==
    ASSUME Inv, NoOvertaking', NEW it \in Items, fate[it] \in Pending,
           it[1] \in 1 .. Last, fate' = SetFate({it}, "delivered"),
           UNCHANGED <<phase, sent>>
    PROVE  Lanes!Next
<1>1. Lanes!Become({it}, "handled")
  <2>1. AbstractFate("delivered") = "handled"
    BY DEF AbstractFate, Pending
  <2> QED BY <2>1, LanesBecome DEF SetFate
<1>2. ASSUME NEW old \in Items, fate[old] \in Pending, old[1] < it[1],
             Lanes!LaneOf(sent[old[1]]) = Lanes!LaneOf(sent[it[1]])
      PROVE  FALSE
  <2>1. /\ old = <<old[1], old[2]>> /\ it = <<it[1], it[2]>>
        /\ old[1] \in Nat /\ old[1] >= 1 /\ it[1] \in Nat
        /\ old[2] \in Routes /\ it[2] \in Routes
    BY <1>2 DEF Items, Ids
  <2>2. old[1] \in 1 .. Last
    BY <1>2, <2>1 DEF Inv, TypeInv, TypeOK, Last
  <2>3. Owner(sent[old[1]]) = Owner(sent[it[1]])
    BY <1>2, <2>2, SentType DEF Inv, Owner, Lanes!LaneOf, Messages, Channels
  <2>4. fate'[<<it[1], it[2]>>] = "delivered" /\ Last' = Last
    BY <2>1 DEF SetFate, Last
  <2>5. fate'[<<old[1], old[2]>>] \notin Pending
    BY <1>2, <2>1, <2>2, <2>3, <2>4 DEF NoOvertaking
  <2>6. fate'[old] = fate[old]
    BY <1>2 DEF SetFate
  <2> QED BY <1>2, <2>1, <2>5, <2>6
<1> QED BY <1>1, <1>2, LanesItems DEF Lanes!Next, Lanes!Handle

\* An arrival.
LEMMA RefineDeliver ==
    ASSUME Inv, NEW a \in AGVs, NEW ch \in Channels, Deliver(a, ch)
    PROVE  Lanes!Next
<1> DEFINE m == [agv |-> a, ch |-> ch]
           R == {r \in Routes : ch \in RouteChannels[r]}
<1>1. m \in Lanes!Messages
  BY DEF Lanes!Messages, Lanes!Channels, Channels
<1>2. Lanes!Become({Len(sent) + 1} \X R, "waiting")
  <2>1. AbstractFate("cb") = "waiting"
    BY DEF AbstractFate, Pending
  <2> QED BY <2>1, LanesBecome DEF Deliver, SetFate, Last
<1>3. Lanes!Arrive(m, R)
  BY <1>2 DEF Lanes!Arrive, Deliver, Last
<1> QED BY <1>1, <1>3 DEF Lanes!Next

\* The connection lane: what is overwritten is replaced by the newest.
LEMMA RefineEnqueueConnection ==
    ASSUME Inv, LaneWaits, NEW r \in Routes, EnqueueConnection(r)
    PROVE  Lanes!Next \/ UNCHANGED Lanes!vars
<1> DEFINE new == <<Last, r>>
           old == connLatest[Current.agv]
<1>1. /\ Last \in Ids /\ Current \in Messages /\ Current = sent[Last]
      /\ Current.agv \in AGVs /\ Current.ch = "connection"
      /\ new \in Items /\ fate[new] = "cb"
  BY CurrentType, LaneConnection
     DEF EnqueueConnection, Inv, Items, LaneWaits, CallbackWaits, Current
<1>2. UNCHANGED <<phase, sent>>
  BY DEF EnqueueConnection
<1>3. CASE phase = "running"
  <2>1. \A it \in Items : fate'[it] = IF it = new THEN "queued"
                                       ELSE IF it = old THEN "superseded"
                                       ELSE fate[it]
    BY <1>3 DEF EnqueueConnection, Coalesce
  <2>2. CASE old = None
    <3>1. \A it \in Items : AbstractFate(fate'[it]) = AbstractFate(fate[it])
      BY <1>1, <2>1, <2>2, ConstantsAssumption DEF AbstractFate, Pending
    <3> QED BY <3>1, <1>2, LanesStutter
  <2>3. CASE old # None
    <3>1. /\ old \in Items /\ old[1] \in 1 .. Last
          /\ sent[old[1]].ch = "connection"
          /\ sent[old[1]].agv = Current.agv /\ fate[old] = "queued"
      BY <1>1, <2>3, LaneItems DEF LaneWaits, ConnWaits
    <3>2. Lanes!Become({old}, "lost")
      <4>1. \A it \in Items :
              AbstractFate(fate'[it]) = IF it \in {old} THEN "lost"
                                        ELSE AbstractFate(fate[it])
        BY <1>1, <2>1, <3>1 DEF AbstractFate, Pending
      <4> QED BY <4>1, LanesBecome
    <3>3. sent[new[1]] = sent[old[1]]
      BY <1>1, <3>1, SentType DEF Inv, Messages
    <3>4. Lanes!Superseded(old)
      <4>1. new \in Lanes!Waiting \ {old} /\ new[1] >= old[1]
        BY <1>1, <3>1, LanesItems DEF Pending, Ids
      <4> QED BY <3>1, <3>3, <4>1 DEF Lanes!Superseded
    <3>5. old \in Lanes!Waiting
      BY <3>1, LanesItems DEF Pending
    <3>6. Lanes!Lose(old)
      BY <3>2, <3>4, <3>5, <1>2 DEF Lanes!Lose
    <3> QED BY <3>1, <3>6, LanesItems DEF Lanes!Next
  <2> QED BY <2>2, <2>3
<1>4. CASE phase # "running"
  <2>1. fate' = SetFate({new}, "stopped")
    BY <1>4 DEF EnqueueConnection
  <2> QED BY <1>1, <1>2, <1>4, <2>1, RefineAbandon DEF Pending
<1> QED BY <1>3, <1>4

\* The queues: the lookup, the send and the wait for room.
LEMMA RefineQueueFor ==
    ASSUME Inv, LaneWaits, NEW r \in Routes, QueueFor(r)
    PROVE  Lanes!Next \/ UNCHANGED Lanes!vars
<1>1. CASE phase = "running"
  BY <1>1, LanesStutter DEF QueueFor
<1>2. CASE phase # "running"
  <2>1. <<Last, r>> \in Items /\ fate[<<Last, r>>] = "cb"
    BY CurrentType DEF QueueFor, Inv, Items, LaneWaits, CallbackWaits
  <2>2. fate' = SetFate({<<Last, r>>}, "stopped") /\ UNCHANGED <<phase, sent>>
    BY <1>2 DEF QueueFor
  <2> QED BY <1>2, <2>1, <2>2, RefineAbandon DEF Pending
<1> QED BY <1>1, <1>2

LEMMA RefineSend ==
    ASSUME Inv, LaneWaits, Send \/ Unblock
    PROVE  Lanes!Next \/ UNCHANGED Lanes!vars
<1> DEFINE it0 == <<Last, cbRoute>>
<1>1. /\ it0 \in Items /\ fate[it0] = "cb" /\ Current = sent[Last]
      /\ UNCHANGED <<phase, sent>>
  BY InHand DEF Send, Unblock
<1>2. CASE fate' = SetFate({it0}, "queued") \/ UNCHANGED fate
  <2>1. \A it \in Items : AbstractFate(fate'[it]) = AbstractFate(fate[it])
    BY <1>1, <1>2 DEF SetFate, AbstractFate, Pending
  <2> QED BY <1>1, <2>1, LanesStutter
<1>3. CASE fate' = SetFate({it0}, "dropped") /\ Droppable(Current.ch)
  <2>1. Lanes!Become({it0}, "lost")
    BY <1>1, <1>3, LostFates
  <2>2. it0 \in Lanes!Waiting /\ sent[it0[1]].ch = "visualization"
    BY <1>1, <1>3, LanesItems DEF Pending, Droppable
  <2> QED BY <1>1, <2>1, <2>2, LanesItems DEF Lanes!Next, Lanes!Lose
<1>4. CASE fate' = SetFate({it0}, "stopped") /\ CtxDone
  <2>1. phase # "running"
    BY <1>4 DEF CtxDone
  <2> QED BY <1>1, <1>4, <2>1, RefineAbandon DEF Pending
<1> QED BY <1>2, <1>3, <1>4
        DEF Send, Unblock, PutCurrent, Discard, GivesUp, CtxDone

\* The workers.
LEMMA RefineWorker ==
    ASSUME Inv, LaneWaits, NoOvertaking', NEW w \in Workers, Worker(w)
    PROVE  Lanes!Next \/ UNCHANGED Lanes!vars
<1>1. CASE w \in Keys /\ TakeQueue(w)
  <2> DEFINE head == Head(queue[w])
  <2>1. /\ queue[w] \in Seq(Items) /\ Len(queue[w]) \in Nat \ {0}
        /\ head = queue[w][1]
    BY <1>1 DEF TakeQueue, Inv, TypeInv, TypeOK
  <2>2. /\ head \in Items /\ head[1] \in 1 .. Last /\ fate[head] = "queued"
    BY <1>1, <2>1, LaneItems DEF LaneWaits, QueueWaits
  <2> QED BY <1>1, <2>2, RefineHandle DEF TakeQueue, Pending
<1>2. ASSUME NEW a \in AGVs, TakeConn(a)
      PROVE  Lanes!Next
  BY <1>2, LaneItems, RefineHandle DEF TakeConn, LaneWaits, ConnWaits, Pending
<1>3. CASE HandlerReturns(w) \/ Exit(w) \/ TakeWake \/ DrainEnd
  BY <1>3, LanesStutter DEF HandlerReturns, Exit, Leaves, TakeWake, DrainEnd
<1> QED BY <1>1, <1>2, <1>3 DEF Worker, ConnWorker

\* Start and Stop.
LEMMA RefineStartStop ==
    ASSUME Inv, LaneWaits,
           StartDispatch \/ Connected \/ ConnectFailed \/ StopLock \/ Stop
    PROVE  Lanes!Next \/ UNCHANGED Lanes!vars
<1>1. CASE StartDispatch \/ ConnectFailed \/ StopCancel \/ StopDisconnect
  BY <1>1, LanesStutter DEF StartDispatch, ConnectFailed, StopCancel,
                            StopDisconnect
<1>2. CASE Connected
  BY <1>2 DEF Connected, Lanes!Next, Lanes!Open
<1>3. CASE StopLock
  <2> DEFINE S == {it \in Items : \E a \in AGVs : connLatest[a] = it}
  <2>1. fate' = SetFate(S, "stopped")
    BY <1>3 DEF StopLock, SetFate
  <2>2. Lanes!Become(S, "lost")
    BY <2>1, LostFates
  <2>3. S \in SUBSET Lanes!Waiting
    BY LanesItems, ConstantsAssumption DEF LaneWaits, ConnWaits, Pending
  <2>4. Lanes!Close(S)
    BY <1>3, <2>2 DEF StopLock, Lanes!Close
  <2> QED BY <2>3, <2>4 DEF Lanes!Next
<1>4. CASE StopWait
  <2> DEFINE S == UNION {InQueue(k) : k \in Keys}
  <2>1. \A it \in S : it \in Items /\ fate[it] = "queued"
    BY LaneItems DEF InQueue, LaneWaits, QueueWaits
  <2>2. S \in SUBSET Items
    BY <2>1
  <2>3. fate' = SetFate(S, "stopped") /\ phase # "running" /\ sent' = sent
    BY <1>4 DEF StopWait
  <2>4. Lanes!Become(S, "lost")
    BY <2>2, <2>3, LostFates
  <2>5. S \in SUBSET Lanes!Waiting
    BY <2>1, LanesItems DEF Pending
  <2>6. Lanes!Abandon(S)
    BY <1>4, <2>3, <2>4 DEF StopWait, Lanes!Abandon
  <2> QED BY <2>5, <2>6 DEF Lanes!Next
<1> QED BY <1>1, <1>2, <1>3, <1>4 DEF Stop

\* The dispatcher does what OrderedLanes allows, and nothing else: each message
\* is handled at most once by each route it matches, in order on its lane, and
\* nothing is lost that may not be.
THEOREM LanesImplemented == Spec => ImplementsLanes
<1>1. Init => Lanes!Init
  <2>1. AbstractFate("none") = "none"
    BY DEF AbstractFate, Pending
  <2> QED BY <2>1, LanesItems DEF Init, Lanes!Init
<1>2. Init => LaneWaits
  <2>1. Init => \A k \in Keys : Len(queue[k]) = 0
    BY DEF Init
  <2> QED BY <2>1 DEF Init, LaneWaits, CallbackWaits, ConnWaits, QueueWaits
<1>3. ASSUME Inv, LaneWaits, Inv', [Next]_vars
      PROVE  [Lanes!Next]_(Lanes!vars)
  <2>0. NoOvertaking'
    BY <1>3 DEF Inv, OrderInv
  <2>1. CASE Callback
    <3>1. CASE Signal
      BY <3>1, LanesStutter DEF Signal
    <3> QED BY <1>3, <2>1, <3>1, RefineEnqueueConnection, RefineQueueFor,
               RefineSend DEF Callback
  <2>2. CASE UNCHANGED vars
    BY <2>2, LanesStutter DEF vars
  <2> QED BY <1>3, <2>0, <2>1, <2>2, RefineDeliver, RefineWorker,
             RefineStartStop DEF Next
<1> QED BY <1>1, <1>2, <1>3, InvInit, InvNext, WaitsNext, PTL
        DEF Spec, ImplementsLanes, Lanes!Spec

-----------------------------------------------------------------------------
(***************************************************************************)
(* Coalescing.  The map is keyed by AGV and not by route, so what is       *)
(* promised of connection states takes one route for them.                 *)
(***************************************************************************)
OneConnectionRoute ==
    \A r, q \in Routes :
        "connection" \in RouteChannels[r] \cap RouteChannels[q] => r = q

\* Only routes that match a message have anything to do with it.
RoutesMatch ==
    \A it \in Items :
        fate[it] # "none" => sent[it[1]].ch \in RouteChannels[it[2]]

\* A step decides about an arrival, about messages that wait, or about the
\* connection state that it overwrites.
LEMMA FateChange ==
    ASSUME Inv, LaneWaits, [Next]_vars, NEW it \in Items, fate'[it] # fate[it]
    PROVE  \/ \E a \in AGVs, ch \in Channels :
                /\ Deliver(a, ch) /\ it[1] = Last + 1
                /\ ch \in RouteChannels[it[2]] /\ fate'[it] = "cb"
           \/ /\ fate[it] \in Pending
              /\ fate'[it] \in {"queued", "delivered", "dropped", "stopped"}
           \/ \E r \in Routes :
                /\ EnqueueConnection(r) /\ phase = "running"
                /\ it = connLatest[Current.agv]
                /\ fate[it] = "queued" /\ fate'[it] = "superseded"
<1>1. ASSUME NEW a \in AGVs, NEW ch \in Channels, Deliver(a, ch)
      PROVE  /\ it[1] = Last + 1
             /\ ch \in RouteChannels[it[2]] /\ fate'[it] = "cb"
  <2>1. it \in {Last + 1} \X {r \in Routes : ch \in RouteChannels[r]}
    BY <1>1 DEF Deliver, SetFate
  <2> QED BY <1>1, <2>1 DEF Deliver, SetFate
<1>2. ASSUME NEW r \in Routes, EnqueueConnection(r)
      PROVE  \/ fate[it] \in Pending /\ fate'[it] \in {"queued", "stopped"}
             \/ /\ phase = "running" /\ it = connLatest[Current.agv]
                /\ fate[it] = "queued" /\ fate'[it] = "superseded"
  <2>1. <<Last, r>> \in Items /\ fate[<<Last, r>>] = "cb" /\ Current.agv \in AGVs
    BY <1>2, CurrentType
       DEF EnqueueConnection, Inv, Items, LaneWaits, CallbackWaits
  <2>2. CASE phase = "running"
    <3>1. it = connLatest[Current.agv] => fate[it] = "queued"
      BY <2>1, ConstantsAssumption DEF LaneWaits, ConnWaits
    <3> QED BY <1>2, <2>1, <2>2, <3>1 DEF EnqueueConnection, Coalesce, Pending
  <2>3. CASE phase # "running"
    BY <1>2, <2>1, <2>3 DEF EnqueueConnection, SetFate, Pending
  <2> QED BY <2>2, <2>3
<1>3. ASSUME NEW r \in Routes, QueueFor(r)
      PROVE  fate[it] \in Pending /\ fate'[it] = "stopped"
  BY <1>3, CurrentType
     DEF QueueFor, Inv, Items, LaneWaits, CallbackWaits, SetFate, Pending
<1>4. CASE Send \/ Unblock
  BY <1>4, InHand DEF Send, Unblock, PutCurrent, Discard, SetFate, Pending
<1>5. ASSUME NEW k \in Keys, TakeQueue(k)
      PROVE  fate[it] \in Pending /\ fate'[it] = "delivered"
  <2>1. fate' = SetFate({Head(queue[k])}, "delivered")
    BY <1>5 DEF TakeQueue
  <2>2. /\ queue[k] \in Seq(Items) /\ Len(queue[k]) \in Nat \ {0}
        /\ Head(queue[k]) = queue[k][1]
    BY <1>5 DEF TakeQueue, Inv, TypeInv, TypeOK
  <2>3. fate[Head(queue[k])] = "queued"
    BY <2>2 DEF LaneWaits, QueueWaits
  <2> QED BY <2>1, <2>3 DEF SetFate, Pending
<1>6. ASSUME NEW a \in AGVs, TakeConn(a)
      PROVE  fate[it] \in Pending /\ fate'[it] = "delivered"
  BY <1>6 DEF TakeConn, SetFate, LaneWaits, ConnWaits, Pending
<1>7. CASE StopLock
  BY <1>7, ConstantsAssumption
     DEF StopLock, SetFate, LaneWaits, ConnWaits, Pending
<1>8. CASE StopWait
  BY <1>8 DEF StopWait, SetFate, InQueue, LaneWaits, QueueWaits, Pending
<1>9. /\ ~ Signal /\ ~ UNCHANGED vars
      /\ ~ (StartDispatch \/ Connected \/ ConnectFailed \/ StopCancel
              \/ StopDisconnect \/ TakeWake \/ DrainEnd)
  BY DEF Signal, vars, StartDispatch, Connected, ConnectFailed, StopCancel,
         StopDisconnect, TakeWake, DrainEnd
<1>10. ASSUME NEW w \in Workers PROVE ~ (HandlerReturns(w) \/ Exit(w))
  BY DEF HandlerReturns, Exit, Leaves
<1> QED
  BY <1>1, <1>2, <1>3, <1>4, <1>5, <1>6, <1>7, <1>8, <1>9, <1>10
     DEF Next, Callback, Worker, ConnWorker, Stop

\* Messages that arrived stay as they are.
LEMMA SentGrows ==
    ASSUME Inv, [Next]_vars
    PROVE  /\ Last \in Nat /\ Last' \in Nat /\ Last <= Last'
           /\ \A i \in 1 .. Last : sent'[i] = sent[i]
           /\ \A a \in AGVs, ch \in Channels :
                Deliver(a, ch) => Last' = Last + 1 /\ sent'[Last'].ch = ch
<1>1. sent \in Seq(Messages) /\ Last \in Nat
  BY DEF Inv, TypeInv, TypeOK, Last
<1>2. ASSUME NEW a \in AGVs, NEW ch \in Channels, Deliver(a, ch)
      PROVE  /\ Last' = Last + 1 /\ sent'[Last'].ch = ch
             /\ \A i \in 1 .. Last : sent'[i] = sent[i]
  <2>1. sent' = Append(sent, [agv |-> a, ch |-> ch])
    BY <1>2 DEF Deliver
  <2>2. [agv |-> a, ch |-> ch] \in Messages
    BY DEF Messages
  <2> QED BY <1>1, <2>1, <2>2 DEF Last
<1>3. sent' = sent \/ \E a \in AGVs, ch \in Channels : Deliver(a, ch)
  BY DEF Next, Callback, Worker, ConnWorker, Stop, EnqueueConnection, QueueFor,
         Signal, Send, Unblock, Exit, Leaves, HandlerReturns, TakeQueue, TakeWake,
         DrainEnd, TakeConn, StartDispatch, Connected, ConnectFailed, StopLock,
         StopCancel, StopDisconnect, StopWait, vars
<1>4. CASE sent' = sent
  BY <1>1, <1>2, <1>4 DEF Last
<1>5. CASE \E a \in AGVs, ch \in Channels : Deliver(a, ch)
  BY <1>1, <1>2, <1>5
<1> QED BY <1>3, <1>4, <1>5

\* With one route for connection states, the newest one is never overwritten.
LEMMA NewestNext ==
    ASSUME OneConnectionRoute, Inv, Inv', LaneWaits, RoutesMatch,
           CoalesceKeepsNewest, [Next]_vars
    PROVE  RoutesMatch' /\ CoalesceKeepsNewest'
<1>1. ASSUME NEW it \in Items, fate[it] # "none" PROVE it[1] \in 1 .. Last
  BY <1>1, SentGrows DEF Inv, OrderInv, FutureUntouched, Items, Ids
<1>2. ASSUME NEW it \in Items, fate[it] # "none" PROVE fate'[it] # "none"
  BY <1>2, FateChange
<1>3. RoutesMatch'
  <2> SUFFICES ASSUME NEW it \in Items, fate'[it] # "none"
               PROVE  sent'[it[1]].ch \in RouteChannels[it[2]]
    BY DEF RoutesMatch
  <2>1. CASE fate[it] # "none"
    BY <2>1, <1>1, SentGrows DEF RoutesMatch
  <2>2. CASE fate[it] = "none"
    <3>1. PICK a \in AGVs, ch \in Channels :
            /\ Deliver(a, ch) /\ it[1] = Last + 1
            /\ ch \in RouteChannels[it[2]]
      BY <2>2, FateChange DEF Pending
    <3> QED BY <3>1, SentGrows
  <2> QED BY <2>1, <2>2
<1>4. CoalesceKeepsNewest'
  <2> SUFFICES ASSUME NEW i \in 1 .. Last', NEW r \in Routes,
                      fate'[<<i, r>>] = "superseded"
               PROVE  \E j \in i + 1 .. Last' :
                        sent'[j] = sent'[i] /\ fate'[<<j, r>>] # "none"
    BY DEF CoalesceKeepsNewest
  <2>1. <<i, r>> \in Items
    <3>1. Last' <= MaxMsgs
      BY DEF Inv, TypeInv, TypeOK, Last
    <3> QED BY <3>1, SentGrows, ConstantsAssumption DEF Items, Ids
  <2>2. CASE fate[<<i, r>>] = "superseded"
    <3>1. i \in 1 .. Last
      BY <2>1, <2>2, <1>1
    <3>2. PICK j \in i + 1 .. Last : sent[j] = sent[i] /\ fate[<<j, r>>] # "none"
      BY <2>2, <3>1 DEF CoalesceKeepsNewest
    <3>3. <<j, r>> \in Items /\ j \in 1 .. Last
      BY <3>1, <3>2, SentGrows, SentType DEF Inv, Items
    <3> QED BY <3>1, <3>2, <3>3, <1>2, SentGrows
  <2>3. CASE fate[<<i, r>>] # "superseded"
    <3>1. PICK q \in Routes :
            /\ EnqueueConnection(q) /\ phase = "running"
            /\ <<i, r>> = connLatest[Current.agv] /\ fate[<<i, r>>] = "queued"
      BY <2>1, <2>3, FateChange
    <3>2. /\ Last \in Ids /\ Current = sent[Last] /\ Current \in Messages
          /\ Current.ch = "connection" /\ Current.agv \in AGVs
          /\ <<Last, q>> \in Items /\ fate[<<Last, q>>] = "cb"
      BY <3>1, CurrentType, LaneConnection
         DEF EnqueueConnection, Inv, Items, LaneWaits, CallbackWaits, Current
    <3>3. /\ i \in 1 .. Last /\ sent[i].ch = "connection"
          /\ sent[i].agv = Current.agv
      <4>1. /\ connLatest[Current.agv] # None
            /\ connLatest[Current.agv][1] = i
        BY <2>1, <3>1, ConstantsAssumption
      <4> QED BY <3>2, <4>1, LaneItems
    <3>4. sent[i] = sent[Last]
      BY <3>2, <3>3, SentType DEF Inv, Messages
    <3>5. q = r
      <4>1. /\ "connection" \in RouteChannels[q]
            /\ "connection" \in RouteChannels[r]
        BY <2>1, <3>1, <3>2, <3>3 DEF RoutesMatch
      <4> QED BY <4>1 DEF OneConnectionRoute
    <3>6. i < Last
      BY <3>1, <3>2, <3>3, <3>5, SentGrows
    <3>7. /\ Last' = Last /\ sent' = sent /\ fate'[<<Last, r>>] # "none"
      BY <3>1, <3>2, <3>5, <1>2 DEF EnqueueConnection, Last
    <3> QED BY <3>4, <3>6, <3>7, SentGrows
  <2> QED BY <2>2, <2>3
<1> QED BY <1>3, <1>4

\* If all connection states go to one route, as OnConnection makes it, a route
\* loses a connection state only to a newer one of the same AGV.
THEOREM NewestStateKept ==
    ASSUME OneConnectionRoute
    PROVE  Spec => []CoalesceKeepsNewest
<1>1. Init => RoutesMatch /\ CoalesceKeepsNewest /\ LaneWaits
  <2>1. Init => \A k \in Keys : Len(queue[k]) = 0
    BY DEF Init
  <2>2. Init => Last = 0
    BY DEF Init, Last
  <2> QED BY <2>1, <2>2 DEF Init, RoutesMatch, CoalesceKeepsNewest, LaneWaits,
                       CallbackWaits, ConnWaits, QueueWaits
<1>2. Inv /\ Inv' /\ LaneWaits /\ RoutesMatch /\ CoalesceKeepsNewest
        /\ [Next]_vars => RoutesMatch' /\ CoalesceKeepsNewest'
  BY NewestNext
<1> QED BY <1>1, <1>2, InvInit, InvNext, WaitsNext, PTL DEF Spec
=============================================================================
