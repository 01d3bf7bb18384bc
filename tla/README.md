# A verification project for navlink

navlink is a Go library with which a fleet platform talks VDA 5050 over MQTT: it
receives the states of AGVs, keeps the subscriptions of the AGVs a platform
tracks, and publishes orders. This directory holds TLA+ models of its concurrent
parts, TLC configurations that check them on small instances, and proofs that
TLAPS checks for every size.

`tlc -config <run>.cfg <MC module>` checks a run, `tlapm <module>.tla` the
proofs. `PROJECT.json` lists runs, the lines each definition models, findings,
hazards and theorems.

## 1. The system

| Component | State | Operations | Hard because |
|---|---|---|---|
| MQTT transport, inbound dispatch (`internal/mqtt/dispatch.go`, `classify.go`, `transport.go`) | lanes: `connLatest` + `connWake`, one queue per AGV, `topicQ`; one worker each; `running`, dispatch context | `enqueue` (paho's goroutine), workers, `Start`, `Stop` | queue limits, a signal outside the lock, a callback that blocks while Stop runs |
| Client life cycle and connection callbacks (`client.go`, `transport.go`, `wait.go`) | `started`, `unsubs`, `c.mu`; `wasConnected`, `stopping`, one paho client per Start | `Start`, `Stop`, `handleReconnect`, `onConnect`, `Subscribe`, `waitToken` | `c.mu` is held while the broker answers; late callbacks after a failed Start or a Stop |
| Fleet session (`internal/session/fleet.go`), driven by `client.go` | `tracked` with Unsubscribe handles, `started`, `connUnsub` | `Start`, `Stop`, `Track`, `Untrack`, `Restore` | broker calls with the mutex released; reconnect callbacks; partial failure; MQTT unsubscribes by filter |
| Auto-track worker (`fleet_autotrack.go`) | bounded job queue, one worker, its context | `scheduleAutoTrack`, worker, start, stop | full queue, Stop against a running job |
| Publishing (`agv.go`, `instant.go`, `outbound_validate.go`, `publish.go`, `Transport.Publish`, `waitToken`) | none of its own; paho's token, the platform's ledger | `PublishOrder`, `PublishInstantActions`, helpers, `ClassifyPublish` | timeout or cancellation against a late PUBACK; Stop and restart under a waiting publish |
| Inbound pipeline (`inbound.go`, `inbound_policy.go`) | watermarks of the header policy | `onRawMessage`, identity check, `Classify`, handler calls | which check comes first; workers in parallel |
| Handlers and event bus (`client.go` On*, `eventbus_client.go`, `internal/bus`) | handler lists, bus subscriptions, `busUnsubs` | `On*`, `UseEventBus`, `Subscribe`, `Emit`, bus part of `Stop` | handlers move while messages are handled; restart |
| Topics and facts (`topic/resolver.go`, `classify.go`, `facts/facts.go`) | none; the platform keeps the previous state of each AGV | `Build`, `Parse`, `Apply` | the lane key and the identity are cut from opposite ends of a topic; facts are differences |
| Extensions, config, error codes, test kit, examples | little or none | pure functions | - |

How they interact: paho calls `enqueue`; lane workers call `onRawMessage`, which
calls handlers or publishes on the bus, and hands connection states to the
auto-track worker; that worker and the platform call the fleet session, which
subscribes through the transport; paho's connect callback runs
`handleReconnect`, which subscribes again and runs `Restore`. `Client.mu`
protects the client's flags and lists, and Start and `handleReconnect` hold it
across their Subscribes; `FleetSession.mu` protects the tracked map and
`Transport.mu` the lanes, and both are released for every broker call of Track,
Untrack and enqueue.

What makes each part correct:

- dispatch: per-AGV order, nothing but visualizations discarded, latest
  connection state wins, what is queued on one lane does not wait for another,
  Stop returns;
- life cycle: after any reconnect the broker has all filters; Stop leaves nothing
  running and no filter at the broker; no call hangs on a broker that does not answer;
- fleet: session, broker, hooks and the platform's last call agree when
  everything is quiet; no subscription without an owner; auto-track follows the
  newest connection state;
- publishing: the verdict tells the truth about the packet, and following it
  never delivers an ID twice; every publish returns;
- inbound: a foreign payload reaches nobody and leaves no trace; every
  registered handler gets every message once, in order;
- facts: a platform that replays them knows the state of each AGV.

## 2. The models

Every module keeps the control of the code: one action per locked section,
unlocked call or channel operation. Data is cut to what the properties tell
apart; the module headers say how.

**OrderedLanes** - what the transport promises, without queues, workers or
locks: a message waits on each route it matches, is handled when nothing older
of its lane waits, and is lost only if it is a visualization, or a connection
state in whose place one at least as new waits, or when the transport closes.

**MqttDispatch** - a topic is a pair (AGV, channel). `Deliver` is paho (external):
a message and the routes that match it. `EnqueueConnection`, `Signal`,
`QueueFor`, `Send` and `Unblock` are the stretches of `enqueue` between unlocks;
`TakeQueue`, `TakeWake`, `TakeConn`, `DrainEnd`, `HandlerReturns`, `Exit` the
workers; `StartDispatch` ... `StopWait` the halves of Start and Stop. Disconnect gives up
after 250 ms, so `StopDisconnect` waits for nobody, and a callback may outlive
Stop; it then puts its message into a channel nobody reads, or gives up.
`StartDispatch` waits for it (a bound: one callback at a time). `fate` is
a history of what became of each message on each route, and the refinement
mapping reads it: in the callback or on a lane is "waiting", superseded,
dropped or stopped is "lost".

**ClientSession** - a client without a fleet. `holder` is who holds `c.mu`.
`Start` ... `Drain` are Client.Start and Client.Stop with the transport's;
`OnConnect`, `ReconnectForget`, `ReconnectSubscribe` run in a goroutine per
connection, as paho starts them; `SubscribeNext`, `Suback`, `SubscribeFails` are
`subscribeLocked` with `waitToken`. paho and the broker (`Connect`, `Lose`,
`SameConnection`, `Answered`) are external. The lanes are one queue with one
worker (`Arrive`, `Unblock`, `Take`, `Handle`, `Exit`), which blocks paho when it
is full: then no SUBACK is read. `Disconnect` waits for nobody here either. A
lost connection loses the filters, as sessions are clean.

**FleetSession** - `th[p]` is the call a goroutine is in. `Check`, `Subscribe`,
`Insert`, `Rollback`, `Online` are `track`; `Remove`, `Unsubscribe`, `Offline`
are `untrack`; `StopSnapshot` ... `Disconnect` are Client.Stop;
`HandleReconnect` ... `RestoreEnd` are `handleReconnect` with `Restore`. The
broker is a set of subscriptions, and Unsubscribe (`Cancel`) removes all of its
filter, as in MQTT; the FakeBroker of the test kit removes one, so a test with it
cannot see what that does to a call that uses the same filter. `Faults` says how Subscribe and Unsubscribe may fail. `want` and `restoreOK`
record what the platform asked for last and whether Restore reported success.

**FleetAutoTrack** - extends FleetSession: the worker is one more of its
goroutines, and its calls come out of `jobs`. `Schedule` is
`scheduleAutoTrack`, `TakeJob` and `JobStep` the worker, `AutoStart`, `AutoStop`,
`AutoStopped` and `WorkerExit` start and stop, `ManualCall` a platform that calls
Track and Untrack beside it. `latest`, `reported`, `manual` and `raced` (the AGVs
that two calls were at work on at once, until they are untracked and left alone)
are history.

**PublishOutcome** - each attempt has its ID, its packet at the broker, its
token and its verdict. `Publish` is the code up to `Transport.Publish`;
`CheckRunning`, `HandOver` and `Wait` are its stretches. paho and the broker
(`Handed`, `Sent`, `SendTimesOut`, `Arrive`, `Complete`, `End`, `LoseConnection`,
`Reconnect`) are external and follow paho v1.5.0, which go.mod names: Publish
stores a packet of QoS 1 or 2 and blocks until the connection's writer takes it;
after 30 s (`SendTimesOut`, if `SendTimeouts` allows it) the token has an error
and the packet stays in the store; a reconnect sends what is stored and completes
the tokens that wait. The platform follows `examples/dispatch-egress-sketch`: an ID is used again only
after NotStarted.

**InboundEvents** - a message is what the checks tell apart. `Receive` is
`onRawMessage` up to the handlers (its only shared state is the watermark, under
a lock of its own); `Invoke` is the section under `c.mu` of the invoke
functions, `Publish` the copy of the subscriptions under the lock of the bus,
`CallHandler` one call. A handler is one registration. `owed` and `silent`
record, for each message, who is to get it and who must not.

**Topics** and **Facts** are operators, **StateObserver** puts them together: a
topic is a sequence of segments, so a name with a slash is two. `Build`, `Parses`
and `Identity` are the resolver, `ShardKey` the lane key of `classifyInbound`,
`MatchFilter` the matching of the test kit. `Apply` is facts.Apply. A state
message arrives on a topic, and the platform replays the facts that Apply
derives from it and from the state it remembers: `Classify` is the choice of the
lane in `enqueue`, `Deliver` is onRawMessage, `Observe` the platform's handler.

The MC modules give the constants that are not plain values; the `Mut...`
definitions are deliberately wrong variants of single operators, each of which
breaks one property: they show that the property depends on that code.

## 3. Runs

Passing:

| Run | Instance | Shows |
|---|---|---|
| dispatch_safety | 2 AGVs, 1 route, queues of 1, 3 messages, restarts | order per lane, newest connection state kept, no lost wake-up, only droppable losses; MqttDispatch implements OrderedLanes |
| dispatch_live | 1 AGV, 2 routes, 2 messages | every message settles, Stop returns, a queued message does not wait for another lane, the callback gets out of enqueue |
| client_session | 2 filters, queue of 1, 2 Starts, 3 connections | subscriptions restored, Stop leaves no worker, filter or connection (but clients whose Start gave up), every call returns |
| fleet_serial | 2 AGVs, 2 callers and a restorer whose calls do not overlap except in Track and Untrack of different AGVs (`CONSTRAINT Apart`), 2 reconnects, no failures | all agreement properties of the session for such calls |
| fleet_leak | 2 callers and a restorer over MQTT, rejections, Stop | no subscription without an owner |
| fleet_autotrack | the worker and one platform goroutine, queue of 2, all faults, Stop | tracked AGVs are subscribed unless two calls were at work on them at once, hooks agree, nothing tracked after Stop, the newest connection state wins |
| publish_drained | 2 publishers, 3 attempts, 2 starts, QoS 1, auto-reconnect, no send timeouts | NotStarted means no packet; no ID delivered twice |
| publish_stop | Stop at any time, send timeouts, no auto-reconnect, a broker that may stay silent | Accepted means delivered; identity on the wire; every publish returns |
| events | 2 handlers, 1 worker, 3 messages of 3 kinds, one bus | every handler once, in order, none after removal; refused messages leave no trace |
| state_observer | 3 AGVs, one with a slash in its name, stray topics, 6 states | the replayed picture is the last state; a lane is a vehicle |

Violations - a disagreement between the code and a sentence in it, quoted in
`PROJECT.json`:

| Run | What the counterexample shows |
|---|---|
| publish_stop_race | Stop under a waiting publish: NotStarted, and the packet was delivered |
| client_deadlock | messages that arrive while Start subscribes: a Subscribe fails, Start stops the transport under `c.mu` (`client.go:281`) and waits for a worker that waits for `c.mu`; Start, and every later call, hangs |

The other properties also have limits, which is why the passing runs exclude
these cases. Each row changes constants of a passing run, or drops its constraint, and the
property then fails:

| Run, change | Property that fails | Because |
|---|---|---|
| dispatch_safety, two routes, `RouteChannels <- MCConnection` | CoalesceKeepsNewest | `connLatest` is keyed by AGV: the second route overwrites the first (`dispatch.go:101`) |
| fleet_serial without `Apart`, `AGVs = {a1}`, `Restorers = {}`, `MaxReconnects = 0` | TrackedSubscribed | of two Track calls for one AGV the loser's rollback unsubscribes the winner's filters (`fleet.go:253`) |
| fleet_leak, `Callers = {c1}`, `Faults = {}` | TrackedSubscribed | Track enters handles of the lost connection after Restore's snapshot (`fleet.go:258`) |
| fleet_leak, `Callers = {c1}`, `Faults = {}` | HooksAgree | Track of an AGV that Restore has taken out of the map fires its online hook again (`fleet.go:199`) |
| fleet_leak, `Callers = {c1}`, `Faults = {}` | UntrackSticks | Untrack finds no entry and Restore tracks the AGV afterwards (`fleet.go:273`) |
| fleet_leak, `Faults = {"timeout"}` | NoLeakedSubscription | a Subscribe whose answer is late leaves a subscription without a handle (`transport.go:299`) |
| fleet_serial, `Faults = {"reject"}` | TrackSticks | Restore returns at the first AGV that fails and the others are forgotten (`fleet.go:211`) |
| fleet_serial, `Faults = {"reject"}` | HooksAgree | and get no offline hook |
| fleet_serial, `Faults = {"reject"}` | ConnectionSubscribed | Client.Start fails after FleetSession.Start, whose `started` makes the retry skip the wildcard (`client.go:280`) |
| fleet_serial without `Apart` | ConnectionSubscribed | Restore sets `started` after Stop cleared it (`fleet.go:112`) |
| fleet_serial, `Faults = {"timeout"}` | TrackSticks, HooksAgree, ConnectionSubscribed | as for `reject`: the Subscribe reports an error |
| fleet_serial, `Faults = {"timeout"}` | UntrackSticks | the same late Subscribe (`transport.go:299`) |
| fleet_serial, `Faults = {"unsub"}` | UntrackSticks | untrack forgets the handles before it uses them; the retry returns nil (`fleet.go:278`) |
| fleet_serial without `Apart` | StopUntracksAll | a Track that passed `requireStarted` enters its AGV after Stop (`client.go:234`) |
| publish_drained, `SendTimeouts = TRUE` | NotStartedNeverSent, NoIdDeliveredTwice | the token has an error after paho's 30 s, and the stored packet is sent at the next reconnect (`transport.go:272`, `publish.go:65`) |
| publish_stop, `AutoReconnect = TRUE` | AcceptedDelivered | paho completes the token when it resumes, before any PUBACK (`transport.go:276`) |
| events, `MaxStarts = 2` | NobodyMissed | Stop drops the bus subscriptions of On* handlers for good (`client.go:325`) |
| events, two buses | NobodyMissed | a second UseEventBus leaves handlers on the first bus (`eventbus_client.go:19`) |
| events, `Failing = {h1}` | NobodyMissed | the bus stops at the first subscriber that fails (`memory.go:45`) |

What the constants cannot switch on, the properties or assumptions exclude:

- a Start that gives up on its connection leaves a paho client with the same
  ClientID behind, which may still connect (`transport.go:160`): StopLeavesNothing
  excepts it (`gaveUp`), Restored does not;
- the two-Track race of the table also happens between the auto-track worker and
  the platform: UncontestedSubscribed excepts the AGVs in `raced`;
- one paho goroutine reads for every AGV: a handler that never returns fills its
  queue, and then the callback, and with it the whole fleet, waits until Stop
  (`dispatch.go:183`). QueuedLanesIsolated is about messages already queued, and
  CallbackReturns about a callback whose own lane moves or is stopped;
- a callback that outlives Stop and reaches the lanes of the next Start;
- the bus publishes from a copy of its subscriptions, so a handler that is removed
  meanwhile is still called (`memory.go:41`): RemovedIsSilent is about messages
  that arrive after Unsubscribe has returned;
- two actions with one ID in a state: facts.Apply compares by ID, and the picture
  may keep the wrong one; and another publisher on the state topic of an AGV,
  whose messages are then taken for the AGV's (`ObserverAssumption` excludes
  both);
- an AGV whose name has a slash can be tracked, but none of its messages parses:
  PictureFollows is about the AGVs that can be addressed (`Addressable`);
- FakeBroker's `matchFilter` treats `#` as one segment where MQTT matches any
  number (`fake_broker.go:247`); the filters the client builds itself have none.

**Bounds.** `QSize` 1 makes every queue full at the second message, and three
messages give one handled, one queued and one blocked; two AGVs are enough for
isolation because lanes share only the callback. Two Starts and three connections
give a reconnect, a Start that gave up and a restart, and goroutines of two
connections at once; two filters let the second Subscribe fail after the first
succeeded. Two callers and a restorer give every pair of overlapping calls;
`MaxCalls` and `MaxReconnects` leave room for a call before, during and after. A
job queue of 2 is full with a job of either kind behind the one in hand. Three
attempts let an ID be used, used again and used after a restart. One inbound
worker handles a message while handlers come and go; three messages give an
accepted, a foreign and a stale one. Six states cover an action that appears,
changes, disappears and comes back. Deadlock is checked where the model has no
bound that stops it (dispatch_safety, dispatch_live, state_observer); elsewhere
the bounded calls come to an end.

**Fairness.** Goroutines that can run do run (weak fairness of each worker, of
the callback, of the calls of the client and of a publish), which the Go
scheduler and ready channels justify; timers expire, paho's 30 s in Publish among
them. In MqttDispatch no handler
has to return: its liveness properties name, for each conclusion, whose
handlers it needs. In ClientSession handlers return, as README.md:76 of the
library demands of them. Nothing is asked of the broker, the network or the
platform: no connection has to come up and no answer has to arrive.

**Assumed of the platform.** One goroutine starts and stops the client
(ClientSession), a Start does not overlap a Stop in progress, sessions are clean
and `AutoReconnect` is on unless a run says otherwise.

## 4. Proofs

`MqttDispatchProofs`, for any AGVs, routes, queue size and number of messages,
with `ConstantsAssumption` (distinct identifiers, a positive queue size):

- TypeCorrect; the strengthening says what the callback holds in each place;
- WakeupSafe: with it, that only a running transport has pending connection
  states, NoLostWakeup is inductive;
- OrderCorrect: NoOvertaking is not inductive. The invariant adds that every
  queue is sorted by arrival, that what waits is where its lane says
  (`WaitsOnItsLane`), that a pending connection state is under its AGV's key
  (`ConnKeyed`), that what the callback holds belongs to the last arrival
  (`CallbackHolds`), and that nothing has happened to what has not arrived;
- LossCorrect: the action property LosesOnlyDroppable, from the same invariant;
- LanesImplemented: MqttDispatch implements OrderedLanes. That a handler gets the
  oldest message of its lane follows from NoOvertaking in the successor state;
  that it gets each message once needs the converse of WaitsOnItsLane, that what
  is on a lane waits and is there once (`LaneWaits`), which is proved inductive
  first. Then one lemma per kind of step maps it to a step or a stutter;
- NewestStateKept: CoalesceKeepsNewest, provided that all connection states have
  one route (`OneConnectionRoute`), as they have when no OnTopic filter matches
  them too; without it the first row of the limits refutes it.

`PublishOutcomeProofs`, for any publishers, attempts and restarts:

- PublishTypeCorrect;
- AcceptedSound, without `AutoReconnect`: no connection is then resumed
  (`NeverDown`), and a token that is "ok" at QoS 1 or 2 belongs to a delivered
  packet; with it the limits refute AcceptedDelivered;
- NotStartedSound and IdsDeliveredOnce assume `Drains` (the platform lets
  publishes return before it stops the client), `AutoReconnect` and no
  `SendTimeouts`; without `Drains` publish_stop_race refutes the first, with
  `SendTimeouts` the limits refute both. The invariant says that a publish that
  sends or waits uses the current, living client, whose tokens do not fail, and
  that IDs of one publisher differ unless the earlier was NotStarted;
- IdentitySound: IdentityOnWire. With the checks on, an attempt that is under way
  or has a packet has the header of its AGV: what `ApplyHeader` filled in and
  `validateOutboundHeader` then compared (`OwnInv`).

`ClientSessionProofs`, without further assumptions; all three follow from `Inv`:

- ClientTypeCorrect;
- StopIsComplete: no worker, no filter at the broker, and no paho client but those
  whose Start gave up. StopLeavesNothing looks at the state after the call, so `Inv`
  says what each place of Start and Stop has already undone (`AppOK`), which paho
  clients may be alive (`PahoOK`), and who holds `c.mu` (`LockOK`);
- FiltersRestored: the subscriptions of a connection may be gone before anybody
  notices. `RestoreInv` says that then somebody is on the way to renew them: an
  `onConnect` that will find `wasConnected`, a second `onConnect`, or a
  handleReconnect that waits for `c.mu`; and that a goroutine in
  `subscribeLocked` has on its connection the filters it is past.

`FleetSessionProofs`, for any AGVs, channels, callers and calls:

- SessionCorrect: `Base`, the types with what a call holds in each place, and that
  an entry has a handle for each channel of its AGV;
- NothingLeaks: NoLeakedSubscription if a Subscribe fails only by rejection and
  Unsubscribe succeeds, with any number of callers and reconnects at once.
  The sixth row of the limits refutes it for timeouts;
- HooksMatchMap: HooksAgree without reconnects, under every failure. The
  invariant `HooksAddUp` counts: hooks fired, plus calls about to fire online,
  minus calls about to fire offline, is 1 if the AGV is tracked and 0 if not.
  The fourth row of the limits shows what Restore does to it.

`FleetSerialProofs`, for any number of goroutines that call and run reconnects, on
connections that may be lost at any moment. The theorems are about the behaviours
of `Spec` in which calls do not overlap, except Track and Untrack of different
AGVs (`Spec /\ []Apart`); overlaps of other kinds refute the properties (limits),
and `Apart` is what fleet_serial has:

- TrackedAreSubscribed and StoppedTracksNothing, under every failure;
- ConnectionIsSubscribed, RestoreKeepsHooks and TrackedStays, if Subscribe does not
  fail; Unsubscribe may;
- UntrackedStays, if Unsubscribe succeeds and a Subscribe that fails has not
  subscribed.

Each failure a theorem leaves out refutes its property (limits).

The invariant is stated for a goroutine and the AGVs it may know of. `SerialOK(t,
A)` says that for the AGVs in A the hooks (`FiredOK`) and the last successful call
(`WantOK`) agree with the AGVs that stand - the tracked ones and those Restore
has taken out of the map and will enter again - rather than with the map; and
that, unless a reconnect is due, all handles are at the broker (`Live`). If
Subscribe may fail (`SubscribeMayFail`), it keeps only that an untracked AGV does
not come back and that the handles of the tracked ones are at the broker.
`ApartOK` says it of every goroutine c for the AGVs no other call is about
(`Free(c)`), as long as nobody else is in Stop or Restore. A step is then argued
twice: it keeps the invariant of its own call (one lemma per action), and it
leaves alone what the others may know of (`StepLeaves`, `OthersKeep`); when a
call returns, its AGV becomes free for them.

`FleetAutoTrackProofs`, on the lemmas of FleetSessionProofs about the steps, since
every step of the worker is one of them or a change of its queue. No connection
is lost in this module, and failures are arbitrary:

- AutoTypeCorrect, with the bound of the queue;
- AutoHooksMatchMap: HooksAgree for any number of platform goroutines;
- for one platform goroutine beside the worker (`Pair`), which may call Track,
  Untrack, Start and Stop at any time: StopUntracksAllOfTheWorker, since nobody
  but Stop changes the map from the end of the worker on (`PhaseOK`);
  AutoTrackedAreSubscribed (UncontestedSubscribed), since an AGV
  that did not race has at most one call at work on it (`AtMostOne`), and is not
  tracked while that call acquires or cancels (`Sound`); and NewestStateDecides. For the last the invariant says how far the worker is: the
  newest job about an AGV is the newest state heard of it, without a job the call
  in hand is, and without either the map is (`HeardOK`), unless an error was
  reported; and that the platform leaves the AGV alone. With two goroutines of the
  platform the row of the limits about StopUntracksAll refutes the first.

`InboundEventsProofs`, for any handlers, buses, workers, messages and restarts;
`Base` says where a handler can be listed (`ListsOK`) and that each message has
one worker until it is done with (`WorkOK`):

- EventTypeCorrect;
- HandlersInOrder: every list is in the order of registration, also while
  UseEventBus moves it, and what a worker has called and what it has yet to call
  continue one another (`OrderOK`);
- RemovedStaySilent: a removed handler is on no list (`SilentLists`), so a later
  message does not copy it;
- ForeignLeavesNoTrace: a worker calls only handlers of its event (`ForeignOK`);
- PolicyCorrect: the number kept for a key is the highest ID accepted for it
  (`PolicyOK`), which makes it as good as all of them;
- EveryHandlerServed: NobodyMissed, provided that there is one bus, that no
  handler fails and that the client is started once; the last three rows of the
  limits refute it without each. The invariant says that whoever is owed the
  message was called, is in the copy the worker holds, or is on the list it will
  copy (`OwedOK`).

`StateObserverProofs`, for any AGVs, names, scope, states and topics of other
publishers, with `ObserverAssumption`:

- LanesAreVehicles: ShardIsVehicle;
- FactsTellTheState: PictureFollows. `ObserverInv` says of each identity that its
  picture is that of the state remembered for it (`Shows`), and that the state
  remembered is the one its AGV sent last. That a message is taken for the right AGV rests on the
  resolver: a topic that `Build` makes of two names of one segment is parsed back
  to them, one with a slash is not parsed, and the subscription filter of
  whatever scope lets through no other channel. That the picture follows rests on
  what `Follow` reads out of `Apply`: for a list of facts of any length the last
  one about a field decides (`LastWins`). The loops are recursive functions over
  an index, and the induction over the index is done once, as the argument that a
  set which has 0 and the successor of each of its members has every number
  (`CountUp`).

Only model-checked: liveness, and ENABLED, which are out of the prover's reach.
Every invariant and every step property of the passing runs is stated by a
theorem, under the assumptions above.

## 5. Not modelled

Extension registry (extractors are modelled by their success), configuration,
generated error codes, payload formats, log texts, timestamps and slow-inbound
reports (they observe and decide nothing), the examples apart from the egress
sketch, and of the test kit the recorder and the simulated failures. The up,
down and restored callbacks of the platform and `onConnectionLost` change no
state of navlink. A client that has a fleet holds `c.mu` in Start and
handleReconnect as one without: FleetSession models what they do, ClientSession
how they wait, and their product is too large for TLC. Two callbacks of one
transport are run one after the other, as paho's ordered router does. Restore is
run by the reconnect callback only: `RestoreFleet` (`client.go:252`), which the
platform may call itself, does the same without the client's own subscriptions
and is not an action. See also
the notes in `PROJECT.json`.

## 6. Plan

1. *(done)* MqttDispatch with proofs; FleetSession; PublishOutcome with proofs;
   InboundEvents.
2. *(done)* ClientSession: `onConnect`, `wasConnected`, a failed Start whose paho
   client lives on, `c.mu` across Subscribe, backpressure against the SUBACK.
3. *(done)* FleetAutoTrack, composed with FleetSession.
4. *(done)* OrderedLanes, and the proof that MqttDispatch implements it.
5. *(done)* Topics, Facts and the platform that uses them.
6. *(done)* Proofs of the safety properties of section 3, under the assumptions
   of section 4.
7. *(done)* Which overlapping calls of FleetSession are harmless: those about
   different AGVs; and which failures each of its properties survives.
8. Open: Start, restart and Stop with the worker across a reconnect; RestoreFleet
   called by the platform, with the overlaps it may have.
