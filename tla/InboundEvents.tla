--------------------------- MODULE InboundEvents ----------------------------
(***************************************************************************)
(* What happens to an inbound message after the transport has handed it to *)
(* the client: onRawMessage (inbound.go), the header policy                *)
(* (inbound_policy.go) and the handlers, which are kept in lists of the    *)
(* client or, once UseEventBus was called, as subscriptions of a bus       *)
(* (eventbus_client.go, internal/bus/memory.go).                           *)
(*                                                                         *)
(* Inbound workers handle messages while platform goroutines register and  *)
(* remove handlers, attach a bus, stop and restart the client.             *)
(*                                                                         *)
(* Data.  A handler stands for one registration of a callback.  A message  *)
(* is what onRawMessage tells apart of a topic and a payload.  The slow    *)
(* inbound reports only observe and are left out; the auto-track job that  *)
(* a connection message schedules belongs to the fleet.                    *)
(*                                                                         *)
(* Atomicity.  A section under c.mu, under the lock of the policy or of    *)
(* the bus is one step, with the pure code around it; every handler call   *)
(* is a step.                                                              *)
(***************************************************************************)
EXTENDS Naturals, Sequences, SequencesExt

CONSTANTS
    Handlers, Buses, Workers, AGVs,
    Channels,       \* the typed channels in use
    Inputs,         \* the messages that may arrive
    StrictIdentity, \* Config.StrictIdentity
    Policy,         \* Config.InboundPolicy is a HeaderSequencePolicy
    Failing,        \* handlers that return an error
    Calls,          \* what the platform uses: "On", "Subscribe", "Emit"
    MaxMsgs, MaxStarts,     \* bounds
    None

\* Events that are published on a bus: the typed ones, EventDecodeFailed and
\* an event of the platform's own.
Events == Channels \cup {"decode", "custom"}
Names  == {"", "own", "other"}
Ids    == 1 .. MaxMsgs

AllInputs ==
    [agv : AGVs, ch : Channels, headerId : Nat,
     mfr : Names, sn : Names,       \* the identity in the payload
     parses : BOOLEAN,              \* Topics.Parse succeeds
     extends : BOOLEAN,             \* the extension extractors succeed
     hasHeader : BOOLEAN,           \* the payload has a header
     decodes : BOOLEAN]             \* the payload has the channel's type

ASSUME ConstantsAssumption ==
    /\ None \notin Buses \cup Handlers /\ None \notin Nat
    /\ Channels \subseteq {"state", "connection", "visualization", "factsheet"}
    /\ Inputs \subseteq AllInputs
    /\ StrictIdentity \in BOOLEAN /\ Policy \in BOOLEAN
    /\ Failing \subseteq Handlers /\ Calls \subseteq {"On", "Subscribe", "Emit"}
    /\ MaxMsgs \in Nat /\ MaxStarts \in Nat

VARIABLES
    phase,      \* of the client: see Phases
    starts,     \* how often it was started
    bus,        \* Client.bus
    direct,     \* direct[ch]: the handlers in the client's list for ch
    subs,       \* subs[b][e]: the subscriptions of event e on bus b
    busUnsubs,  \* Client.busUnsubs, as the subscriptions they remove
    stopUnsubs, \* what Stop has taken of it
    last,       \* HeaderSequencePolicy.last
    work,       \* work[w]: what inbound worker w is doing
    n,          \* messages so far; of message i:
    input,      \* input[i]: the message itself
    disp,       \* disp[i]: its disposition, "" if there is none
    called,     \* called[i]: the handlers it was given to
    fate,       \* fate[i]: "running", "done" or "decode"
    registered, \* history: registrations in order: handler, event, call
    removed,    \* history: the handlers removed by their Unsubscribe
    owed,       \* history: owed[i]: the handlers that are to get message i
    silent      \* history: silent[i]: the handlers removed before it arrived

client   == <<phase, starts, stopUnsubs>>
handlers == <<bus, direct, subs, busUnsubs>>
message  == <<n, input, disp, last, silent>>
vars == <<client, handlers, work, message, called, fate, registered, removed,
          owed>>

\* "stopping" lasts until transport.Stop, "draining" until it returns.
Phases == {"stopped", "started", "stopping", "draining"}

Subs == Buses \X Events \X Handlers
Idle == [pc |-> "idle", i |-> 0, ev |-> "custom", b |-> None, todo |-> << >>]

TypeOK ==
    /\ phase \in Phases /\ starts \in 0 .. MaxStarts
    /\ bus \in Buses \cup {None}
    /\ direct \in [Channels -> Seq(Handlers)]
    /\ subs \in [Buses -> [Events -> Seq(Handlers)]]
    /\ busUnsubs \subseteq Subs /\ stopUnsubs \subseteq Subs
    /\ last \in [AGVs \X Channels -> Nat \cup {None}]
    /\ work \in [Workers ->
         [pc : {"idle", "invoke", "publish", "call"}, i : 0 .. MaxMsgs,
          ev : Events, b : Buses \cup {None}, todo : Seq(Handlers)]]
    /\ n \in 0 .. MaxMsgs
    /\ input \in [Ids -> Inputs \cup {None}]
    /\ disp \in [Ids -> {"", "accept", "stale", "duplicate"}]
    /\ called \in [Ids -> Seq(Handlers)]
    /\ fate \in [Ids -> {"none", "running", "done", "decode"}]
    /\ registered \in Seq(Handlers \X Events \X Calls)
    /\ removed \subseteq Handlers
    /\ owed \in [Ids -> SUBSET Handlers]
    /\ silent \in [Ids -> SUBSET Handlers]

Init ==
    /\ phase = "stopped" /\ starts = 0 /\ bus = None
    /\ direct = [ch \in Channels |-> << >>]
    /\ subs = [b \in Buses |-> [e \in Events |-> << >>]]
    /\ busUnsubs = {} /\ stopUnsubs = {}
    /\ last = [k \in AGVs \X Channels |-> None]
    /\ work = [w \in Workers |-> Idle]
    /\ n = 0 /\ input = [i \in Ids |-> None]
    /\ disp = [i \in Ids |-> ""] /\ called = [i \in Ids |-> << >>]
    /\ fate = [i \in Ids |-> "none"]
    /\ registered = << >> /\ removed = {}
    /\ owed = [i \in Ids |-> {}] /\ silent = [i \in Ids |-> {}]

-----------------------------------------------------------------------------
(***************************************************************************)
(* Registration of handlers.                                               *)
(***************************************************************************)
IsFresh(h) == \A x \in ToSet(registered) : x[1] # h

\* The handlers registered for an event and not removed.
Registered(e) ==
    {x[1] : x \in {y \in ToSet(registered) : y[2] = e}} \ removed

Removals(b, e, hs) == {<<b, e, h>> : h \in ToSet(hs)}

\* OnState, OnConnection, OnVisualization and OnFactsheet.
On(h, ch) ==
    /\ "On" \in Calls /\ IsFresh(h)
    /\ registered' = Append(registered, <<h, ch, "On">>)
    /\ IF bus # None
       THEN /\ subs' = [subs EXCEPT ![bus][ch] = Append(@, h)]
            /\ busUnsubs' = busUnsubs \cup {<<bus, ch, h>>}
            /\ UNCHANGED direct
       ELSE /\ direct' = [direct EXCEPT ![ch] = Append(@, h)]
            /\ UNCHANGED <<subs, busUnsubs>>
    /\ UNCHANGED <<client, bus, work, message, called, fate, removed, owed>>

\* Client.Subscribe; without a bus it fails and registers nothing.
Subscribe(h, e) ==
    /\ "Subscribe" \in Calls /\ IsFresh(h) /\ bus # None
    /\ registered' = Append(registered, <<h, e, "Subscribe">>)
    /\ subs' = [subs EXCEPT ![bus][e] = Append(@, h)]
    /\ busUnsubs' = busUnsubs \cup {<<bus, e, h>>}
    /\ UNCHANGED <<client, bus, direct, work, message, called, fate, removed,
                   owed>>

\* Mutant: the subscription after the one to be removed goes.
MutWithout(hs, h) ==
    LET at == {i \in 1 .. Len(hs) - 1 : hs[i] = h}
    IN  IF at = {} THEN hs ELSE RemoveAt(hs, (CHOOSE i \in at : TRUE) + 1)

\* The subscriptions of an event after the closure for h has run.
Without(hs, h) ==
    LET at == {i \in 1 .. Len(hs) : hs[i] = h}
    IN  IF at = {} THEN hs ELSE RemoveAt(hs, CHOOSE i \in at : TRUE)

\* The platform calls the closure that Client.Subscribe returned for h; On*
\* returns none.
Unsubscribe(b, e, h) ==
    /\ h \in ToSet(subs[b][e]) /\ <<h, e, "Subscribe">> \in ToSet(registered)
    /\ subs' = [subs EXCEPT ![b][e] = Without(@, h)]
    /\ removed' = removed \cup {h}
    /\ owed' = [i \in Ids |-> owed[i] \ {h}]
    /\ UNCHANGED <<client, bus, direct, busUnsubs, work, message, called, fate,
                   registered>>

\* Mutants: the lists stay where they are; the last handler is moved first.
MutMigrateNothing ==
    [subscribed |-> [ch \in Channels |-> << >>], kept |-> direct]
MutMigrateReversed ==
    [subscribed |-> [ch \in Channels |-> Reverse(direct[ch])],
     kept |-> [ch \in Channels |-> << >>]]

\* What UseEventBus subscribes on the bus, and what stays in the lists.
Migrate == [subscribed |-> direct, kept |-> [ch \in Channels |-> << >>]]

UseEventBus(b) ==
    /\ bus' = b
    /\ subs' = [subs EXCEPT ![b] =
                 [e \in Events |->
                    IF e \in Channels THEN @[e] \o Migrate.subscribed[e]
                    ELSE @[e]]]
    /\ busUnsubs' = busUnsubs \cup
         UNION {Removals(b, ch, Migrate.subscribed[ch]) : ch \in Channels}
    /\ direct' = Migrate.kept
    /\ UNCHANGED <<client, work, message, called, fate, registered, removed,
                   owed>>

-----------------------------------------------------------------------------
(***************************************************************************)
(* An inbound message.                                                     *)
(***************************************************************************)
\* Mutant: the serial number is compared only if the manufacturer is blank.
MutMismatch(m) == m.mfr = "other" \/ (m.mfr = "" /\ m.sn = "other")

\* checkIdentity: the payload names another AGV than the topic.
Mismatch(m) ==
    /\ StrictIdentity
    /\ <<m.mfr, m.sn>> # <<"", "">>
    /\ m.mfr # "own" \/ m.sn # "own"

\* Mutants: the first message of a key is not classified; the watermark
\* follows every message.
MutClassifyFirst(prev, headerId) ==
    IF prev = None THEN [disp |-> "unclassified", last |-> headerId]
    ELSE IF headerId > prev THEN [disp |-> "accept", last |-> headerId]
    ELSE [disp |-> IF headerId = prev THEN "duplicate" ELSE "stale",
          last |-> prev]
MutClassify(prev, headerId) ==
    [disp |-> IF prev = None \/ headerId > prev THEN "accept"
              ELSE IF headerId = prev THEN "duplicate" ELSE "stale",
     last |-> headerId]

\* HeaderSequencePolicy.Classify: the disposition and the new watermark.
Classify(prev, headerId) ==
    IF prev = None \/ headerId > prev
    THEN [disp |-> "accept", last |-> headerId]
    ELSE [disp |-> IF headerId = prev THEN "duplicate" ELSE "stale",
          last |-> prev]

\* The message gets as far as the policy.
Classified(m) ==
    Policy /\ m.parses /\ m.extends /\ m.hasHeader /\ ~Mismatch(m)

\* onRawMessage ends in reportDecode.
Undecodable(m) ==
    \/ ~m.parses \/ ~m.extends \/ ~m.decodes
    \/ m.hasHeader /\ Mismatch(m)

\* onRawMessage up to the handlers.
Receive(w, m) ==
    LET i == n + 1
        k == <<m.agv, m.ch>>
        e == IF Undecodable(m) THEN "decode" ELSE m.ch
    IN
    /\ phase \in {"started", "stopping"} /\ n < MaxMsgs
    /\ work[w] = Idle
    /\ n' = i
    /\ input' = [input EXCEPT ![i] = m]
    /\ IF Classified(m)
       THEN LET c == Classify(last[k], m.headerId) IN
            /\ disp' = [disp EXCEPT ![i] = c.disp]
            /\ last' = [last EXCEPT ![k] = c.last]
       ELSE UNCHANGED <<disp, last>>
    /\ fate' = [fate EXCEPT ![i] = "running"]
    /\ owed' = [owed EXCEPT ![i] = IF phase = "started" THEN Registered(e)
                                   ELSE {}]
    /\ silent' = [silent EXCEPT ![i] = removed]
    /\ work' = [work EXCEPT ![w] =
                 [Idle EXCEPT !.pc = "invoke", !.i = i, !.ev = e]]
    /\ UNCHANGED <<client, handlers, called, registered, removed>>

\* Client.Emit of an event of the platform's own.
Emit(w) ==
    /\ "Emit" \in Calls /\ bus # None /\ n < MaxMsgs /\ work[w] = Idle
    /\ n' = n + 1
    /\ fate' = [fate EXCEPT ![n + 1] = "running"]
    /\ owed' = [owed EXCEPT ![n + 1] = IF phase = "started"
                                       THEN Registered("custom") ELSE {}]
    /\ silent' = [silent EXCEPT ![n + 1] = removed]
    /\ work' = [work EXCEPT ![w] = [Idle EXCEPT !.pc = "publish", !.i = n + 1,
                                                !.ev = "custom", !.b = bus]]
    /\ UNCHANGED <<client, handlers, input, disp, last, called, registered,
                   removed>>

\* invokeState and its like, or publishEvent, the section under c.mu: the bus
\* and the list are read together.
Invoke(w) ==
    LET t == work[w] IN
    /\ t.pc = "invoke"
    /\ work' = [work EXCEPT ![w] =
         IF bus # None THEN [t EXCEPT !.pc = "publish", !.b = bus]
         ELSE [t EXCEPT !.pc = "call",
                        !.todo = IF t.ev \in Channels THEN direct[t.ev]
                                 ELSE << >>]]
    /\ UNCHANGED <<client, handlers, message, called, fate, registered, removed,
                   owed>>

\* Memory.Publish, the section under m.mu: a copy of the subscriptions.
Publish(w) ==
    LET t == work[w] IN
    /\ t.pc = "publish"
    /\ work' = [work EXCEPT ![w].pc = "call", ![w].todo = subs[t.b][t.ev]]
    /\ UNCHANGED <<client, handlers, message, called, fate, registered, removed,
                   owed>>

\* The handlers are called in turn; an error ends the loop.
CallHandler(w) ==
    LET t == work[w] IN
    /\ t.pc = "call" /\ t.todo # << >>
    /\ called' = [called EXCEPT ![t.i] = Append(@, Head(t.todo))]
    /\ work' = [work EXCEPT ![w].todo = IF Head(t.todo) \in Failing THEN << >>
                                        ELSE Tail(@)]
    /\ UNCHANGED <<client, handlers, message, fate, registered, removed, owed>>

Finish(w) ==
    LET t == work[w] IN
    /\ t.pc = "call" /\ t.todo = << >>
    /\ work' = [work EXCEPT ![w] = Idle]
    /\ fate' = [fate EXCEPT ![t.i] =
                 IF t.ev = "decode" THEN "decode" ELSE "done"]
    /\ UNCHANGED <<client, handlers, message, called, registered, removed,
                   owed>>

-----------------------------------------------------------------------------
(***************************************************************************)
(* Start and Stop.                                                         *)
(***************************************************************************)
Start ==
    /\ phase = "stopped" /\ starts < MaxStarts
    /\ phase' = "started" /\ starts' = starts + 1
    /\ UNCHANGED <<stopUnsubs, handlers, work, message, called, fate,
                   registered, removed, owed>>

\* Client.Stop, the section under c.mu.  Messages that are being handled are
\* not owed to anybody any more.
StopLock ==
    /\ phase = "started"
    /\ phase' = "stopping"
    /\ stopUnsubs' = busUnsubs /\ busUnsubs' = {}
    /\ owed' = [i \in Ids |-> IF fate[i] = "running" THEN {} ELSE owed[i]]
    /\ UNCHANGED <<starts, bus, direct, subs, work, message, called, fate,
                   registered, removed>>

\* Client.Stop: the subscriptions on the bus are removed one by one.
StopUnsubscribe(b, e, h) ==
    /\ <<b, e, h>> \in stopUnsubs
    /\ stopUnsubs' = stopUnsubs \ {<<b, e, h>>}
    /\ subs' = [subs EXCEPT ![b][e] = Without(@, h)]
    /\ UNCHANGED <<phase, starts, bus, direct, busUnsubs, work, message, called,
                   fate, registered, removed, owed>>

\* transport.Stop begins: no message arrives any more.
StopTransport ==
    /\ phase = "stopping" /\ stopUnsubs = {}
    /\ phase' = "draining"
    /\ UNCHANGED <<starts, stopUnsubs, handlers, work, message, called, fate,
                   registered, removed, owed>>

\* transport.Stop has waited for the inbound workers.
StopEnd ==
    /\ phase = "draining" /\ \A w \in Workers : work[w] = Idle
    /\ phase' = "stopped"
    /\ UNCHANGED <<starts, stopUnsubs, handlers, work, message, called, fate,
                   registered, removed, owed>>

-----------------------------------------------------------------------------
Worker(w) == Invoke(w) \/ Publish(w) \/ CallHandler(w) \/ Finish(w)

Next ==
    \/ \E h \in Handlers : \/ \E ch \in Channels : On(h, ch)
                           \/ \E e \in Events : Subscribe(h, e)
    \/ \E b \in Buses : UseEventBus(b)
    \/ \E b \in Buses, e \in Events, h \in Handlers :
         Unsubscribe(b, e, h) \/ StopUnsubscribe(b, e, h)
    \/ \E w \in Workers : Worker(w) \/ Emit(w)
    \/ \E w \in Workers, m \in Inputs : Receive(w, m)
    \/ Start \/ StopLock \/ StopTransport \/ StopEnd

Spec == Init /\ [][Next]_vars

-----------------------------------------------------------------------------
(***************************************************************************)
(* Properties.                                                             *)
(***************************************************************************)
\* UseEventBus "migrates any already-registered On* handlers", Start
\* "establishes subscriptions for registered handlers", Memory.Publish
\* "delivers payload to all subscribers": a message has been given to every
\* handler that was registered when it arrived and not removed meanwhile,
\* whatever the platform registers, removes or attaches at the same time.
NobodyMissed ==
    \A i \in Ids :
        fate[i] \in {"done", "decode"} => owed[i] \subseteq ToSet(called[i])

\* Memory: "invokes subscribers in registration order".  A message is given to
\* its handlers in the order of their registration, at most once to each, also
\* if they are moved to a bus while messages are handled.
CalledInOrder ==
    \A i \in Ids : \A x, y \in 1 .. Len(called[i]) :
        x < y => \E p, q \in 1 .. Len(registered) :
                    /\ p < q
                    /\ registered[p][1] = called[i][x]
                    /\ registered[q][1] = called[i][y]

\* Memory.Subscribe: a handler whose Unsubscribe has returned gets no message
\* that arrives later.
RemovedIsSilent ==
    \A i \in Ids : ToSet(called[i]) \cap silent[i] = {}

\* Config.StrictIdentity "validates payload manufacturer/serial against the
\* topic": a payload that names another AGV reaches no handler of its channel
\* and leaves no trace in the policy.
ForeignIgnored ==
    \A i \in 1 .. n : input[i] # None /\ StrictIdentity =>
        LET m == input[i] IN
        m.hasHeader /\ (m.mfr = "other" \/ m.sn = "other") =>
            /\ disp[i] = ""
            /\ \A h \in ToSet(called[i]) :
                 <<h, "decode", "Subscribe">> \in ToSet(registered)

\* HeaderSequencePolicy: "updates watermarks on Accept only".  A disposition
\* is what the messages accepted before say: above all their IDs, equal to the
\* newest, or below it.
DispositionSound ==
    \A i \in 1 .. n : disp[i] # "" =>
        LET before == {j \in 1 .. i - 1 :
                         /\ disp[j] = "accept"
                         /\ input[j].agv = input[i].agv
                         /\ input[j].ch = input[i].ch}
            Above(j) == input[i].headerId > input[j].headerId
            Below(j) == input[i].headerId < input[j].headerId
        IN  CASE disp[i] = "accept"    -> \A j \in before : Above(j)
              [] disp[i] = "stale"     -> \E j \in before : Below(j)
              [] disp[i] = "duplicate" -> /\ \A j \in before : ~Below(j)
                                          /\ \E j \in before : ~Above(j)
=============================================================================
