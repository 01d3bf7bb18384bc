--------------------------- MODULE PublishOutcome ---------------------------
(***************************************************************************)
(* Publishing an order or an instant action, from the AGV handle down to   *)
(* paho, and what ClassifyPublish makes of the result (agv.go, instant.go, *)
(* outbound_validate.go, publish.go, mqtt_adapter.go, Transport.Publish    *)
(* and waitToken of internal/mqtt).                                        *)
(*                                                                         *)
(* The caller owns the protocol IDs.  ClassifyPublish tells it whether the *)
(* IDs of a failed publish may be used again, and a platform does that the *)
(* way examples/dispatch-egress-sketch shows: record, reuse or fence.      *)
(*                                                                         *)
(* Data.  The pair (headerId, orderUpdateId) is one number; a draft is     *)
(* what the checks tell apart of the message handed in; a packet is what   *)
(* paho was given for one attempt.                                         *)
(*                                                                         *)
(* Atomicity.  The caller's own checks read Client.started once and are    *)
(* one step with it; the running check, the call of paho, its end and the  *)
(* end of the wait are steps of their own, between which the client may be *)
(* stopped, restarted or disconnected.                                     *)
(*                                                                         *)
(* paho is modelled as v1.5.0 behaves (go.mod names it; it is not part of  *)
(* the repository): Publish keeps a packet of QoS 1 or 2 in its store and  *)
(* then blocks until the connection's writer takes it.  After 30 s it      *)
(* gives the token an error, and the packet stays in the store.  What is   *)
(* in the store is sent at the next reconnect, and the token that waits    *)
(* for it completes there and then, before any answer of the broker.       *)
(***************************************************************************)
EXTENDS Naturals

CONSTANTS
    Publishers,     \* platform goroutines, each with an AGV and its ledger
    Drafts,         \* the messages they hand in
    Checks,         \* Config.OutboundValidation
    QoS,            \* Config.QoS
    AutoReconnect,  \* Config.AutoReconnect
    SendTimeouts,   \* paho's writer may block longer than Publish waits for it
    Drains,         \* the platform stops the client only when no publish runs
    MaxAttempts, MaxStarts,     \* bounds
    None

Attempts == 1 .. MaxAttempts
Epochs   == 1 .. MaxStarts
Names    == {"", "own", "other"}

AllDrafts ==
    [kind : {"order", "instant", "std"},
     isNil : BOOLEAN, headerZero : BOOLEAN, idEmpty : BOOLEAN,
     updateZero : BOOLEAN, unmarshalable : BOOLEAN,
     mfr : Names, sn : Names]

ASSUME ConstantsAssumption ==
    /\ None \notin Publishers
    /\ Drafts \subseteq AllDrafts
    /\ Checks \in [disabled : BOOLEAN, allowZeroHeader : BOOLEAN,
                   skipIdentity : BOOLEAN]
    /\ QoS \in Nat
    /\ AutoReconnect \in BOOLEAN /\ Drains \in BOOLEAN
    /\ SendTimeouts \in BOOLEAN
    /\ MaxAttempts \in Nat /\ MaxStarts \in Nat

VARIABLES
    cstarted,   \* Client.started
    running,    \* Transport.running
    client,     \* the number of Transport.client, 0 for nil
    link,       \* link[e]: the connection of paho client e
    pc,         \* pc[p]: where publisher p is
    ctx,        \* ctx[p]: the state of the context of its call
    cur,        \* cur[p]: the number of its attempt
    ledger,     \* ledger[p]: the ID it uses next
    n,          \* attempts so far; of attempt i:
    pub,        \* pub[i]: whose it is
    id,         \* id[i]: the ID it carries
    body,       \* body[i]: the manufacturer and serial number it carries
    via,        \* via[i]: the paho client it uses
    pkt,        \* pkt[i]: what became of the packet
    tok,        \* tok[i]: paho's token
    outcome     \* outcome[i]: the verdict

transport == <<cstarted, running, client, link>>
message   == <<pub, id, body>>
vars == <<transport, pc, ctx, cur, ledger, n, message, via, pkt, tok, outcome>>

Outcomes == {"Accepted", "NotStarted", "Uncertain"}

TypeOK ==
    /\ cstarted \in BOOLEAN /\ running \in BOOLEAN
    /\ client \in 0 .. MaxStarts
    /\ link \in [Epochs -> {"up", "down", "dead"}]
    /\ pc \in [Publishers -> {"idle", "check", "publish", "send", "wait"}]
    /\ ctx \in [Publishers -> {"live", "Canceled", "DeadlineExceeded"}]
    /\ cur \in [Publishers -> 0 .. MaxAttempts]
    /\ ledger \in [Publishers -> Nat]
    /\ n \in 0 .. MaxAttempts
    /\ pub \in [Attempts -> Publishers \cup {None}]
    /\ id \in [Attempts -> Nat]
    /\ body \in [Attempts -> Names \X Names]
    /\ via \in [Attempts -> 0 .. MaxStarts]
    /\ pkt \in [Attempts -> {"none", "stored", "wire", "delivered", "lost"}]
    /\ tok \in [Attempts -> {"none", "pending", "ok", "error"}]
    /\ outcome \in [Attempts -> Outcomes \cup {"none"}]

Init ==
    /\ cstarted = FALSE /\ running = FALSE /\ client = 0
    /\ link = [e \in Epochs |-> "dead"]
    /\ pc = [p \in Publishers |-> "idle"]
    /\ ctx = [p \in Publishers |-> "live"]
    /\ cur = [p \in Publishers |-> 0]
    /\ ledger = [p \in Publishers |-> 1]
    /\ n = 0
    /\ pub = [i \in Attempts |-> None] /\ id = [i \in Attempts |-> 0]
    /\ body = [i \in Attempts |-> <<"", "">>]
    /\ via = [i \in Attempts |-> 0]
    /\ pkt = [i \in Attempts |-> "none"] /\ tok = [i \in Attempts |-> "none"]
    /\ outcome = [i \in Attempts |-> "none"]

-----------------------------------------------------------------------------
(***************************************************************************)
(* Checks of the message (outbound_validate.go, builder.go).               *)
(***************************************************************************)
\* Mutant: the serial number is compared only when the manufacturer is blank.
MutForeign(d) == d.mfr = "other" \/ (d.mfr = "" /\ d.sn = "other")

\* The message names another AGV than the handle's.
Foreign(d) == d.mfr = "other" \/ d.sn = "other"

\* validateOutboundOrder and validateOutboundInstantActions.
Rejected(d) ==
    /\ ~Checks.disabled
    /\ \/ d.headerZero /\ ~Checks.allowZeroHeader
       \/ Foreign(d) /\ ~Checks.skipIdentity
       \/ d.idEmpty
       \/ d.kind = "order" /\ d.updateZero

\* ApplyHeader: a blank identity is that of the handle.
ApplyHeader(name) == IF name = "" THEN "own" ELSE name

Failure(code) == [code |-> code, attempted |-> FALSE]
Attempted(code) == [code |-> code, attempted |-> TRUE]
NoError == Failure("nil")
Errors ==
    [code : {"nil", "InvalidConfig", "ClientNotStarted", "Marshal",
             "OutboundValidationFailed", "QosNotSupported",
             "MQTTTransportNotRunning", "PublishFailed", "TimeoutError",
             "Canceled", "DeadlineExceeded"},
     attempted : BOOLEAN]

\* PublishOrder, PublishInstantActions and the helpers for standard actions,
\* up to Transport.Publish: the first error.
PrepareError(d) ==
    IF d.kind = "std" /\ d.idEmpty THEN Failure("InvalidConfig")
    ELSE IF ~cstarted THEN Failure("ClientNotStarted")
    ELSE IF d.isNil THEN Failure("InvalidConfig")
    ELSE IF Rejected(d) THEN Failure("OutboundValidationFailed")
    ELSE IF d.unmarshalable THEN Failure("Marshal")
    ELSE IF QoS > 2 THEN Failure("QosNotSupported")
    ELSE NoError

-----------------------------------------------------------------------------
(***************************************************************************)
(* The verdict (publish.go) and what the platform does with it.            *)
(***************************************************************************)
\* Mutants: an error without a case of its own has no verdict; a timed-out
\* wait counts as not started, like a context that ended before.
MutClassifyUnknown(err) ==
    IF err.code = "nil" THEN "Accepted"
    ELSE IF err.code = "Marshal" THEN "unknown"
    ELSE IF err.attempted THEN "Uncertain" ELSE "NotStarted"
MutClassifyPublish(err) ==
    IF err.code = "nil" THEN "Accepted"
    ELSE IF err.code = "Marshal" THEN "Uncertain" ELSE "NotStarted"

\* The codes that say that nothing was published.
NotStartedCodes ==
    {"OutboundValidationFailed", "ClientNotStarted", "MQTTTransportNotRunning",
     "QosNotSupported", "PublishFailed", "InvalidConfig"}

ClassifyPublish(err) ==
    IF err.code = "nil" THEN "Accepted"
    ELSE IF err.code \in NotStartedCodes THEN "NotStarted"
    ELSE IF err.code = "TimeoutError" \/ err.attempted THEN "Uncertain"
    ELSE IF err.code \in {"Canceled", "DeadlineExceeded"} THEN "NotStarted"
    ELSE "Uncertain"

\* Mutant: a fenced ID is handed out again.
MutNextId(used, verdict) == IF verdict = "Accepted" THEN used + 1 ELSE used

\* The ledger of the egress sketch: IDs are kept only if nothing was started.
NextId(used, verdict) == IF verdict = "NotStarted" THEN used ELSE used + 1

\* The call of p about attempt i returns err, and p consults the verdict.
Settle(p, i, err) ==
    /\ outcome' = [outcome EXCEPT ![i] = ClassifyPublish(err)]
    /\ ledger' = [ledger EXCEPT ![p] = NextId(@, ClassifyPublish(err))]
    /\ pc' = [pc EXCEPT ![p] = "idle"]

\* The call goes on.
Continue(p, where) ==
    /\ pc' = [pc EXCEPT ![p] = where]
    /\ UNCHANGED <<outcome, ledger>>

-----------------------------------------------------------------------------
(***************************************************************************)
(* A publish.                                                              *)
(***************************************************************************)
\* GetNext, and the call of PublishOrder up to Transport.Publish.
Publish(p, d) ==
    /\ pc[p] = "idle" /\ n < MaxAttempts
    /\ n' = n + 1
    /\ cur' = [cur EXCEPT ![p] = n + 1]
    /\ ctx' = [ctx EXCEPT ![p] = "live"]
    /\ pub' = [pub EXCEPT ![n + 1] = p]
    /\ id' = [id EXCEPT ![n + 1] = ledger[p]]
    /\ body' = [body EXCEPT ![n + 1] = <<ApplyHeader(d.mfr), ApplyHeader(d.sn)>>]
    /\ IF PrepareError(d) = NoError
       THEN Continue(p, "check")
       ELSE Settle(p, n + 1, PrepareError(d))
    /\ UNCHANGED <<transport, via, pkt, tok>>

\* The context of a call ends.
EndContext(p, why) ==
    /\ pc[p] # "idle" /\ ctx[p] = "live"
    /\ ctx' = [ctx EXCEPT ![p] = why]
    /\ UNCHANGED <<transport, pc, cur, ledger, n, message, via, pkt, tok, outcome>>

\* Transport.Publish, the section under t.mu.
CheckRunning(p) ==
    /\ pc[p] = "check"
    /\ IF running /\ client # 0
       THEN via' = [via EXCEPT ![cur[p]] = client] /\ Continue(p, "publish")
       ELSE /\ Settle(p, cur[p], Failure("MQTTTransportNotRunning"))
            /\ UNCHANGED via
    /\ UNCHANGED <<transport, ctx, cur, n, message, pkt, tok>>

\* paho (external), handed a packet for client e: an error if that client has
\* ended; while it reconnects a QoS 0 packet is dropped; any other is kept.
Handed(e) ==
    CASE link[e] = "dead"            -> [pkt |-> "none", tok |-> "error"]
      [] link[e] = "down" /\ QoS = 0 -> [pkt |-> "lost", tok |-> "ok"]
      [] link[e] # "dead" /\ QoS > 0 -> [pkt |-> "stored", tok |-> "pending"]
      [] OTHER                       -> [pkt |-> "none", tok |-> "pending"]

\* Transport.Publish: the context is looked at, then paho is called.
HandOver(p) ==
    /\ pc[p] = "publish"
    /\ IF ctx[p] # "live"
       THEN Settle(p, cur[p], Failure(ctx[p])) /\ UNCHANGED <<pkt, tok>>
       ELSE /\ pkt' = [pkt EXCEPT ![cur[p]] = Handed(via[cur[p]]).pkt]
            /\ tok' = [tok EXCEPT ![cur[p]] = Handed(via[cur[p]]).tok]
            /\ Continue(p, IF link[via[cur[p]]] = "up" THEN "send" ELSE "wait")
    /\ UNCHANGED <<transport, ctx, cur, n, message, via>>

\* paho's writer takes the packet, if resume has not sent it before.
Sent(p) ==
    /\ pc[p] = "send" /\ link[via[cur[p]]] = "up"
    /\ pkt' = [pkt EXCEPT ![cur[p]] =
                 IF @ \in {"none", "stored"} THEN "wire" ELSE @]
    /\ Continue(p, "wait")
    /\ UNCHANGED <<transport, ctx, cur, n, message, via, tok>>

\* The writer does not take it in time, or never will.
SendTimesOut(p) ==
    /\ pc[p] = "send" /\ (SendTimeouts \/ link[via[cur[p]]] = "dead")
    /\ tok' = [tok EXCEPT ![cur[p]] = "error"]
    /\ Continue(p, "wait")
    /\ UNCHANGED <<transport, ctx, cur, n, message, via, pkt>>

\* Mutants: a wait that timed out counts as done; no timeout.
MutWaitEndsDone(token, context, err) ==
    \/ token \in {"ok", "pending"} /\ err = NoError
    \/ token = "error" /\ err = Failure("PublishFailed")
    \/ context # "live" /\ err = Attempted(context)
MutWaitEndsLate(token, context, err) ==
    \/ token = "ok" /\ err = NoError
    \/ token = "error" /\ err = Failure("PublishFailed")
    \/ context # "live" /\ err = Attempted(context)

\* waitToken and the rest of Transport.Publish: the token is done, the wait has
\* lasted too long (also with a token that is done, if both are ready) or the
\* context has ended; a select takes any branch that is ready.
WaitEnds(token, context, err) ==
    \/ token = "ok" /\ err = NoError
    \/ token = "error" /\ err = Failure("PublishFailed")
    \/ err = Attempted("TimeoutError")
    \/ context # "live" /\ err = Attempted(context)

Wait(p) ==
    /\ pc[p] = "wait"
    /\ \E err \in Errors :
         WaitEnds(tok[cur[p]], ctx[p], err) /\ Settle(p, cur[p], err)
    /\ UNCHANGED <<transport, ctx, cur, n, message, via, pkt, tok>>

-----------------------------------------------------------------------------
(***************************************************************************)
(* paho and the broker (external).                                         *)
(***************************************************************************)
calls == <<pc, ctx, cur, ledger, n, message, via, outcome>>

\* The broker gets a packet that is on the wire.  A QoS 0 packet may be lost.
Arrive(i) ==
    /\ pkt[i] = "wire"
    /\ \/ pkt' = [pkt EXCEPT ![i] = "delivered"]
       \/ QoS = 0 /\ pkt' = [pkt EXCEPT ![i] = "lost"]
    /\ UNCHANGED <<transport, calls, tok>>

\* The token completes: a QoS 0 packet is written, or the handshake is over.
Complete(i) ==
    /\ tok[i] = "pending" /\ link[via[i]] = "up"
    /\ IF QoS = 0 THEN pkt[i] # "none" ELSE pkt[i] = "delivered"
    /\ tok' = [tok EXCEPT ![i] = "ok"]
    /\ UNCHANGED <<transport, calls, pkt>>

\* paho client e ends: the tokens that wait get an error ("connection lost
\* before Publish completed"), whatever became of the packets on the wire; what
\* is only in the store will never be sent.
End(e) ==
    /\ link' = [link EXCEPT ![e] = "dead"]
    /\ tok' = [i \in Attempts |->
                 IF via[i] = e /\ tok[i] = "pending" THEN "error" ELSE tok[i]]
    /\ pkt' = [i \in Attempts |->
                 IF via[i] = e /\ pkt[i] = "stored" THEN "none" ELSE pkt[i]]

LoseConnection(e) ==
    /\ link[e] = "up"
    /\ IF AutoReconnect
       THEN link' = [link EXCEPT ![e] = "down"] /\ UNCHANGED <<pkt, tok>>
       ELSE End(e)
    /\ UNCHANGED <<cstarted, running, client, calls>>

\* paho reconnects and resumes: it sends what it has kept, under the message ID
\* it had, and completes the token that held this ID.
Reconnect(e) ==
    /\ link[e] = "down"
    /\ link' = [link EXCEPT ![e] = "up"]
    /\ pkt' = [i \in Attempts |->
                 IF via[i] = e /\ pkt[i] = "stored" THEN "wire" ELSE pkt[i]]
    /\ tok' = [i \in Attempts |->
                 IF via[i] = e /\ QoS > 0 /\ tok[i] = "pending" THEN "ok"
                 ELSE tok[i]]
    /\ UNCHANGED <<cstarted, running, client, calls>>

-----------------------------------------------------------------------------
(***************************************************************************)
(* Client.Start and Client.Stop, as far as a publish can tell.             *)
(***************************************************************************)
Start ==
    /\ ~cstarted /\ ~running /\ client < MaxStarts
    /\ cstarted' = TRUE /\ running' = TRUE
    /\ client' = client + 1
    /\ link' = [link EXCEPT ![client + 1] = "up"]
    /\ UNCHANGED <<calls, pkt, tok>>

\* Client.Stop, the section under c.mu.
StopClient ==
    /\ cstarted
    /\ Drains => \A p \in Publishers : pc[p] = "idle"
    /\ cstarted' = FALSE
    /\ UNCHANGED <<running, client, link, calls, pkt, tok>>

\* Transport.Stop, the section under t.mu.
StopTransport ==
    /\ ~cstarted /\ running
    /\ running' = FALSE
    /\ UNCHANGED <<cstarted, client, link, calls, pkt, tok>>

\* Transport.Stop: Disconnect.
Disconnect(e) ==
    /\ link[e] # "dead" /\ (e # client \/ ~running)
    /\ End(e)
    /\ UNCHANGED <<cstarted, running, client, calls>>

-----------------------------------------------------------------------------
Step(p) ==
    CheckRunning(p) \/ HandOver(p) \/ Sent(p) \/ SendTimesOut(p) \/ Wait(p)

Next ==
    \/ \E p \in Publishers : \E d \in Drafts : Publish(p, d)
    \/ \E p \in Publishers : Step(p)
    \/ \E p \in Publishers : \E why \in {"Canceled", "DeadlineExceeded"} :
         EndContext(p, why)
    \/ \E i \in Attempts : Arrive(i) \/ Complete(i)
    \/ \E e \in Epochs : LoseConnection(e) \/ Reconnect(e) \/ Disconnect(e)
    \/ Start \/ StopClient \/ StopTransport

\* A call that can go on does; its timers expire.  Nothing is asked of the
\* broker, the network or the platform.
Fairness == \A p \in Publishers : WF_vars(Step(p))

Spec     == Init /\ [][Next]_vars
FairSpec == Spec /\ Fairness

-----------------------------------------------------------------------------
(***************************************************************************)
(* Properties.                                                             *)
(***************************************************************************)
\* publish.go: NotStarted means "the publish never became a deliverable MQTT
\* packet", neither before nor after the verdict.
NotStartedNeverSent ==
    \A i \in Attempts : outcome[i] = "NotStarted" => pkt[i] = "none"

\* The egress sketch: a platform that records, reuses and fences by the verdict
\* never lets two packets with the same IDs reach an AGV, whatever times out,
\* is cancelled, loses its connection or is restarted.
NoIdDeliveredTwice ==
    \A i, j \in Attempts :
        /\ i # j /\ pkt[i] = "delivered" /\ pkt[j] = "delivered"
        /\ pub[i] = pub[j]
        => id[i] # id[j]

\* publish.go: Accepted means "broker accepted the publish (QoS handshake)", at
\* a QoS that has one.
AcceptedDelivered ==
    QoS \in {1, 2} =>
        \A i \in Attempts : outcome[i] = "Accepted" => pkt[i] = "delivered"

\* validateOutboundHeader and ApplyHeader: what goes out on the topic of an AGV
\* names that AGV, unless the checks are turned off.
IdentityOnWire ==
    ~Checks.disabled /\ ~Checks.skipIdentity =>
        \A i \in Attempts : pkt[i] # "none" => body[i] = <<"own", "own">>

\* waitToken: a publish always returns, also when no answer ever comes.
PublishReturns ==
    \A p \in Publishers : pc[p] # "idle" ~> pc[p] = "idle"
=============================================================================
