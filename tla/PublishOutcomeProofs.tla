------------------------ MODULE PublishOutcomeProofs ------------------------
(***************************************************************************)
(* Proofs about PublishOutcome for any number of publishers, attempts and  *)
(* restarts: the verdicts mean what publish.go says of them, and a         *)
(* platform that follows them delivers no ID twice.                        *)
(***************************************************************************)
EXTENDS PublishOutcome, TLAPS

\* The bounds and the QoS are natural numbers.
LEMMA Bounds == MaxAttempts \in Nat /\ MaxStarts \in Nat /\ QoS \in Nat
BY ConstantsAssumption

-----------------------------------------------------------------------------
(***************************************************************************)
(* The operators.                                                          *)
(***************************************************************************)
\* ClassifyPublish has a verdict for every error.
LEMMA VerdictType ==
    ASSUME NEW err PROVE ClassifyPublish(err) \in Outcomes
BY DEF ClassifyPublish, Outcomes

\* The errors of PublishOrder before it calls the transport are errors.
LEMMA PrepareFails ==
    ASSUME NEW d, PrepareError(d) # NoError
    PROVE  ClassifyPublish(PrepareError(d)) \in {"NotStarted", "Uncertain"}
BY DEF PrepareError, NoError, Failure, ClassifyPublish, NotStartedCodes

\* What the end of a wait says about the token.
LEMMA WaitVerdict ==
    ASSUME NEW token, NEW context \in {"live", "Canceled", "DeadlineExceeded"},
           NEW err \in Errors, WaitEnds(token, context, err)
    PROVE  /\ ClassifyPublish(err) = "Accepted" => token = "ok"
           /\ ClassifyPublish(err) = "NotStarted" => token = "error"
BY DEF WaitEnds, NoError, Failure, Attempted, ClassifyPublish, NotStartedCodes,
   Errors

\* A verdict other than NotStarted consumes the ID.
LEMMA NextIdFacts ==
    ASSUME NEW used \in Nat, NEW o
    PROVE  /\ NextId(used, o) \in Nat
           /\ o # "NotStarted" => NextId(used, o) = used + 1
           /\ o = "NotStarted" => NextId(used, o) = used
BY DEF NextId

\* What paho answers when it is handed a packet.
LEMMA HandedFacts ==
    ASSUME NEW e, QoS \in Nat
    PROVE  /\ Handed(e).pkt \in {"none", "stored", "lost"}
           /\ Handed(e).tok \in {"pending", "ok", "error"}
           /\ Handed(e).tok = "ok" => QoS = 0
           /\ Handed(e).tok = "error" => link[e] = "dead"
BY DEF Handed

-----------------------------------------------------------------------------
(***************************************************************************)
(* Type correctness, with what is needed to know that it is preserved: an  *)
(* attempt that is running has begun.                                      *)
(***************************************************************************)
CurOK == \A p \in Publishers : pc[p] # "idle" => cur[p] \in 1 .. n

TypeInv == TypeOK /\ CurOK

\* Init establishes the types.
LEMMA TypeInit == Init => TypeInv
<1> SUFFICES ASSUME Init PROVE TypeInv
    OBVIOUS
<1>1. body \in [Attempts -> Names \X Names]
    BY DEF Init, Names
<1>2. CurOK
    BY DEF Init, CurOK
<1>3. /\ cstarted = FALSE /\ running = FALSE /\ client = 0 /\ n = 0
      /\ link = [e \in Epochs |-> "dead"]
      /\ pc = [p \in Publishers |-> "idle"]
      /\ ctx = [p \in Publishers |-> "live"]
      /\ cur = [p \in Publishers |-> 0]
      /\ ledger = [p \in Publishers |-> 1]
      /\ pub = [i \in Attempts |-> None]
      /\ id = [i \in Attempts |-> 0]
      /\ via = [i \in Attempts |-> 0]
      /\ pkt = [i \in Attempts |-> "none"]
      /\ tok = [i \in Attempts |-> "none"]
      /\ outcome = [i \in Attempts |-> "none"]
    BY DEF Init
<1>a. 0 \in 0 .. MaxStarts /\ 0 \in 0 .. MaxAttempts /\ 0 \in Nat /\ 1 \in Nat
    BY Bounds
<1>4. /\ link \in [Epochs -> {"up", "down", "dead"}]
      /\ pc \in [Publishers -> {"idle", "check", "publish", "send", "wait"}]
      /\ ctx \in [Publishers -> {"live", "Canceled", "DeadlineExceeded"}]
      /\ cur \in [Publishers -> 0 .. MaxAttempts]
      /\ ledger \in [Publishers -> Nat]
    BY <1>3, <1>a
<1>5. /\ pub \in [Attempts -> Publishers \cup {None}]
      /\ id \in [Attempts -> Nat]
      /\ via \in [Attempts -> 0 .. MaxStarts]
      /\ pkt \in [Attempts -> {"none", "stored", "wire", "delivered", "lost"}]
      /\ tok \in [Attempts -> {"none", "pending", "ok", "error"}]
      /\ outcome \in [Attempts -> Outcomes \cup {"none"}]
    BY <1>3, <1>a
<1>6. QED
    BY <1>1, <1>2, <1>3, <1>4, <1>5, <1>a DEF TypeInv, TypeOK

\* What a call that returns does to the types.
LEMMA TypeSettle ==
    ASSUME TypeOK, NEW p \in Publishers, NEW i \in Attempts, NEW err,
           Settle(p, i, err)
    PROVE  /\ outcome' \in [Attempts -> Outcomes \cup {"none"}]
           /\ ledger' \in [Publishers -> Nat]
           /\ pc' \in [Publishers -> {"idle", "check", "publish", "send", "wait"}]
BY VerdictType, NextIdFacts DEF TypeOK, Settle

\* Every step preserves the types.
LEMMA TypeNext == TypeInv /\ [Next]_vars => TypeInv'
<1> SUFFICES ASSUME TypeInv, [Next]_vars PROVE TypeInv'
    OBVIOUS
<1> USE Bounds
<1> USE DEF TypeInv, TypeOK, CurOK
<1>1. ASSUME NEW p \in Publishers, NEW d \in Drafts, Publish(p, d)
      PROVE  TypeInv'
  <2>1. n + 1 \in Attempts /\ n + 1 \in 0 .. MaxAttempts
      BY <1>1 DEF Publish, Attempts
  <2>2. <<ApplyHeader(d.mfr), ApplyHeader(d.sn)>> \in Names \X Names
      BY ConstantsAssumption DEF ApplyHeader, AllDrafts, Names
  <2>3. /\ outcome' \in [Attempts -> Outcomes \cup {"none"}]
        /\ ledger' \in [Publishers -> Nat]
        /\ pc' \in [Publishers -> {"idle", "check", "publish", "send", "wait"}]
      BY <1>1, <2>1, TypeSettle DEF Publish, Continue
  <2>4. /\ pub' \in [Attempts -> Publishers \cup {None}]
        /\ id' \in [Attempts -> Nat]
        /\ body' \in [Attempts -> Names \X Names]
      BY <1>1, <2>1, <2>2 DEF Publish
  <2>5. CurOK'
      BY <1>1, <2>1 DEF Publish, Settle, Continue
  <2>6. QED
      BY <1>1, <2>1, <2>3, <2>4, <2>5 DEF Publish, transport
<1>2. ASSUME NEW p \in Publishers, CheckRunning(p)
      PROVE  TypeInv'
  <2>1. cur[p] \in Attempts
      BY <1>2 DEF CheckRunning, Attempts
  <2>2. /\ outcome' \in [Attempts -> Outcomes \cup {"none"}]
        /\ ledger' \in [Publishers -> Nat]
        /\ pc' \in [Publishers -> {"idle", "check", "publish", "send", "wait"}]
      BY <1>2, <2>1, TypeSettle DEF CheckRunning, Continue
  <2>3. CurOK'
      BY <1>2 DEF CheckRunning, Settle, Continue
  <2>4. QED
      BY <1>2, <2>1, <2>2, <2>3 DEF CheckRunning, transport, message
<1>3. ASSUME NEW p \in Publishers, HandOver(p)
      PROVE  TypeInv'
  <2>1. cur[p] \in Attempts
      BY <1>3 DEF HandOver, Attempts
  <2>2. /\ outcome' \in [Attempts -> Outcomes \cup {"none"}]
        /\ ledger' \in [Publishers -> Nat]
        /\ pc' \in [Publishers -> {"idle", "check", "publish", "send", "wait"}]
      BY <1>3, <2>1, TypeSettle DEF HandOver, Continue
  <2>3. CurOK'
      BY <1>3 DEF HandOver, Settle, Continue
  <2>4. /\ pkt' \in [Attempts -> {"none", "stored", "wire", "delivered", "lost"}]
        /\ tok' \in [Attempts -> {"none", "pending", "ok", "error"}]
    <3> HIDE DEF TypeInv, TypeOK, CurOK
    <3>1. /\ Handed(via[cur[p]]).pkt \in {"none", "stored", "lost"}
          /\ Handed(via[cur[p]]).tok \in {"pending", "ok", "error"}
        BY HandedFacts
    <3>2. PICK x \in {"none", "stored", "lost"},
               y \in {"pending", "ok", "error"} :
               /\ x = Handed(via[cur[p]]).pkt
               /\ y = Handed(via[cur[p]]).tok
        BY <3>1
    <3>3. \/ UNCHANGED <<pkt, tok>>
          \/ /\ pkt' = [pkt EXCEPT ![cur[p]] = x]
             /\ tok' = [tok EXCEPT ![cur[p]] = y]
        BY <1>3, <3>2 DEF HandOver
    <3>4. /\ pkt \in [Attempts -> {"none", "stored", "wire", "delivered", "lost"}]
          /\ tok \in [Attempts -> {"none", "pending", "ok", "error"}]
        BY DEF TypeInv, TypeOK
    <3>5. QED
        BY <2>1, <3>3, <3>4
  <2>5. UNCHANGED <<transport, ctx, cur, n, message, via>>
      BY <1>3 DEF HandOver
  <2>6. QED
      BY <2>2, <2>3, <2>4, <2>5 DEF transport, message
<1>12. ASSUME NEW p \in Publishers, Sent(p) \/ SendTimesOut(p)
       PROVE  TypeInv'
  <2>1. cur[p] \in Attempts
      BY <1>12 DEF Sent, SendTimesOut, Attempts
  <2>2. /\ pkt' \in [Attempts -> {"none", "stored", "wire", "delivered", "lost"}]
        /\ tok' \in [Attempts -> {"none", "pending", "ok", "error"}]
      BY <1>12, <2>1 DEF Sent, SendTimesOut
  <2>3. pc' \in [Publishers -> {"idle", "check", "publish", "send", "wait"}]
      BY <1>12 DEF Sent, SendTimesOut, Continue
  <2>4. CurOK'
      BY <1>12 DEF Sent, SendTimesOut, Continue
  <2>5. UNCHANGED <<transport, ctx, cur, n, message, via, outcome, ledger>>
      BY <1>12 DEF Sent, SendTimesOut, Continue
  <2>6. QED
      BY <2>2, <2>3, <2>4, <2>5 DEF transport, message
<1>4. ASSUME NEW p \in Publishers, Wait(p)
      PROVE  TypeInv'
  <2>1. cur[p] \in Attempts
      BY <1>4 DEF Wait, Attempts
  <2>2. /\ outcome' \in [Attempts -> Outcomes \cup {"none"}]
        /\ ledger' \in [Publishers -> Nat]
        /\ pc' \in [Publishers -> {"idle", "check", "publish", "send", "wait"}]
      BY <1>4, <2>1, TypeSettle DEF Wait
  <2>3. CurOK'
      BY <1>4 DEF Wait, Settle
  <2>4. QED
      BY <1>4, <2>2, <2>3 DEF Wait, transport, message
<1>5. ASSUME NEW p \in Publishers, NEW why \in {"Canceled", "DeadlineExceeded"},
             EndContext(p, why)
      PROVE  TypeInv'
    BY <1>5 DEF EndContext, transport, message
<1>6. ASSUME NEW i \in Attempts, Arrive(i) \/ Complete(i)
      PROVE  TypeInv'
  <2>1. CASE Arrive(i)
    <3>1. pkt' \in [Attempts -> {"none", "stored", "wire", "delivered", "lost"}]
        BY <2>1 DEF Arrive
    <3>2. QED
        BY <2>1, <3>1 DEF Arrive, transport, calls, message
  <2>2. CASE Complete(i)
      BY <2>2 DEF Complete, transport, calls, message
  <2>3. QED
      BY <1>6, <2>1, <2>2
<1>7. ASSUME NEW e \in Epochs, LoseConnection(e) \/ Reconnect(e) \/ Disconnect(e)
      PROVE  TypeInv'
  <2>1. link' \in [Epochs -> {"up", "down", "dead"}]
      BY <1>7, SMTT(30) DEF LoseConnection, Reconnect, Disconnect, End
  <2>2. tok' \in [Attempts -> {"none", "pending", "ok", "error"}]
      BY <1>7 DEF LoseConnection, Reconnect, Disconnect, End, calls
  <2>3. pkt' \in [Attempts -> {"none", "stored", "wire", "delivered", "lost"}]
      BY <1>7 DEF LoseConnection, Reconnect, Disconnect, End
  <2>4. UNCHANGED <<cstarted, running, client, calls>>
      BY <1>7 DEF LoseConnection, Reconnect, Disconnect
  <2>5. QED
      BY <2>1, <2>2, <2>3, <2>4 DEF calls, message
<1>8. CASE Start
  <2>1. /\ client' \in 0 .. MaxStarts /\ cstarted' \in BOOLEAN
        /\ running' \in BOOLEAN
      BY <1>8 DEF Start
  <2>2. link' \in [Epochs -> {"up", "down", "dead"}]
      BY <1>8 DEF Start
  <2>3. UNCHANGED <<calls, pkt, tok>>
      BY <1>8 DEF Start
  <2>4. QED
      BY <2>1, <2>2, <2>3 DEF calls, message
<1>9. CASE StopClient \/ StopTransport
    BY <1>9, ZenonT(60) DEF StopClient, StopTransport, calls, message
<1>10. CASE UNCHANGED vars
    BY <1>10 DEF vars, transport, message
<1>11. QED
    BY <1>1, <1>2, <1>3, <1>4, <1>5, <1>6, <1>7, <1>8, <1>9, <1>10, <1>12
    DEF Next, Step

\* The types hold in every reachable state.
THEOREM PublishTypeCorrect == Spec => []TypeOK
<1>1. TypeInv => TypeOK
    BY DEF TypeInv
<1>2. QED
    BY <1>1, TypeInit, TypeNext, PTL DEF Spec

-----------------------------------------------------------------------------
(***************************************************************************)
(* The effects of the steps, point by point.  A step of a call either ends *)
(* it or takes it further; all other steps leave the calls alone.          *)
(***************************************************************************)
\* The attempt of a call that is running is one of those begun.
LEMMA CurFacts ==
    ASSUME TypeInv, NEW p \in Publishers, pc[p] # "idle"
    PROVE  cur[p] \in Attempts /\ cur[p] <= n /\ cur[p] \in 1 .. n
BY Bounds DEF TypeInv, TypeOK, CurOK, Attempts

\* The call of p ends, with verdict v on attempt i.
Ends(p, i, v) ==
    /\ pc'[p] = "idle" /\ ledger'[p] = NextId(ledger[p], v)
    /\ \A q \in Publishers : q # p => pc'[q] = pc[q] /\ ledger'[q] = ledger[q]
    /\ outcome'[i] = v
    /\ \A j \in Attempts : j # i => outcome'[j] = outcome[j]

\* The call of p goes on.
Goes(p, where) ==
    /\ pc'[p] = where
    /\ \A q \in Publishers : q # p => pc'[q] = pc[q]
    /\ UNCHANGED <<outcome, ledger>>

\* Settle ends a call.
LEMMA SettleEffect ==
    ASSUME TypeOK, NEW p \in Publishers, NEW i \in Attempts, NEW err,
           Settle(p, i, err)
    PROVE  Ends(p, i, ClassifyPublish(err))
BY DEF TypeOK, Settle, Ends

\* Continue takes it further.
LEMMA ContinueEffect ==
    ASSUME TypeOK, NEW p \in Publishers, NEW where, Continue(p, where)
    PROVE  Goes(p, where)
BY DEF TypeOK, Continue, Goes

\* A new attempt.
LEMMA PublishEffect ==
    ASSUME TypeInv, NEW p \in Publishers, NEW d \in Drafts, Publish(p, d)
    PROVE  /\ pc[p] = "idle" /\ n' = n + 1 /\ n + 1 \in Attempts /\ n \in Nat
           /\ cur'[p] = n + 1 /\ pub'[n + 1] = p /\ id'[n + 1] = ledger[p]
           /\ body'[n + 1] = <<ApplyHeader(d.mfr), ApplyHeader(d.sn)>>
           /\ \A q \in Publishers : q # p => cur'[q] = cur[q]
           /\ \A j \in Attempts : j # n + 1 =>
                  pub'[j] = pub[j] /\ id'[j] = id[j] /\ body'[j] = body[j]
           /\ UNCHANGED <<transport, via, pkt, tok>>
           /\ \/ PrepareError(d) = NoError /\ Goes(p, "check")
              \/ \E v \in {"NotStarted", "Uncertain"} : Ends(p, n + 1, v)
<1>1. n + 1 \in Attempts /\ n \in Nat
    BY Bounds DEF Publish, TypeInv, TypeOK, Attempts
<1>2. /\ cur'[p] = n + 1 /\ pub'[n + 1] = p /\ id'[n + 1] = ledger[p]
      /\ body'[n + 1] = <<ApplyHeader(d.mfr), ApplyHeader(d.sn)>>
      /\ \A q \in Publishers : q # p => cur'[q] = cur[q]
      /\ \A j \in Attempts : j # n + 1 =>
             pub'[j] = pub[j] /\ id'[j] = id[j] /\ body'[j] = body[j]
    BY <1>1 DEF Publish, TypeInv, TypeOK
<1>3. CASE PrepareError(d) = NoError
  <2>1. Goes(p, "check")
      BY <1>3, ContinueEffect DEF Publish, TypeInv
  <2>2. QED
      BY <1>1, <1>2, <1>3, <2>1 DEF Publish
<1>4. CASE PrepareError(d) # NoError
  <2>1. Ends(p, n + 1, ClassifyPublish(PrepareError(d)))
      BY <1>1, <1>4, SettleEffect DEF Publish, TypeInv
  <2>2. QED
      BY <1>1, <1>2, <1>4, <2>1, PrepareFails DEF Publish
<1>5. QED
    BY <1>3, <1>4

\* A step of a call that is running.
LEMMA StepEffect ==
    ASSUME TypeInv, NEW p \in Publishers, Step(p)
    PROVE  /\ pc[p] # "idle"
           /\ UNCHANGED <<transport, ctx, cur, n, message>>
           /\ \/ /\ UNCHANGED <<via, pkt, tok>>
                 /\ \E v \in Outcomes :
                      /\ Ends(p, cur[p], v)
                      /\ v = "Accepted" => tok[cur[p]] = "ok"
                      /\ v = "NotStarted" => \/ pc[p] \in {"check", "publish"}
                                            \/ tok[cur[p]] = "error"
              \/ /\ pc[p] = "check" /\ Goes(p, "publish") /\ running
                 /\ UNCHANGED <<pkt, tok>> /\ via'[cur[p]] = client
                 /\ \A j \in Attempts : j # cur[p] => via'[j] = via[j]
              \/ /\ pc[p] = "publish" /\ UNCHANGED via
                 /\ \E where \in {"send", "wait"} : Goes(p, where)
                 /\ \A j \in Attempts : j # cur[p] =>
                        pkt'[j] = pkt[j] /\ tok'[j] = tok[j]
                 /\ tok'[cur[p]] = "ok" => QoS = 0
                 /\ tok'[cur[p]] = "error" => link[via[cur[p]]] = "dead"
              \/ /\ pc[p] = "send" /\ Goes(p, "wait") /\ UNCHANGED via
                 /\ \A j \in Attempts : j # cur[p] =>
                        pkt'[j] = pkt[j] /\ tok'[j] = tok[j]
                 /\ pkt[cur[p]] = "delivered" => pkt'[cur[p]] = "delivered"
                 /\ tok'[cur[p]] = "ok" => tok[cur[p]] = "ok"
                 /\ tok'[cur[p]] = "error" =>
                        \/ tok[cur[p]] = "error" \/ SendTimeouts
                        \/ link[via[cur[p]]] = "dead"
<1>1. CASE CheckRunning(p)
  <2>1. cur[p] \in Attempts
      BY <1>1, CurFacts DEF CheckRunning
  <2>2. CASE running /\ client # 0
    <3>1. Goes(p, "publish")
        BY <1>1, <2>2, ContinueEffect DEF CheckRunning, TypeInv
    <3>2. /\ via'[cur[p]] = client
          /\ \A j \in Attempts : j # cur[p] => via'[j] = via[j]
        BY <1>1, <2>1, <2>2 DEF CheckRunning, TypeInv, TypeOK
    <3>3. QED
        BY <1>1, <2>2, <3>1, <3>2 DEF CheckRunning
  <2>3. CASE ~(running /\ client # 0)
    <3>1. Ends(p, cur[p], ClassifyPublish(Failure("MQTTTransportNotRunning")))
        BY <1>1, <2>1, <2>3, SettleEffect DEF CheckRunning, TypeInv
    <3>2. ClassifyPublish(Failure("MQTTTransportNotRunning")) = "NotStarted"
        BY DEF ClassifyPublish, Failure, NotStartedCodes
    <3>3. QED
        BY <1>1, <2>3, <3>1, <3>2 DEF CheckRunning, Outcomes
  <2>4. QED
      BY <2>2, <2>3
<1>2. CASE HandOver(p)
  <2>1. cur[p] \in Attempts
      BY <1>2, CurFacts DEF HandOver
  <2>2. CASE ctx[p] = "live"
    <3>1. \E where \in {"send", "wait"} : Goes(p, where)
        BY <1>2, <2>2, ContinueEffect DEF HandOver, TypeInv
    <3>2. /\ tok'[cur[p]] = Handed(via[cur[p]]).tok
          /\ \A j \in Attempts : j # cur[p] =>
                 pkt'[j] = pkt[j] /\ tok'[j] = tok[j]
        BY <1>2, <2>1, <2>2 DEF HandOver, TypeInv, TypeOK
    <3>3. /\ Handed(via[cur[p]]).tok = "ok" => QoS = 0
          /\ Handed(via[cur[p]]).tok = "error" => link[via[cur[p]]] = "dead"
        BY Bounds, HandedFacts
    <3>4. QED
        BY <1>2, <2>2, <3>1, <3>2, <3>3 DEF HandOver
  <2>3. CASE ctx[p] # "live"
    <3>1. Ends(p, cur[p], ClassifyPublish(Failure(ctx[p])))
        BY <1>2, <2>1, <2>3, SettleEffect DEF HandOver, TypeInv
    <3>2. ctx[p] \in {"Canceled", "DeadlineExceeded"}
        BY <2>3 DEF TypeInv, TypeOK
    <3>3. ClassifyPublish(Failure(ctx[p])) = "NotStarted"
        BY <3>2 DEF ClassifyPublish, Failure, NotStartedCodes
    <3>4. QED
        BY <1>2, <2>3, <3>1, <3>3 DEF HandOver, Outcomes
  <2>4. QED
      BY <2>2, <2>3
<1>3. CASE Wait(p)
  <2>1. cur[p] \in Attempts
      BY <1>3, CurFacts DEF Wait
  <2>2. PICK err \in Errors :
            WaitEnds(tok[cur[p]], ctx[p], err) /\ Settle(p, cur[p], err)
      BY <1>3 DEF Wait
  <2>3. Ends(p, cur[p], ClassifyPublish(err))
      BY <2>1, <2>2, SettleEffect DEF TypeInv
  <2>4. ctx[p] \in {"live", "Canceled", "DeadlineExceeded"}
      BY DEF TypeInv, TypeOK
  <2>5. /\ ClassifyPublish(err) = "Accepted" => tok[cur[p]] = "ok"
        /\ ClassifyPublish(err) = "NotStarted" => tok[cur[p]] = "error"
      BY <2>2, <2>4, WaitVerdict
  <2>6. QED
      BY <1>3, <2>3, <2>5, VerdictType DEF Wait
<1>4. CASE Sent(p) \/ SendTimesOut(p)
  <2>1. cur[p] \in Attempts
      BY <1>4, CurFacts DEF Sent, SendTimesOut
  <2>2. Goes(p, "wait")
      BY <1>4, ContinueEffect DEF Sent, SendTimesOut, TypeInv
  <2>3. /\ \A j \in Attempts : j # cur[p] =>
               pkt'[j] = pkt[j] /\ tok'[j] = tok[j]
        /\ pkt[cur[p]] = "delivered" => pkt'[cur[p]] = "delivered"
        /\ tok'[cur[p]] = "ok" => tok[cur[p]] = "ok"
        /\ tok'[cur[p]] = "error" =>
               \/ tok[cur[p]] = "error" \/ SendTimeouts
               \/ link[via[cur[p]]] = "dead"
      BY <1>4, <2>1 DEF Sent, SendTimesOut, TypeInv, TypeOK
  <2>4. QED
      BY <1>4, <2>2, <2>3 DEF Sent, SendTimesOut
<1>5. QED
    BY <1>1, <1>2, <1>3, <1>4 DEF Step

\* The steps of the environment.
Environment ==
    \/ \E p \in Publishers : \E why \in {"Canceled", "DeadlineExceeded"} :
         EndContext(p, why)
    \/ \E i \in Attempts : Arrive(i) \/ Complete(i)
    \/ \E e \in Epochs : LoseConnection(e) \/ Reconnect(e) \/ Disconnect(e)
    \/ Start \/ StopClient \/ StopTransport
    \/ UNCHANGED vars

\* They leave the calls alone, send nothing that was not handed over, take no
\* delivery back, and complete a token of QoS 1 or 2 only after delivery or
\* when paho resumes a connection that was down.
LEMMA EnvironmentEffect ==
    ASSUME TypeInv, Environment
    PROVE  /\ UNCHANGED <<pc, cur, ledger, n, message, via, outcome>>
           /\ \A i \in Attempts :
                 /\ pkt[i] = "none" => pkt'[i] = "none"
                 /\ pkt[i] = "delivered" => pkt'[i] = "delivered"
                 /\ tok[i] = "none" => tok'[i] = "none"
                 /\ tok'[i] = "ok" => \/ tok[i] = "ok" \/ QoS = 0
                                      \/ pkt[i] = "delivered"
                                      \/ \E e \in Epochs : link[e] = "down"
<1> DEFINE Goal ==
        /\ UNCHANGED <<pc, cur, ledger, n, message, via, outcome>>
        /\ \A i \in Attempts :
              /\ pkt[i] = "none" => pkt'[i] = "none"
              /\ pkt[i] = "delivered" => pkt'[i] = "delivered"
              /\ tok[i] = "none" => tok'[i] = "none"
              /\ tok'[i] = "ok" => \/ tok[i] = "ok" \/ QoS = 0
                                   \/ pkt[i] = "delivered"
                                   \/ \E e \in Epochs : link[e] = "down"
<1>1. ASSUME NEW p \in Publishers, NEW why \in {"Canceled", "DeadlineExceeded"},
             EndContext(p, why)
      PROVE  Goal
    BY <1>1 DEF EndContext
<1>2. ASSUME NEW i \in Attempts, Arrive(i)
      PROVE  Goal
    BY <1>2 DEF Arrive, calls, TypeInv, TypeOK
<1>3. ASSUME NEW i \in Attempts, Complete(i)
      PROVE  Goal
    BY <1>3 DEF Complete, calls, TypeInv, TypeOK
<1>4. ASSUME NEW e \in Epochs, LoseConnection(e) \/ Disconnect(e)
      PROVE  Goal
  <2>1. UNCHANGED <<pkt, tok>> \/ End(e)
      BY <1>4 DEF LoseConnection, Disconnect
  <2>2. \A i \in Attempts : /\ tok[i] = "none" => tok'[i] = "none"
                            /\ tok'[i] = "ok" => tok[i] = "ok"
                            /\ pkt[i] = "none" => pkt'[i] = "none"
                            /\ pkt[i] = "delivered" => pkt'[i] = "delivered"
      BY <2>1 DEF End
  <2>3. UNCHANGED <<pc, cur, ledger, n, message, via, outcome>>
      BY <1>4 DEF LoseConnection, Disconnect, calls
  <2>4. QED
      BY <2>2, <2>3
<1>5. ASSUME NEW e \in Epochs, Reconnect(e)
      PROVE  Goal
    BY <1>5 DEF Reconnect, calls
<1>6. CASE Start \/ StopClient \/ StopTransport
    BY <1>6 DEF Start, StopClient, StopTransport, calls
<1>7. CASE UNCHANGED vars
    BY <1>7 DEF vars
<1>8. QED
    BY <1>1, <1>2, <1>3, <1>4, <1>5, <1>6, <1>7 DEF Environment

\* The three kinds of steps.
LEMMA Kinds ==
    [Next]_vars <=>
        \/ \E p \in Publishers : \E d \in Drafts : Publish(p, d)
        \/ \E p \in Publishers : Step(p)
        \/ Environment
BY DEF Next, Environment

-----------------------------------------------------------------------------
(***************************************************************************)
(* A call and its attempt.  While a call runs, its attempt is its own,     *)
(* undecided and carries the ID the ledger will hand out again; nothing    *)
(* has been handed to paho before the send.  Attempts to come are blank.   *)
(***************************************************************************)
CallInv ==
    \A p \in Publishers : pc[p] # "idle" =>
        /\ pub[cur[p]] = p /\ outcome[cur[p]] = "none"
        /\ id[cur[p]] = ledger[p]
        /\ pc[p] \notin {"send", "wait"} =>
               pkt[cur[p]] = "none" /\ tok[cur[p]] = "none"

FreshInv ==
    \A i \in Attempts : i > n =>
        pkt[i] = "none" /\ tok[i] = "none" /\ outcome[i] = "none"

RunInv == CallInv /\ FreshInv

\* Every step keeps calls and attempts together.
LEMMA RunNext == TypeInv /\ RunInv /\ [Next]_vars => RunInv'
<1> SUFFICES ASSUME TypeInv, RunInv, [Next]_vars PROVE RunInv'
    OBVIOUS
<1>c. \A q \in Publishers : pc[q] # "idle" => cur[q] \in Attempts /\ cur[q] <= n
    BY CurFacts
<1>n. n \in Nat /\ \A i \in Attempts : i \in Nat
    BY Bounds DEF TypeInv, TypeOK, Attempts
<1>1. ASSUME NEW p \in Publishers, NEW d \in Drafts, Publish(p, d)
      PROVE  RunInv'
  <2> DEFINE v == outcome'[n + 1]
  <2>1. /\ pc[p] = "idle" /\ n' = n + 1 /\ n + 1 \in Attempts
        /\ cur'[p] = n + 1 /\ pub'[n + 1] = p /\ id'[n + 1] = ledger[p]
        /\ \A q \in Publishers : q # p => cur'[q] = cur[q]
        /\ \A j \in Attempts : j # n + 1 => pub'[j] = pub[j] /\ id'[j] = id[j]
        /\ pkt' = pkt /\ tok' = tok
        /\ Goes(p, "check") \/ Ends(p, n + 1, v)
      BY <1>1, PublishEffect DEF Ends
  <2>2. \A q \in Publishers : pc[q] # "idle" => q # p /\ cur[q] # n + 1
      BY <2>1, <1>c, <1>n
  <2>3. pkt[n + 1] = "none" /\ tok[n + 1] = "none" /\ outcome[n + 1] = "none"
      BY <2>1, <1>n DEF RunInv, FreshInv
  <2>4. /\ \A q \in Publishers : q # p => pc'[q] = pc[q] /\ ledger'[q] = ledger[q]
        /\ \A j \in Attempts : j # n + 1 => outcome'[j] = outcome[j]
      BY <2>1 DEF Goes, Ends
  <2>5. pc'[p] # "idle" => pc'[p] = "check" /\ outcome' = outcome /\ ledger' = ledger
      BY <2>1 DEF Goes, Ends
  <2>6. CallInv'
    <3> SUFFICES ASSUME NEW q \in Publishers, pc'[q] # "idle"
                 PROVE  /\ pub'[cur'[q]] = q /\ outcome'[cur'[q]] = "none"
                        /\ id'[cur'[q]] = ledger'[q]
                        /\ pc'[q] \notin {"send", "wait"} =>
                               pkt'[cur'[q]] = "none" /\ tok'[cur'[q]] = "none"
        BY DEF CallInv
    <3>1. CASE q = p
        BY <2>1, <2>3, <2>5, <3>1
    <3>2. CASE q # p
        BY <1>c, <2>1, <2>2, <2>4, <3>2 DEF RunInv, CallInv
    <3>3. QED
        BY <3>1, <3>2
  <2>7. FreshInv'
      BY <1>n, <2>1, <2>4 DEF RunInv, FreshInv
  <2>8. QED
      BY <2>6, <2>7 DEF RunInv
<1>2. ASSUME NEW p \in Publishers, Step(p)
      PROVE  RunInv'
  <2>1. /\ pc[p] # "idle" /\ cur' = cur /\ n' = n /\ pub' = pub /\ id' = id
      BY <1>2, StepEffect DEF message
  <2>2. \A q \in Publishers : pc[q] # "idle" /\ q # p => cur[q] # cur[p]
      BY <2>1 DEF RunInv, CallInv
  <2>3. CASE UNCHANGED <<pkt, tok>> /\ \E v \in Outcomes : Ends(p, cur[p], v)
    <3>1. CallInv'
        BY <1>c, <2>1, <2>2, <2>3 DEF RunInv, CallInv, Ends
    <3>2. FreshInv'
        BY <1>c, <1>n, <2>1, <2>3 DEF RunInv, FreshInv, Ends
    <3>3. QED
        BY <3>1, <3>2 DEF RunInv
  <2>4. CASE UNCHANGED <<pkt, tok>> /\ pc[p] = "check" /\ Goes(p, "publish")
      BY <2>1, <2>4 DEF RunInv, CallInv, FreshInv, Goes
  <2>5. CASE /\ \E where \in {"send", "wait"} : Goes(p, where)
             /\ \A j \in Attempts : j # cur[p] =>
                    pkt'[j] = pkt[j] /\ tok'[j] = tok[j]
    <3>1. CallInv'
        BY <1>c, <2>1, <2>2, <2>5 DEF RunInv, CallInv, Goes
    <3>2. FreshInv'
        BY <1>c, <1>n, <2>1, <2>5 DEF RunInv, FreshInv, Goes
    <3>3. QED
        BY <3>1, <3>2 DEF RunInv
  <2>6. QED
      BY <1>2, <2>3, <2>4, <2>5, StepEffect
<1>3. CASE Environment
  <2>1. /\ pc' = pc /\ cur' = cur /\ ledger' = ledger /\ n' = n /\ pub' = pub
        /\ id' = id /\ outcome' = outcome
        /\ \A i \in Attempts : /\ pkt[i] = "none" => pkt'[i] = "none"
                               /\ tok[i] = "none" => tok'[i] = "none"
      BY <1>3, EnvironmentEffect DEF message
  <2>2. QED
      BY <1>c, <2>1 DEF RunInv, CallInv, FreshInv
<1>4. QED
    BY <1>1, <1>2, <1>3, Kinds

-----------------------------------------------------------------------------
(***************************************************************************)
(* Accepted means delivered, for a client that does not reconnect by       *)
(* itself: its connections are never resumed, and paho's token says ok     *)
(* only after the handshake.                                               *)
(***************************************************************************)
AckInv ==
    QoS \in {1, 2} =>
        \A i \in Attempts :
            /\ tok[i] = "ok" => pkt[i] = "delivered"
            /\ outcome[i] = "Accepted" => pkt[i] = "delivered"

NeverDown == \A e \in Epochs : link[e] # "down"

\* Without automatic reconnect no connection is ever down and kept.
LEMMA NeverDownNext ==
    ASSUME ~AutoReconnect
    PROVE  TypeInv /\ NeverDown /\ [Next]_vars => NeverDown'
<1> SUFFICES ASSUME TypeInv, NeverDown, [Next]_vars PROVE NeverDown'
    OBVIOUS
<1>l. link \in [Epochs -> {"up", "down", "dead"}]
    BY DEF TypeInv, TypeOK
<1>1. ASSUME NEW e \in Epochs, LoseConnection(e) \/ Reconnect(e) \/ Disconnect(e)
      PROVE  NeverDown'
    BY <1>1, <1>l DEF LoseConnection, Reconnect, Disconnect, End, NeverDown
<1>2. CASE Start
    BY <1>2, <1>l DEF Start, NeverDown
<1>3. CASE UNCHANGED link
    BY <1>3 DEF NeverDown
<1>4. ASSUME NEW p \in Publishers, NEW d \in Drafts, Publish(p, d)
      PROVE  UNCHANGED link
    BY <1>4 DEF Publish, transport
<1>5. ASSUME NEW p \in Publishers, Step(p)
      PROVE  UNCHANGED link
    BY <1>5, StepEffect DEF transport
<1>6. ASSUME NEW p \in Publishers, NEW why \in {"Canceled", "DeadlineExceeded"},
             EndContext(p, why)
      PROVE  UNCHANGED link
    BY <1>6 DEF EndContext, transport
<1>7. ASSUME NEW i \in Attempts, Arrive(i) \/ Complete(i)
      PROVE  UNCHANGED link
    BY <1>7 DEF Arrive, Complete, transport
<1>8. CASE StopClient \/ StopTransport
    BY <1>3, <1>8 DEF StopClient, StopTransport
<1>9. CASE UNCHANGED vars
    BY <1>3, <1>9 DEF vars, transport
<1>10. QED
    BY <1>1, <1>2, <1>3, <1>4, <1>5, <1>6, <1>7, <1>8, <1>9 DEF Next

\* Every step preserves it.
LEMMA AckNext ==
    TypeInv /\ RunInv /\ NeverDown /\ AckInv /\ [Next]_vars => AckInv'
<1> SUFFICES ASSUME TypeInv, RunInv, NeverDown, AckInv, [Next]_vars, QoS \in {1, 2},
                    NEW i \in Attempts
             PROVE  /\ tok'[i] = "ok" => pkt'[i] = "delivered"
                    /\ outcome'[i] = "Accepted" => pkt'[i] = "delivered"
    BY DEF AckInv
<1>a. /\ tok[i] = "ok" => pkt[i] = "delivered"
      /\ outcome[i] = "Accepted" => pkt[i] = "delivered"
    BY DEF AckInv
<1>1. ASSUME NEW p \in Publishers, NEW d \in Drafts, Publish(p, d)
      PROVE  /\ pkt' = pkt /\ tok' = tok
             /\ outcome'[i] = "Accepted" => outcome[i] = "Accepted"
    BY <1>1, PublishEffect DEF Goes, Ends
<1>2. ASSUME NEW p \in Publishers, Step(p)
      PROVE  /\ tok'[i] = "ok" => pkt'[i] = "delivered"
             /\ outcome'[i] = "Accepted" => pkt'[i] = "delivered"
  <2>1. cur[p] \in Attempts /\ outcome[cur[p]] = "none"
      BY <1>2, StepEffect, CurFacts DEF RunInv, CallInv
  <2>2. CASE /\ UNCHANGED <<pkt, tok>>
             /\ \E v \in Outcomes : /\ Ends(p, cur[p], v)
                                    /\ v = "Accepted" => tok[cur[p]] = "ok"
      BY <1>a, <2>1, <2>2 DEF Ends, AckInv
  <2>3. CASE UNCHANGED <<pkt, tok>> /\ Goes(p, "publish")
      BY <1>a, <2>3 DEF Goes
  <2>4. CASE /\ outcome' = outcome
             /\ \A j \in Attempts : j # cur[p] =>
                    pkt'[j] = pkt[j] /\ tok'[j] = tok[j]
             /\ \/ tok'[cur[p]] # "ok"
                \/ /\ pkt[cur[p]] = "delivered" => pkt'[cur[p]] = "delivered"
                   /\ tok'[cur[p]] = "ok" => tok[cur[p]] = "ok"
    <3>1. CASE i = cur[p]
        BY <1>a, <2>1, <2>4, <3>1
    <3>2. CASE i # cur[p]
        BY <1>a, <2>4, <3>2
    <3>3. QED
        BY <3>1, <3>2
  <2>5. (\E where \in {"send", "wait"} : Goes(p, where)) => outcome' = outcome
      BY DEF Goes
  <2>6. QED
      BY <1>2, <2>2, <2>3, <2>4, <2>5, StepEffect
<1>3. CASE Environment
  <2>1. /\ outcome' = outcome
        /\ pkt[i] = "delivered" => pkt'[i] = "delivered"
        /\ tok'[i] = "ok" => tok[i] = "ok" \/ QoS = 0 \/ pkt[i] = "delivered"
      BY <1>3, EnvironmentEffect DEF NeverDown
  <2>2. QED
      BY <1>a, <2>1
<1>4. QED
    BY <1>a, <1>1, <1>2, <1>3, Kinds

\* Accepted, for a client that does not reconnect by itself: whatever is
\* stopped, lost, cancelled, restarted or late, an accepted publish of QoS 1 or
\* 2 has reached the broker.
THEOREM AcceptedSound ==
    ASSUME ~AutoReconnect
    PROVE  Spec => []AcceptedDelivered
<1> DEFINE Inv == TypeInv /\ RunInv /\ NeverDown /\ AckInv
<1>1. Init => Inv
  <2> SUFFICES ASSUME Init PROVE RunInv /\ NeverDown /\ AckInv
      BY TypeInit
  <2>1. QED
      BY DEF Init, RunInv, CallInv, FreshInv, NeverDown, AckInv
<1>2. Inv /\ [Next]_vars => Inv'
    BY TypeNext, RunNext, NeverDownNext, AckNext
<1>3. Inv => AcceptedDelivered
    BY DEF AckInv, AcceptedDelivered
<1>4. QED
    BY <1>1, <1>2, <1>3, PTL DEF Spec

-----------------------------------------------------------------------------
(***************************************************************************)
(* IDs.  An undecided attempt is the one its publisher is working on, an   *)
(* attempt that may have been sent has an ID the ledger has left behind,   *)
(* and two such attempts of a publisher have different IDs.                *)
(***************************************************************************)
OwnerInv ==
    \A i \in 1 .. n :
        /\ pub[i] \in Publishers
        /\ outcome[i] = "none" => pc[pub[i]] # "idle" /\ cur[pub[i]] = i
        /\ outcome[i] \in {"Accepted", "Uncertain"} => id[i] < ledger[pub[i]]

UniqueInv ==
    \A i, j \in 1 .. n :
        /\ i # j /\ pub[i] = pub[j]
        /\ outcome[i] # "NotStarted" /\ outcome[j] # "NotStarted"
        => id[i] # id[j]

IdInv == OwnerInv /\ UniqueInv

\* Every step preserves it.
LEMMA IdNext == TypeInv /\ RunInv /\ IdInv /\ [Next]_vars => IdInv'
<1> SUFFICES ASSUME TypeInv, RunInv, IdInv, [Next]_vars PROVE IdInv'
    OBVIOUS
<1>n. /\ n \in Nat /\ 1 .. n \subseteq Attempts
      /\ \A q \in Publishers : ledger[q] \in Nat
      /\ \A i \in Attempts : id[i] \in Nat /\ outcome[i] \in Outcomes \cup {"none"}
    BY Bounds DEF TypeInv, TypeOK, Attempts
<1>1. ASSUME NEW p \in Publishers, NEW d \in Drafts, Publish(p, d)
      PROVE  IdInv'
  <2>1. /\ pc[p] = "idle" /\ n' = n + 1 /\ n + 1 \in Attempts
        /\ cur'[p] = n + 1 /\ pub'[n + 1] = p /\ id'[n + 1] = ledger[p]
        /\ \A q \in Publishers : q # p => cur'[q] = cur[q]
        /\ \A j \in Attempts : j # n + 1 => pub'[j] = pub[j] /\ id'[j] = id[j]
        /\ Goes(p, "check") \/ \E v \in {"NotStarted", "Uncertain"} : Ends(p, n + 1, v)
      BY <1>1, PublishEffect
  <2>2. 1 .. n' = 1 .. n \cup {n + 1} /\ n + 1 \notin 1 .. n
      BY <1>n, <2>1
  <2>3. /\ \A q \in Publishers : q # p => pc'[q] = pc[q] /\ ledger'[q] = ledger[q]
        /\ \A j \in 1 .. n : /\ pub'[j] = pub[j] /\ id'[j] = id[j]
                             /\ outcome'[j] = outcome[j]
      BY <1>n, <2>1, <2>2 DEF Goes, Ends
  <2>4. ledger'[p] >= ledger[p] /\ ledger'[p] \in Nat
      BY <1>n, <2>1, NextIdFacts DEF Goes, Ends
  <2>5. outcome[n + 1] = "none"
      BY <1>n, <2>1 DEF RunInv, FreshInv
  <2>6. \/ pc'[p] # "idle" /\ outcome'[n + 1] = "none"
        \/ outcome'[n + 1] = "NotStarted"
        \/ outcome'[n + 1] = "Uncertain" /\ ledger'[p] = ledger[p] + 1
      BY <1>n, <2>1, <2>5, NextIdFacts DEF Goes, Ends
  <2>7. OwnerInv'
    <3> SUFFICES ASSUME NEW i \in 1 .. n'
                 PROVE  /\ pub'[i] \in Publishers
                        /\ outcome'[i] = "none" => pc'[pub'[i]] # "idle" /\ cur'[pub'[i]] = i
                        /\ outcome'[i] \in {"Accepted", "Uncertain"}
                               => id'[i] < ledger'[pub'[i]]
        BY DEF OwnerInv
    <3>1. CASE i = n + 1
        BY <1>n, <2>1, <2>6, <3>1
    <3>2. CASE i \in 1 .. n
      <4>1. /\ pub[i] \in Publishers /\ i \in Attempts
            /\ outcome[i] = "none" => pc[pub[i]] # "idle" /\ cur[pub[i]] = i
            /\ outcome[i] \in {"Accepted", "Uncertain"} => id[i] < ledger[pub[i]]
          BY <1>n, <3>2 DEF IdInv, OwnerInv
      <4>2. CASE pub[i] = p
          BY <1>n, <2>1, <2>3, <2>4, <3>2, <4>1, <4>2
      <4>3. CASE pub[i] # p
          BY <2>1, <2>3, <3>2, <4>1, <4>3
      <4>4. QED
          BY <4>2, <4>3
    <3>3. QED
        BY <2>2, <3>1, <3>2
  <2>8. ASSUME NEW i \in 1 .. n, pub[i] = p, outcome[i] # "NotStarted"
        PROVE  id[i] # ledger[p]
    <3>1. outcome[i] \in {"Accepted", "Uncertain"}
        BY <1>n, <2>1, <2>8 DEF IdInv, OwnerInv, Outcomes
    <3>2. id[i] < ledger[p]
        BY <2>8, <3>1 DEF IdInv, OwnerInv
    <3>3. QED
        BY <1>n, <2>8, <3>2
  <2>9. UniqueInv'
      BY <2>1, <2>2, <2>3, <2>8 DEF IdInv, UniqueInv
  <2>10. QED
      BY <2>7, <2>9 DEF IdInv
<1>2. ASSUME NEW p \in Publishers, Step(p)
      PROVE  IdInv'
  <2>1. /\ pc[p] # "idle" /\ cur' = cur /\ n' = n /\ pub' = pub /\ id' = id
      BY <1>2, StepEffect DEF message
  <2>2. /\ cur[p] \in Attempts /\ cur[p] \in 1 .. n
        /\ pub[cur[p]] = p /\ id[cur[p]] = ledger[p] /\ outcome[cur[p]] = "none"
      BY <2>1, CurFacts DEF RunInv, CallInv
  <2>3. ASSUME NEW v \in Outcomes, Ends(p, cur[p], v)
        PROVE  IdInv'
    <3>1. /\ ledger'[p] \in Nat /\ ledger'[p] >= ledger[p]
          /\ v # "NotStarted" => ledger'[p] > ledger[p]
        BY <1>n, <2>3, NextIdFacts DEF Ends
    <3>2. OwnerInv'
      <4> SUFFICES ASSUME NEW i \in 1 .. n
                   PROVE  /\ pub[i] \in Publishers
                          /\ outcome'[i] = "none" => pc'[pub[i]] # "idle" /\ cur[pub[i]] = i
                          /\ outcome'[i] \in {"Accepted", "Uncertain"}
                                 => id[i] < ledger'[pub[i]]
          BY <2>1 DEF OwnerInv
      <4>1. CASE i = cur[p]
          BY <1>n, <2>2, <2>3, <3>1, <4>1 DEF Ends, Outcomes
      <4>2. CASE i # cur[p]
        <5>1. /\ pub[i] \in Publishers /\ i \in Attempts /\ outcome'[i] = outcome[i]
              /\ outcome[i] = "none" => pc[pub[i]] # "idle" /\ cur[pub[i]] = i
              /\ outcome[i] \in {"Accepted", "Uncertain"} => id[i] < ledger[pub[i]]
            BY <1>n, <2>3, <4>2 DEF IdInv, OwnerInv, Ends
        <5>2. CASE pub[i] = p
            BY <1>n, <3>1, <4>2, <5>1, <5>2
        <5>3. CASE pub[i] # p
            BY <2>3, <5>1, <5>3 DEF Ends
        <5>4. QED
            BY <5>2, <5>3
      <4>3. QED
          BY <4>1, <4>2
    <3>3. UniqueInv'
        BY <1>n, <2>1, <2>2, <2>3 DEF IdInv, UniqueInv, Ends
    <3>4. QED
        BY <3>2, <3>3 DEF IdInv
  <2>4. ASSUME NEW where \in {"publish", "send", "wait"}, Goes(p, where)
        PROVE  IdInv'
      BY <2>1, <2>4 DEF IdInv, OwnerInv, UniqueInv, Goes
  <2>5. QED
      BY <1>2, <2>3, <2>4, StepEffect
<1>3. CASE Environment
  <2>1. /\ pc' = pc /\ cur' = cur /\ ledger' = ledger /\ n' = n /\ pub' = pub
        /\ id' = id /\ outcome' = outcome
      BY <1>3, EnvironmentEffect DEF message
  <2>2. QED
      BY <2>1 DEF IdInv, OwnerInv, UniqueInv
<1>4. QED
    BY <1>1, <1>2, <1>3, Kinds

-----------------------------------------------------------------------------
(***************************************************************************)
(* A platform that drains, over a client that reconnects and whose writer  *)
(* takes every packet in time.  While a call runs the client stays         *)
(* started, so the paho client it uses is the current one, which is not    *)
(* ended before the call has returned: its token cannot fail after the     *)
(* packet was handed over.                                                 *)
(***************************************************************************)
Started ==
    /\ cstarted => running
    /\ running => client \in Epochs /\ link[client] # "dead"

Current ==
    \A p \in Publishers :
        /\ pc[p] # "idle" => cstarted
        /\ pc[p] \in {"publish", "send", "wait"} => via[cur[p]] = client
        /\ pc[p] \in {"send", "wait"} => tok[cur[p]] # "error"

DrainInv == Started /\ Current /\ NotStartedNeverSent

\* A step of the environment keeps calls on a live client.
LEMMA DrainEnvironment ==
    ASSUME Drains, AutoReconnect, TypeInv, Started, Current, Environment
    PROVE  Started' /\ Current'
<1>a. /\ pc' = pc /\ cur' = cur /\ via' = via
      /\ \A q \in Publishers : pc[q] # "idle" => cur[q] \in Attempts
    BY EnvironmentEffect, CurFacts
<1>t. tok \in [Attempts -> {"none", "pending", "ok", "error"}]
    BY DEF TypeInv, TypeOK
<1>l. link \in [Epochs -> {"up", "down", "dead"}] /\ client \in 0 .. MaxStarts
    BY DEF TypeInv, TypeOK
<1>1. ASSUME NEW p \in Publishers, NEW why \in {"Canceled", "DeadlineExceeded"},
             EndContext(p, why)
      PROVE  Started' /\ Current'
    BY <1>a, <1>1 DEF EndContext, transport, Started, Current
<1>2. ASSUME NEW i \in Attempts, Arrive(i) \/ Complete(i)
      PROVE  Started' /\ Current'
  <2>1. cstarted' = cstarted /\ running' = running /\ client' = client /\ link' = link
      BY <1>2 DEF Arrive, Complete, transport
  <2>2. \A j \in Attempts : tok'[j] = "error" => tok[j] = "error"
      BY <1>2, <1>t DEF Arrive, Complete
  <2>3. QED
      BY <1>a, <2>1, <2>2 DEF Started, Current
<1>3. ASSUME NEW e \in Epochs, LoseConnection(e) \/ Reconnect(e)
      PROVE  Started' /\ Current'
  <2>1. /\ cstarted' = cstarted /\ running' = running /\ client' = client
        /\ \A j \in Attempts : tok'[j] = "error" => tok[j] = "error"
        /\ link' = [link EXCEPT ![e] = "down"] \/ link' = [link EXCEPT ![e] = "up"]
      BY <1>3 DEF LoseConnection, Reconnect
  <2>2. running => link'[client] # "dead"
      BY <1>l, <2>1 DEF Started
  <2>3. QED
      BY <1>a, <2>1, <2>2 DEF Started, Current
<1>4. ASSUME NEW e \in Epochs, Disconnect(e)
      PROVE  Started' /\ Current'
  <2>1. /\ cstarted' = cstarted /\ running' = running /\ client' = client
        /\ e # client \/ ~running
        /\ link' = [link EXCEPT ![e] = "dead"]
        /\ tok' = [i \in Attempts |->
                     IF via[i] = e /\ tok[i] = "pending" THEN "error" ELSE tok[i]]
      BY <1>4 DEF Disconnect, End
  <2>2. running => link'[client] = link[client]
      BY <1>l, <2>1 DEF Started
  <2>3. \A i \in Attempts : via[i] # e => tok'[i] = tok[i]
      BY <2>1
  <2>4. \A q \in Publishers : pc[q] \in {"send", "wait"} => via[cur[q]] # e
      BY <2>1 DEF Started, Current
  <2>5. QED
      BY <1>a, <2>1, <2>2, <2>3, <2>4 DEF Started, Current
<1>5. CASE Start
  <2>1. client + 1 \in Epochs
      BY <1>5, <1>l, Bounds DEF Start, Epochs
  <2>2. /\ client' = client + 1 /\ link'[client + 1] = "up" /\ ~cstarted
        /\ cstarted' /\ running'
      BY <1>5, <1>l, <2>1 DEF Start
  <2>3. \A q \in Publishers : pc[q] = "idle"
      BY <2>2 DEF Current
  <2>4. QED
      BY <1>a, <2>1, <2>2, <2>3 DEF Started, Current
<1>6. CASE StopClient
  <2>1. \A q \in Publishers : pc[q] = "idle"
      BY <1>6 DEF StopClient
  <2>2. QED
      BY <1>6, <1>a, <2>1 DEF StopClient, Started, Current
<1>7. CASE StopTransport
  <2>1. \A q \in Publishers : pc[q] = "idle"
      BY <1>7 DEF StopTransport, Current
  <2>2. QED
      BY <1>7, <1>a, <2>1 DEF StopTransport, Started, Current
<1>8. CASE UNCHANGED vars
    BY <1>8, <1>a DEF vars, transport, Started, Current
<1>9. QED
    BY <1>1, <1>2, <1>3, <1>4, <1>5, <1>6, <1>7, <1>8 DEF Environment

\* Every step preserves it.
LEMMA DrainNext ==
    ASSUME Drains, AutoReconnect, ~SendTimeouts
    PROVE  TypeInv /\ RunInv /\ DrainInv /\ [Next]_vars => DrainInv'
<1> SUFFICES ASSUME TypeInv, RunInv, DrainInv, [Next]_vars PROVE DrainInv'
    OBVIOUS
<1>c. \A q \in Publishers : pc[q] # "idle" => cur[q] \in Attempts /\ cur[q] \in 1 .. n
    BY CurFacts
<1>n. n \in Nat
    BY DEF TypeInv, TypeOK
<1>1. ASSUME NEW p \in Publishers, NEW d \in Drafts, Publish(p, d)
      PROVE  DrainInv'
  <2>1. /\ pc[p] = "idle" /\ n + 1 \in Attempts /\ cur'[p] = n + 1
        /\ \A q \in Publishers : q # p => cur'[q] = cur[q]
        /\ cstarted' = cstarted /\ running' = running /\ client' = client
        /\ link' = link /\ via' = via /\ pkt' = pkt /\ tok' = tok
        /\ \/ PrepareError(d) = NoError /\ Goes(p, "check")
           \/ \E v \in {"NotStarted", "Uncertain"} : Ends(p, n + 1, v)
      BY <1>1, PublishEffect DEF transport
  <2>2. PrepareError(d) = NoError => cstarted
      BY DEF PrepareError, NoError, Failure
  <2>3. Current'
      BY <2>1, <2>2 DEF DrainInv, Current, Goes, Ends
  <2>4. pkt[n + 1] = "none"
      BY <1>n, <2>1 DEF RunInv, FreshInv
  <2>5. NotStartedNeverSent'
      BY <2>1, <2>4 DEF DrainInv, NotStartedNeverSent, Goes, Ends
  <2>6. Started'
      BY <2>1 DEF DrainInv, Started
  <2>7. QED
      BY <2>3, <2>5, <2>6 DEF DrainInv
<1>2. ASSUME NEW p \in Publishers, Step(p)
      PROVE  DrainInv'
  <2>1. /\ pc[p] # "idle" /\ cur' = cur /\ cstarted' = cstarted
        /\ running' = running /\ client' = client /\ link' = link
      BY <1>2, StepEffect DEF transport
  <2>2. Started'
      BY <2>1 DEF DrainInv, Started
  <2>3. \A q \in Publishers : pc[q] # "idle" /\ q # p => cur[q] # cur[p]
      BY <2>1 DEF RunInv, CallInv
  <2>4. CASE /\ UNCHANGED <<via, pkt, tok>>
             /\ \E v \in Outcomes :
                  /\ Ends(p, cur[p], v)
                  /\ v = "NotStarted" => \/ pc[p] \in {"check", "publish"}
                                         \/ tok[cur[p]] = "error"
    <3>1. Current'
        BY <2>1, <2>4 DEF DrainInv, Current, Ends
    <3>2. PICK v \in Outcomes :
              /\ Ends(p, cur[p], v)
              /\ v = "NotStarted" => \/ pc[p] \in {"check", "publish"}
                                     \/ tok[cur[p]] = "error"
        BY <2>4
    <3>3. v = "NotStarted" => pkt[cur[p]] = "none"
        BY <2>1, <3>2 DEF DrainInv, Current, RunInv, CallInv
    <3>4. NotStartedNeverSent'
        BY <1>c, <2>1, <2>4, <3>2, <3>3 DEF DrainInv, NotStartedNeverSent, Ends
    <3>5. QED
        BY <2>2, <3>1, <3>4 DEF DrainInv
  <2>5. CASE /\ pc[p] = "check" /\ Goes(p, "publish")
             /\ UNCHANGED <<pkt, tok>> /\ via'[cur[p]] = client
             /\ \A j \in Attempts : j # cur[p] => via'[j] = via[j]
    <3>1. Current'
        BY <1>c, <2>1, <2>3, <2>5 DEF DrainInv, Current, Goes
    <3>2. NotStartedNeverSent'
        BY <2>5 DEF DrainInv, NotStartedNeverSent, Goes
    <3>3. QED
        BY <2>2, <3>1, <3>2 DEF DrainInv
  <2>6. CASE /\ pc[p] \in {"publish", "send"} /\ UNCHANGED via
             /\ \E where \in {"send", "wait"} : Goes(p, where)
             /\ \A j \in Attempts : j # cur[p] =>
                    pkt'[j] = pkt[j] /\ tok'[j] = tok[j]
             /\ tok'[cur[p]] = "error" =>
                    \/ pc[p] = "send" /\ tok[cur[p]] = "error"
                    \/ link[via[cur[p]]] = "dead"
    <3>1. cstarted /\ via[cur[p]] = client /\ link[client] # "dead"
        BY <2>1, <2>6 DEF DrainInv, Started, Current
    <3>2. tok'[cur[p]] # "error"
        BY <2>6, <3>1 DEF DrainInv, Current
    <3>3. Current'
        BY <1>c, <2>1, <2>3, <2>6, <3>1, <3>2 DEF DrainInv, Current, Goes
    <3>4. outcome[cur[p]] = "none"
        BY <2>1 DEF RunInv, CallInv
    <3>5. NotStartedNeverSent'
        BY <1>c, <2>1, <2>6, <3>4 DEF DrainInv, NotStartedNeverSent, Goes
    <3>6. QED
        BY <2>2, <3>3, <3>5 DEF DrainInv
  <2>7. QED
      BY <1>2, <2>4, <2>5, <2>6, StepEffect
<1>3. CASE Environment
  <2>1. /\ outcome' = outcome
        /\ \A i \in Attempts : pkt[i] = "none" => pkt'[i] = "none"
      BY <1>3, EnvironmentEffect
  <2>2. NotStartedNeverSent'
      BY <2>1 DEF DrainInv, NotStartedNeverSent
  <2>3. QED
      BY <1>3, <2>2, DrainEnvironment DEF DrainInv
<1>4. QED
    BY <1>1, <1>2, <1>3, Kinds

-----------------------------------------------------------------------------
(***************************************************************************)
(* The theorems.                                                           *)
(***************************************************************************)
\* Init establishes the invariants.
LEMMA InvInit == Init => TypeInv /\ RunInv /\ IdInv /\ DrainInv
<1> SUFFICES ASSUME Init PROVE RunInv /\ IdInv /\ DrainInv
    BY TypeInit
<1>1. RunInv
    BY DEF Init, RunInv, CallInv, FreshInv
<1>2. IdInv
  <2>0. n = 0
      BY DEF Init
  <2>1. \A i \in 1 .. n : FALSE
      BY <2>0
  <2>2. QED
      BY <2>1 DEF IdInv, OwnerInv, UniqueInv
<1>3. DrainInv
    BY DEF Init, DrainInv, Started, Current, NotStartedNeverSent
<1>4. QED
    BY <1>1, <1>2, <1>3

\* NotStarted: if the platform lets its publishes return before it stops the
\* client, paho reconnects by itself and its writer takes every packet in time,
\* an attempt that ClassifyPublish calls NotStarted has never been, and never will be, a packet.
THEOREM NotStartedSound ==
    ASSUME Drains, AutoReconnect, ~SendTimeouts
    PROVE  Spec => []NotStartedNeverSent
<1>1. TypeInv /\ RunInv /\ DrainInv /\ [Next]_vars
          => (TypeInv /\ RunInv /\ DrainInv)'
    BY TypeNext, RunNext, DrainNext
<1>2. DrainInv => NotStartedNeverSent
    BY DEF DrainInv
<1>3. QED
    BY <1>1, <1>2, InvInit, PTL DEF Spec

\* The egress protocol under the same assumptions: recording, reusing and
\* fencing by the verdict delivers no ID twice.
THEOREM IdsDeliveredOnce ==
    ASSUME Drains, AutoReconnect, ~SendTimeouts
    PROVE  Spec => []NoIdDeliveredTwice
<1>1. TypeInv /\ RunInv /\ IdInv /\ DrainInv /\ [Next]_vars
          => (TypeInv /\ RunInv /\ IdInv /\ DrainInv)'
    BY TypeNext, RunNext, IdNext, DrainNext
<1>2. TypeInv /\ RunInv /\ IdInv /\ DrainInv => NoIdDeliveredTwice
  <2> SUFFICES ASSUME TypeInv, RunInv, IdInv, DrainInv,
                      NEW i \in Attempts, NEW j \in Attempts, i # j,
                      pkt[i] = "delivered", pkt[j] = "delivered", pub[i] = pub[j]
               PROVE  id[i] # id[j]
      BY DEF NoIdDeliveredTwice
  <2>1. i \in 1 .. n /\ j \in 1 .. n
      BY Bounds, SMTT(30) DEF RunInv, FreshInv, TypeInv, TypeOK, Attempts
  <2>2. outcome[i] # "NotStarted" /\ outcome[j] # "NotStarted"
      BY DEF DrainInv, NotStartedNeverSent
  <2>3. QED
      BY <2>1, <2>2 DEF IdInv, UniqueInv
<1>3. QED
    BY <1>1, <1>2, InvInit, PTL DEF Spec

-----------------------------------------------------------------------------
(***************************************************************************)
(* Identity.  A draft that names another AGV is refused before an attempt  *)
(* is left undecided, and only an undecided attempt is handed to paho.     *)
(***************************************************************************)
Checked == ~Checks.disabled /\ ~Checks.skipIdentity

\* A draft that passes the checks is sent under the identity of the handle.
LEMMA PassedIsOwn ==
    ASSUME Checked, NEW d \in Drafts, PrepareError(d) = NoError
    PROVE  <<ApplyHeader(d.mfr), ApplyHeader(d.sn)>> = <<"own", "own">>
<1>1. d.mfr \in Names /\ d.sn \in Names
    BY ConstantsAssumption DEF AllDrafts
<1>2. ~Foreign(d)
    BY DEF Checked, PrepareError, NoError, Failure, Rejected
<1>3. QED
    BY <1>1, <1>2 DEF Foreign, ApplyHeader, Names

OwnInv ==
    \A i \in 1 .. n :
        outcome[i] = "none" \/ pkt[i] # "none" => body[i] = <<"own", "own">>

\* Every step preserves it.
LEMMA OwnNext ==
    ASSUME Checked
    PROVE  TypeInv /\ RunInv /\ OwnInv /\ [Next]_vars => OwnInv'
<1> SUFFICES ASSUME TypeInv, RunInv, OwnInv, [Next]_vars PROVE OwnInv'
    OBVIOUS
<1>n. n \in Nat /\ 1 .. n \subseteq Attempts
    BY Bounds DEF TypeInv, TypeOK, Attempts
<1>1. ASSUME NEW p \in Publishers, NEW d \in Drafts, Publish(p, d)
      PROVE  OwnInv'
  <2>1. /\ n' = n + 1 /\ n + 1 \in Attempts /\ pkt' = pkt
        /\ body'[n + 1] = <<ApplyHeader(d.mfr), ApplyHeader(d.sn)>>
        /\ \A j \in Attempts : j # n + 1 => body'[j] = body[j]
        /\ \/ PrepareError(d) = NoError /\ Goes(p, "check")
           \/ \E v \in {"NotStarted", "Uncertain"} : Ends(p, n + 1, v)
      BY <1>1, PublishEffect
  <2>2. pkt[n + 1] = "none"
      BY <1>n, <2>1 DEF RunInv, FreshInv
  <2>3. outcome'[n + 1] = "none" => body'[n + 1] = <<"own", "own">>
      BY <2>1, PassedIsOwn DEF Ends
  <2>4. \A j \in 1 .. n : j # n + 1 /\ outcome'[j] = outcome[j]
      BY <1>n, <2>1 DEF Goes, Ends
  <2>5. QED
      BY <1>n, <2>1, <2>2, <2>3, <2>4 DEF OwnInv
<1>2. ASSUME NEW p \in Publishers, Step(p)
      PROVE  OwnInv'
  <2>1. /\ pc[p] # "idle" /\ n' = n /\ body' = body
        /\ outcome[cur[p]] = "none" /\ cur[p] \in 1 .. n
      BY <1>2, StepEffect, CurFacts DEF message, RunInv, CallInv
  <2>2. \A j \in 1 .. n : j # cur[p] =>
            outcome'[j] = outcome[j] /\ pkt'[j] = pkt[j]
      BY <1>2, <1>n, StepEffect DEF Ends, Goes
  <2>3. QED
      BY <2>1, <2>2 DEF OwnInv
<1>3. CASE Environment
  <2>1. /\ n' = n /\ body' = body /\ outcome' = outcome
        /\ \A i \in 1 .. n : pkt[i] = "none" => pkt'[i] = "none"
      BY <1>3, <1>n, EnvironmentEffect DEF message
  <2>2. QED
      BY <2>1 DEF OwnInv
<1>4. QED
    BY <1>1, <1>2, <1>3, Kinds

\* validateOutboundHeader: with the checks turned on, whatever goes out on the
\* topic of an AGV names that AGV.
THEOREM IdentitySound == Spec => []IdentityOnWire
<1> DEFINE Inv == TypeInv /\ RunInv /\ (Checked => OwnInv)
<1>1. Init => Inv
  <2>1. Init => n = 0
      BY DEF Init
  <2>2. n = 0 => OwnInv
      BY DEF OwnInv
  <2>3. QED
      BY <2>1, <2>2, InvInit
<1>2. Inv /\ [Next]_vars => Inv'
    BY TypeNext, RunNext, OwnNext DEF Checked
<1>3. Inv => IdentityOnWire
  <2> SUFFICES ASSUME Inv, Checked, NEW i \in Attempts, pkt[i] # "none"
               PROVE  body[i] = <<"own", "own">>
      BY DEF IdentityOnWire, Checked
  <2>1. i \in Nat /\ n \in Nat /\ i >= 1 /\ ~(i > n)
      BY Bounds DEF TypeInv, TypeOK, RunInv, FreshInv, Attempts
  <2>2. QED
      BY <2>1 DEF OwnInv
<1>4. QED
    BY <1>1, <1>2, <1>3, PTL DEF Spec
=============================================================================
