------------------------- MODULE FleetSessionProofs -------------------------
(***************************************************************************)
(* Proofs about FleetSession, for any number of AGVs, channels, goroutines *)
(* and calls.                                                              *)
(***************************************************************************)
EXTENDS FleetSession, FiniteSetTheorems, SequenceTheorems, TLAPS

\* The bounds are natural numbers.
LEMMA Bounds == MaxCalls \in Nat /\ MaxReconnects \in Nat /\ NChans \in Nat
BY ConstantsAssumption

-----------------------------------------------------------------------------
(***************************************************************************)
(* What a call holds in each place.                                        *)
(***************************************************************************)
Tracking == {"check", "sub", "insert", "rollback"}
Removing == {"remove", "unsub"}
Holding  == {"sub", "insert", "rollback", "unsub"}

\* The operation a place belongs to.
PlaceOK(t) ==
    /\ t.pc \in Tracking => t.op \in {"track", "restore"}
    /\ t.pc = "online" => t.op = "track"
    /\ t.pc \in Removing => t.op \in {"untrack", "stop"}
    /\ t.pc \in {"stop", "stopNext", "disconnect"} => t.op = "stop"
    /\ t.pc \in {"snapshot", "start", "restoreNext"} => t.op = "restore"

\* The AGV it is about and the handles it has.
GotOK(t) ==
    /\ t.pc \in Tracking \cup Removing \cup {"online"} => t.agv \in AGVs
    /\ t.pc = "sub" => Len(t.got) < NChans
    /\ t.pc = "insert" => Len(t.got) = NChans
    /\ t.pc \notin Holding => t.got = << >>
    /\ \A i \in 1 .. Len(t.got) : t.got[i].filter = <<t.agv, i>>

CallOK(t) ==
    /\ t \in Threads
    /\ t.pc = "idle" => t = Idle
    /\ t.pc # "idle" => t.call \in 1 .. MaxCalls
    /\ PlaceOK(t) /\ GotOK(t)

CallsOK == \A p \in Procs : CallOK(th[p])

\* The entries of the session.
EntriesOK ==
    /\ fstarted <=> connUnsub # None
    /\ connUnsub # None => connUnsub.filter = ConnFilter
    /\ \A a \in tracked :
         /\ Len(unsubs[a]) = NChans
         /\ \A i \in 1 .. NChans : unsubs[a][i].filter = <<a, i>>

Base == TypeOK /\ CallsOK /\ EntriesOK /\ due <= reconnects

-----------------------------------------------------------------------------
(***************************************************************************)
(* The operators.                                                          *)
(***************************************************************************)
LEMMA IdleOK == CallOK(Idle)
BY Bounds DEF Idle, CallOK, Threads, PlaceOK, GotOK, Tracking, Removing, Holding

LEMMA IdleType == Idle \in Threads /\ Idle.got = << >>
BY Bounds, EmptySeq DEF Idle, Threads

\* A call that returns has nothing left to cancel.
LEMMA ReturnedOK ==
    ASSUME NEW t \in Threads, t.call \in 1 .. MaxCalls, t.got = << >>
    PROVE  CallOK(Returned(t))
<1>1. CASE t.op = "stop"
    <2> DEFINE u == [t EXCEPT !.pc = "stopNext"]
    <2>1. u \in Threads /\ u.pc = "stopNext" /\ u.op = t.op /\ u.call = t.call
            /\ u.got = << >>
        BY DEF Threads
    <2> HIDE DEF u
    <2>2. CallOK(u)
        BY <1>1, <2>1, EmptySeq
           DEF CallOK, PlaceOK, GotOK, Tracking, Removing, Holding
    <2> QED BY <1>1, <2>2 DEF Returned, u
<1>2. CASE t.op = "restore" /\ ~t.failed
    <2> DEFINE u == [t EXCEPT !.pc = "restoreNext"]
    <2>1. u \in Threads /\ u.pc = "restoreNext" /\ u.op = t.op /\ u.call = t.call
            /\ u.got = << >>
        BY DEF Threads
    <2> HIDE DEF u
    <2>2. CallOK(u)
        BY <1>2, <2>1, EmptySeq
           DEF CallOK, PlaceOK, GotOK, Tracking, Removing, Holding
    <2> QED BY <1>2, <2>2 DEF Returned, u
<1>3. CASE t.op # "stop" /\ ~(t.op = "restore" /\ ~t.failed)
    BY <1>3, IdleOK DEF Returned
<1> QED BY <1>1, <1>2, <1>3

\* One goroutine moves.
LEMMA Moved ==
    ASSUME TypeOK, CallsOK, NEW p \in Procs, NEW t, CallOK(t),
           th' = [th EXCEPT ![p] = t]
    PROVE  th' \in [Procs -> Threads] /\ CallsOK'
BY DEF TypeOK, CallsOK, CallOK

LEMMA ReturnOK ==
    ASSUME TypeOK, CallsOK, NEW p \in Procs, NEW t \in Threads,
           t.call \in 1 .. MaxCalls, t.got = << >>, Return(p, t)
    PROVE  /\ th' \in [Procs -> Threads] /\ CallsOK'
           /\ want' \in [AGVs -> {"none", "track", "untrack"}]
           /\ restoreOK' \in BOOLEAN
<1>1. th' \in [Procs -> Threads] /\ CallsOK'
    BY ReturnedOK, Moved DEF Return
<1>2. want' \in [AGVs -> {"none", "track", "untrack"}]
    BY DEF Return, TypeOK
<1>3. restoreOK' \in BOOLEAN
    BY DEF Return, TypeOK
<1> QED BY <1>1, <1>2, <1>3

\* Cancelling removes the handles, and adds nothing.
LEMMA CancelFacts ==
    ASSUME NEW S, NEW H
    PROVE  Cancel(S, H) \subseteq S /\ Cancel(S, H) \cap H = {}
BY DEF Cancel

LEMMA CancelledFacts ==
    ASSUME NEW H, NEW K \in Cancelled(H)
    PROVE  K \subseteq H /\ ("unsub" \notin Faults => K = H)
BY DEF Cancelled

LEMMA FrontFacts ==
    ASSUME NEW S, NEW s \in Seq(S), s # << >>
    PROVE  /\ Front(s) \in Seq(S) /\ Len(Front(s)) = Len(s) - 1
           /\ Len(s) \in Nat \ {0}
           /\ \A i \in 1 .. Len(s) - 1 : Front(s)[i] = s[i]
<1>1. Len(s) \in Nat \ {0} /\ \A i \in 1 .. Len(s) : s[i] \in S
    BY EmptySeq, LenProperties, ElementOfSeq
<1>2. 1 \in Int /\ Len(s) - 1 \in Int /\ \A i \in 1 .. Len(s) - 1 : s[i] \in S
    BY <1>1
<1> DEFINE n == Len(s) - 1
           f == SubSeq(s, 1, n)
<1>3. /\ f \in Seq(S)
      /\ Len(f) = IF 1 <= n THEN n - 1 + 1 ELSE 0
      /\ \A i \in 1 .. n - 1 + 1 : f[i] = s[1 + i - 1]
    BY <1>2, SubSeqProperties
<1>4. n \in Nat
    BY <1>1
<1> HIDE DEF n, f
<1>5. Len(f) = n
    BY <1>3, <1>4
<1>6. ASSUME NEW i \in 1 .. n PROVE f[i] = s[i]
    <2>1. i \in 1 .. n - 1 + 1 /\ 1 + i - 1 = i
        BY <1>4
    <2> QED BY <2>1, <1>3
<1> QED BY <1>1, <1>3, <1>5, <1>6 DEF Front, n, f

LEMMA HandleType ==
    ASSUME NEW a \in AGVs, NEW i \in 1 .. NChans, NEW c \in 1 .. MaxCalls
    PROVE  /\ [filter |-> <<a, i>>, call |-> c] \in Handles
           /\ ConnHandle(c) \in Handles /\ ConnHandle(c) # None
           /\ <<a, i>> # ConnFilter
BY ConstantsAssumption DEF Handles, Filters, ConnHandle, ConnFilter

-----------------------------------------------------------------------------
LEMMA BaseInit == Init => Base
<1> SUFFICES ASSUME Init PROVE Base
    OBVIOUS
<1>1. CallsOK
    BY IdleOK DEF Init, CallsOK
<1>2. TypeOK
    <2>1. th \in [Procs -> Threads]
        BY IdleOK DEF Init, CallOK
    <2>2. /\ connUnsub \in Handles \cup {None} /\ tracked \subseteq AGVs
          /\ unsubs \in [AGVs -> Seq(Handles)] /\ subs \subseteq Handles
          /\ hooks \in [AGVs -> Int]
          /\ want \in [AGVs -> {"none", "track", "untrack"}]
        BY EmptySeq DEF Init
    <2>3. calls \in 0 .. MaxCalls /\ reconnects \in 0 .. MaxReconnects
            /\ due \in 0 .. MaxReconnects
        BY Bounds DEF Init
    <2> QED BY <2>1, <2>2, <2>3 DEF Init, TypeOK
<1>3. EntriesOK
    BY DEF Init, EntriesOK
<1> QED BY <1>1, <1>2, <1>3 DEF Base, Init

-----------------------------------------------------------------------------
(***************************************************************************)
(* Every step keeps the base: one lemma for a step of a goroutine, one for *)
(* each step of the client.                                                *)
(***************************************************************************)
LEMMA CallFacts ==
    ASSUME Base, NEW p \in Procs
    PROVE  /\ TypeOK /\ CallsOK /\ EntriesOK /\ CallOK(th[p])
           /\ th[p] \in Threads /\ PlaceOK(th[p]) /\ GotOK(th[p])
           /\ th[p].got \in Seq(Handles) /\ th[p].todo \subseteq AGVs
           /\ th[p].call \in 0 .. MaxCalls
           /\ th[p].pc # "idle" => th[p].call \in 1 .. MaxCalls
BY DEF Base, CallsOK, CallOK, Threads

LEMMA Kept ==
    ASSUME Base, th' \in [Procs -> Threads], CallsOK', EntriesOK',
           up' \in BOOLEAN, cstarted' \in BOOLEAN, fstarted' \in BOOLEAN,
           connUnsub' \in Handles \cup {None}, tracked' \subseteq AGVs,
           unsubs' \in [AGVs -> Seq(Handles)], subs' \subseteq Handles,
           calls' \in 0 .. MaxCalls, reconnects' \in 0 .. MaxReconnects,
           due' \in 0 .. MaxReconnects, due' <= reconnects',
           hooks' \in [AGVs -> Int],
           want' \in [AGVs -> {"none", "track", "untrack"}],
           restoreOK' \in BOOLEAN
    PROVE  Base'
BY DEF Base, TypeOK

\* Steps that leave the session itself alone.
LEMMA KeptFleet ==
    ASSUME Base, th' \in [Procs -> Threads], CallsOK',
           UNCHANGED <<cstarted, fleetVars, calls, reconnects, due>>,
           up' \in BOOLEAN, subs' \subseteq Handles, hooks' \in [AGVs -> Int],
           want' \in [AGVs -> {"none", "track", "untrack"}],
           restoreOK' \in BOOLEAN
    PROVE  Base'
<1>1. EntriesOK'
    BY DEF Base, EntriesOK, fleetVars
<1> QED BY <1>1, Kept DEF Base, TypeOK, fleetVars

LEMMA CheckBase == ASSUME Base, NEW p \in Procs, Check(p) PROVE Base'
<1> USE CallFacts
<1>1. CASE th[p].agv \in tracked
    <2>1. th[p].got = << >> /\ th[p].pc # "idle" /\ Return(p, th[p])
        BY <1>1 DEF Check, GotOK, Holding
    <2> QED BY <2>1, ReturnOK, KeptFleet DEF Check, Base, TypeOK
<1>2. CASE th[p].agv \notin tracked
    <2> DEFINE u == [th[p] EXCEPT !.pc = IF NChans = 0 THEN "insert" ELSE "sub"]
    <2>1. /\ u \in Threads /\ u.pc = (IF NChans = 0 THEN "insert" ELSE "sub")
          /\ u.op = th[p].op /\ u.agv = th[p].agv /\ u.got = th[p].got
          /\ u.call = th[p].call
        BY DEF Threads
    <2>2. th[p].pc = "check" /\ th[p].got = << >>
        BY DEF Check, GotOK, Holding
    <2>3. CallOK(u)
        <3>1. PlaceOK(u)
            BY <2>1, <2>2 DEF PlaceOK, Tracking, Removing
        <3>2. GotOK(u)
            BY <2>1, <2>2, Bounds, EmptySeq DEF GotOK, Holding, Tracking, Removing
        <3> QED BY <3>1, <3>2, <2>1, <2>2 DEF CallOK
    <2>4. th' = [th EXCEPT ![p] = u]
        BY <1>2 DEF Check
    <2> HIDE DEF u
    <2> QED BY <1>2, <2>3, <2>4, Moved, KeptFleet DEF Check, Base, TypeOK
<1> QED BY <1>1, <1>2

LEMMA SubscribeBase == ASSUME Base, NEW p \in Procs, Subscribe(p) PROVE Base'
<1> DEFINE t == th[p]
           h == [filter |-> NextFilter(t), call |-> t.call]
<1>1. /\ t \in Threads /\ t.pc = "sub" /\ t.agv \in AGVs /\ t.got \in Seq(Handles)
      /\ Len(t.got) < NChans /\ t.call \in 1 .. MaxCalls /\ PlaceOK(t)
      /\ \A i \in 1 .. Len(t.got) : t.got[i].filter = <<t.agv, i>>
    BY CallFacts DEF Subscribe, GotOK, Tracking
<1>2. /\ Len(t.got) \in Nat /\ Len(t.got) + 1 \in 1 .. NChans
    BY <1>1, Bounds, LenProperties
<1>3. h \in Handles /\ h.filter = <<t.agv, Len(t.got) + 1>>
    BY <1>1, <1>2, HandleType DEF NextFilter
<1>4. subs' \subseteq Handles
    BY <1>3 DEF Subscribe, SubscribeOK, SubscribeFails, Base, TypeOK
<1>5. ASSUME th' = [th EXCEPT ![p].got = Append(@, h),
                              ![p].pc = IF Len(t.got) + 1 = NChans
                                        THEN "insert" ELSE "sub"]
      PROVE  th' \in [Procs -> Threads] /\ CallsOK'
    <2> DEFINE x == IF Len(t.got) + 1 = NChans THEN "insert" ELSE "sub"
               g == Append(t.got, h)
               u == [t EXCEPT !.got = g, !.pc = x]
    <2>1. /\ g \in Seq(Handles) /\ Len(g) = Len(t.got) + 1
          /\ \A i \in 1 .. Len(t.got) : g[i] = t.got[i]
          /\ g[Len(t.got) + 1] = h
        BY <1>1, <1>3, AppendProperties
    <2>2. \A i \in 1 .. Len(g) : g[i].filter = <<t.agv, i>>
        BY <2>1, <1>1, <1>2, <1>3
    <2> HIDE DEF g
    <2>3. /\ u \in Threads /\ u.pc = x /\ u.op = t.op /\ u.agv = t.agv
          /\ u.got = g /\ u.call = t.call
        BY <1>1, <2>1 DEF Threads
    <2> HIDE DEF u
    <2>4. CallOK(u)
        BY <1>1, <1>2, <2>1, <2>2, <2>3, Bounds
           DEF CallOK, PlaceOK, GotOK, Holding, Tracking, Removing
    <2>5. th' = [th EXCEPT ![p] = u]
        BY <1>5 DEF u, g
    <2> QED BY <2>4, <2>5, CallFacts, Moved
<1>6. ASSUME th' = [th EXCEPT ![p] = AfterFailure(t)]
      PROVE  th' \in [Procs -> Threads] /\ CallsOK'
    <2> DEFINE u == AfterFailure(t)
    <2>1. /\ u \in Threads /\ u.pc = "rollback" /\ u.op = t.op /\ u.agv = t.agv
          /\ u.got = t.got /\ u.call = t.call
        BY <1>1 DEF Threads, AfterFailure
    <2> HIDE DEF u
    <2>2. CallOK(u)
        BY <1>1, <2>1 DEF CallOK, PlaceOK, GotOK, Holding, Tracking, Removing
    <2> QED BY <2>2, <1>6, CallFacts, Moved DEF u
<1>7. th' \in [Procs -> Threads] /\ CallsOK'
    BY <1>5, <1>6 DEF Subscribe
<1> QED BY <1>4, <1>7, KeptFleet DEF Subscribe, Base, TypeOK, ghosts

LEMMA InsertBase == ASSUME Base, NEW p \in Procs, Insert(p) PROVE Base'
<1> DEFINE t == th[p]
<1>1. /\ t \in Threads /\ t.pc = "insert" /\ t.agv \in AGVs /\ t.got \in Seq(Handles)
      /\ Len(t.got) = NChans /\ t.call \in 1 .. MaxCalls /\ PlaceOK(t)
      /\ \A i \in 1 .. Len(t.got) : t.got[i].filter = <<t.agv, i>>
    BY CallFacts DEF Insert, GotOK, Tracking
<1>2. CASE LostRace(t)
    <2> DEFINE u == [t EXCEPT !.pc = "rollback"]
    <2>1. CallOK(u)
        <3>1. u \in Threads /\ u.pc = "rollback" /\ u.op = t.op /\ u.agv = t.agv
                /\ u.got = t.got /\ u.call = t.call
            BY <1>1 DEF Threads
        <3> HIDE DEF u
        <3> QED BY <1>1, <3>1
                DEF CallOK, PlaceOK, GotOK, Holding, Tracking, Removing
    <2>2. th' = [th EXCEPT ![p] = u]
        BY <1>2 DEF Insert
    <2> HIDE DEF u
    <2> QED BY <1>2, <2>1, <2>2, CallFacts, Moved, KeptFleet
            DEF Insert, Base, TypeOK, fleetVars
<1>3. CASE ~LostRace(t)
    <2>1. tracked' = tracked \cup {t.agv} /\ unsubs' = [unsubs EXCEPT ![t.agv] = t.got]
          /\ UNCHANGED <<fstarted, connUnsub>>
        BY <1>3 DEF Insert
    <2>2. EntriesOK' /\ tracked' \subseteq AGVs /\ unsubs' \in [AGVs -> Seq(Handles)]
        BY <1>1, <2>1 DEF Base, EntriesOK, TypeOK
    <2>3. /\ th' \in [Procs -> Threads] /\ CallsOK'
          /\ want' \in [AGVs -> {"none", "track", "untrack"}]
          /\ restoreOK' \in BOOLEAN
        <3>1. CASE Notifies(t)
            <4> DEFINE u == [t EXCEPT !.pc = "online", !.got = << >>]
            <4>1. /\ u \in Threads /\ u.pc = "online" /\ u.op = t.op
                  /\ u.agv = t.agv /\ u.got = << >> /\ u.call = t.call
                BY <1>1, EmptySeq DEF Threads
            <4> HIDE DEF u
            <4>2. CallOK(u)
                BY <1>1, <4>1, <3>1, EmptySeq
                   DEF CallOK, PlaceOK, GotOK, Holding, Tracking, Removing, Notifies
            <4>3. th' = [th EXCEPT ![p] = u] /\ UNCHANGED <<want, restoreOK>>
                BY <1>3, <3>1 DEF Insert, u
            <4> QED BY <4>2, <4>3, CallFacts, Moved DEF TypeOK
        <3>2. CASE ~Notifies(t)
            <4> DEFINE u == [t EXCEPT !.got = << >>]
            <4>1. /\ u \in Threads /\ u.call = t.call /\ u.got = << >>
                  /\ Return(p, u)
                BY <1>1, <1>3, <3>2, EmptySeq DEF Threads, Insert
            <4> HIDE DEF u
            <4> QED BY <1>1, <4>1, CallFacts, ReturnOK
        <3> QED BY <3>1, <3>2
    <2> QED BY <1>3, <2>1, <2>2, <2>3, Kept DEF Insert, Base, TypeOK
<1> QED BY <1>2, <1>3

\* u is where the call t goes next: at x, with the handles g.
Goes(u, t, x, g) ==
    /\ u \in Threads /\ u.pc = x /\ u.op = t.op /\ u.agv = t.agv
    /\ u.got = g /\ u.call = t.call

\* Cancelling one handle.
LEMMA CancelOneFacts ==
    ASSUME Base, NEW p \in Procs, CancelOne(p)
    PROVE  /\ subs' \subseteq subs /\ Front(th[p].got) \in Seq(Handles)
           /\ \A i \in 1 .. Len(Front(th[p].got)) :
                Front(th[p].got)[i].filter = <<th[p].agv, i>>
<1>1. th[p].got \in Seq(Handles) /\ th[p].got # << >>
    BY CallFacts DEF CancelOne
<1>2. /\ Front(th[p].got) \in Seq(Handles)
      /\ Len(Front(th[p].got)) = Len(th[p].got) - 1
      /\ Len(th[p].got) \in Nat \ {0}
      /\ \A i \in 1 .. Len(th[p].got) - 1 : Front(th[p].got)[i] = th[p].got[i]
    BY <1>1, FrontFacts
<1>3. subs' \subseteq subs
    BY CancelFacts DEF CancelOne
<1>4. \A i \in 1 .. Len(th[p].got) : th[p].got[i].filter = <<th[p].agv, i>>
    BY CallFacts DEF GotOK
<1> QED BY <1>2, <1>3, <1>4, SMTT(30)

LEMMA RollbackBase == ASSUME Base, NEW p \in Procs, Rollback(p) PROVE Base'
<1> DEFINE t == th[p]
           u == [t EXCEPT !.got = Front(@)]
<1>1. t \in Threads /\ t.pc = "rollback" /\ PlaceOK(t) /\ GotOK(t)
        /\ t.call \in 1 .. MaxCalls
    BY CallFacts DEF Rollback
<1>2. /\ Front(t.got) \in Seq(Handles)
      /\ \A i \in 1 .. Len(Front(t.got)) : Front(t.got)[i].filter = <<t.agv, i>>
    BY CancelOneFacts DEF Rollback
<1>3. th' = [th EXCEPT ![p] = u] /\ Goes(u, t, "rollback", Front(t.got))
    BY <1>1, <1>2 DEF Goes, Threads, Rollback
<1> HIDE DEF u
<1>4. CallOK(u)
    BY <1>1, <1>2, <1>3
       DEF Goes, CallOK, PlaceOK, GotOK, Holding, Tracking, Removing
<1> QED BY <1>3, <1>4, CallFacts, Moved, CancelOneFacts, KeptFleet
        DEF Rollback, CancelOne, Base, TypeOK, ghosts

LEMMA RollbackEndBase ==
    ASSUME Base, NEW p \in Procs, RollbackEnd(p) PROVE Base'
<1>1. th[p].call \in 1 .. MaxCalls /\ th[p].got = << >> /\ Return(p, th[p])
    BY CallFacts DEF RollbackEnd, AllCancelled
<1> QED BY <1>1, CallFacts, ReturnOK, KeptFleet DEF RollbackEnd, Base, TypeOK

LEMMA OnlineBase == ASSUME Base, NEW p \in Procs, Online(p) PROVE Base'
<1>1. th[p].call \in 1 .. MaxCalls /\ th[p].got = << >> /\ Return(p, th[p])
    BY CallFacts DEF Online, GotOK, Holding
<1>2. hooks' \in [AGVs -> Int]
    <2>1. th[p].agv \in AGVs /\ hooks[th[p].agv] \in Int
        BY CallFacts DEF Online, Base, TypeOK, GotOK, Removing
    <2> QED BY <2>1 DEF Online, Base, TypeOK
<1> QED BY <1>1, <1>2, CallFacts, ReturnOK, KeptFleet DEF Online, Base, TypeOK

LEMMA OfflineBase == ASSUME Base, NEW p \in Procs, Offline(p) PROVE Base'
<1>1. th[p].call \in 1 .. MaxCalls /\ th[p].got = << >> /\ Return(p, th[p])
    BY CallFacts DEF Offline, AllCancelled
<1>2. hooks' \in [AGVs -> Int]
    <2>1. th[p].agv \in AGVs /\ hooks[th[p].agv] \in Int
        BY CallFacts DEF Offline, Base, TypeOK, GotOK, Removing
    <2> QED BY <2>1 DEF Offline, Base, TypeOK
<1> QED BY <1>1, <1>2, CallFacts, ReturnOK, KeptFleet DEF Offline, Base, TypeOK

LEMMA RemoveBase == ASSUME Base, NEW p \in Procs, Remove(p) PROVE Base'
<1> DEFINE t == th[p]
<1>1. /\ t \in Threads /\ t.pc = "remove" /\ t.agv \in AGVs /\ t.got = << >>
      /\ t.call \in 1 .. MaxCalls /\ PlaceOK(t)
    BY CallFacts DEF Remove, GotOK, Removing, Holding
<1>2. CASE t.agv \in tracked
    <2> DEFINE g == unsubs[t.agv]
               u == [t EXCEPT !.pc = "unsub", !.got = g]
    <2>1. /\ g \in Seq(Handles) /\ Len(g) = NChans
          /\ \A i \in 1 .. NChans : g[i].filter = <<t.agv, i>>
        BY <1>1, <1>2 DEF Base, TypeOK, EntriesOK
    <2> HIDE DEF g
    <2>2. Goes(u, t, "unsub", g)
        BY <1>1, <2>1 DEF Goes, Threads
    <2> HIDE DEF u
    <2>3. CallOK(u)
        BY <1>1, <2>1, <2>2
           DEF Goes, CallOK, PlaceOK, GotOK, Holding, Tracking, Removing
    <2>4. th' = [th EXCEPT ![p] = u] /\ UNCHANGED <<want, restoreOK>>
          /\ tracked' = tracked \ {t.agv}
          /\ unsubs' = [unsubs EXCEPT ![t.agv] = << >>]
        BY <1>2 DEF Remove, u, g
    <2>5. EntriesOK' /\ tracked' \subseteq AGVs /\ unsubs' \in [AGVs -> Seq(Handles)]
        BY <1>1, <2>4, EmptySeq DEF Remove, Base, EntriesOK, TypeOK
    <2> QED BY <2>3, <2>4, <2>5, CallFacts, Moved, Kept DEF Remove, Base, TypeOK
<1>3. CASE t.agv \notin tracked
    <2>1. Return(p, t) /\ UNCHANGED fleetVars
        BY <1>3 DEF Remove, fleetVars
    <2> QED BY <1>1, <2>1, CallFacts, ReturnOK, KeptFleet DEF Remove, Base, TypeOK
<1> QED BY <1>2, <1>3

LEMMA UnsubscribeBase ==
    ASSUME Base, NEW p \in Procs, Unsubscribe(p) PROVE Base'
<1> DEFINE t == th[p]
<1>1. PICK failed \in BOOLEAN :
          th' = [th EXCEPT ![p].got = Front(@), ![p].failed = @ \/ failed]
    BY DEF Unsubscribe, UnsubscribeFails, Base, TypeOK
<1> DEFINE u == [t EXCEPT !.got = Front(@), !.failed = @ \/ failed]
<1>2. t \in Threads /\ t.pc = "unsub" /\ PlaceOK(t) /\ GotOK(t)
        /\ t.call \in 1 .. MaxCalls
    BY CallFacts DEF Unsubscribe
<1>3. Goes(u, t, "unsub", Front(t.got))
    <2>1. Front(t.got) \in Seq(Handles) /\ (t.failed \/ failed) \in BOOLEAN
        BY <1>2, CancelOneFacts DEF Unsubscribe
    <2> QED BY <1>2, <2>1 DEF Goes, Threads
<1>4. th' = [th EXCEPT ![p] = u]
    BY <1>1
<1> HIDE DEF u
<1>5. CallOK(u)
    BY <1>2, <1>3, CancelOneFacts
       DEF Goes, Unsubscribe, CallOK, PlaceOK, GotOK, Holding, Tracking, Removing
<1> QED BY <1>4, <1>5, CallFacts, Moved, CancelOneFacts, KeptFleet
        DEF Unsubscribe, CancelOne, Base, TypeOK, ghosts

LEMMA StopSnapshotBase ==
    ASSUME Base, NEW p \in Procs, StopSnapshot(p) PROVE Base'
<1> DEFINE t == th[p]
           u == [t EXCEPT !.pc = "stopNext", !.todo = tracked]
<1>1. /\ t \in Threads /\ t.pc = "stop" /\ PlaceOK(t) /\ t.got = << >>
      /\ t.call \in 1 .. MaxCalls /\ tracked \subseteq AGVs
    BY CallFacts DEF StopSnapshot, GotOK, Holding, Base, TypeOK
<1>2. th' = [th EXCEPT ![p] = u] /\ Goes(u, t, "stopNext", << >>)
    BY <1>1 DEF Goes, Threads, StopSnapshot
<1> HIDE DEF u
<1>3. CallOK(u)
    BY <1>1, <1>2, EmptySeq
       DEF Goes, CallOK, PlaceOK, GotOK, Holding, Tracking, Removing
<1> QED BY <1>2, <1>3, CallFacts, Moved, KeptFleet
        DEF StopSnapshot, Base, TypeOK, ghosts

LEMMA StopNextBase ==
    ASSUME Base, NEW p \in Procs, NEW a \in AGVs, StopNext(p, a) PROVE Base'
<1> DEFINE t == th[p]
           u == [t EXCEPT !.pc = "remove", !.agv = a, !.todo = @ \ {a}]
<1>1. /\ t \in Threads /\ t.pc = "stopNext" /\ t.op = "stop" /\ t.got = << >>
      /\ t.call \in 1 .. MaxCalls /\ t.todo \subseteq AGVs
    BY CallFacts DEF StopNext, GotOK, Holding, PlaceOK
<1>2. /\ th' = [th EXCEPT ![p] = u]
      /\ u \in Threads /\ u.pc = "remove" /\ u.op = "stop" /\ u.agv = a
      /\ u.got = << >> /\ u.call = t.call
    BY <1>1 DEF Threads, StopNext
<1> HIDE DEF u
<1>3. CallOK(u)
    BY <1>1, <1>2, EmptySeq DEF CallOK, PlaceOK, GotOK, Holding, Tracking, Removing
<1> QED BY <1>2, <1>3, CallFacts, Moved, KeptFleet
        DEF StopNext, Base, TypeOK, ghosts

LEMMA RestoreNextBase ==
    ASSUME Base, NEW p \in Procs, NEW a \in AGVs, RestoreNext(p, a) PROVE Base'
<1> DEFINE t == th[p]
           u == [t EXCEPT !.pc = "check", !.agv = a, !.todo = @ \ {a}]
<1>1. /\ t \in Threads /\ t.pc = "restoreNext" /\ t.op = "restore"
      /\ t.got = << >> /\ t.call \in 1 .. MaxCalls /\ t.todo \subseteq AGVs
    BY CallFacts DEF RestoreNext, GotOK, Holding, PlaceOK
<1>2. /\ th' = [th EXCEPT ![p] = u]
      /\ u \in Threads /\ u.pc = "check" /\ u.op = "restore" /\ u.agv = a
      /\ u.got = << >> /\ u.call = t.call
    BY <1>1 DEF Threads, RestoreNext
<1> HIDE DEF u
<1>3. CallOK(u)
    BY <1>1, <1>2, EmptySeq DEF CallOK, PlaceOK, GotOK, Holding, Tracking, Removing
<1> QED BY <1>2, <1>3, CallFacts, Moved, KeptFleet
        DEF RestoreNext, Base, TypeOK, ghosts

LEMMA StopEndBase == ASSUME Base, NEW p \in Procs, StopEnd(p) PROVE Base'
<1> DEFINE t == th[p]
           u == [t EXCEPT !.pc = "disconnect"]
<1>1. /\ t \in Threads /\ t.pc = "stopNext" /\ t.op = "stop" /\ t.got = << >>
      /\ t.call \in 1 .. MaxCalls
    BY CallFacts DEF StopEnd, GotOK, Holding, PlaceOK
<1>2. th' = [th EXCEPT ![p] = u] /\ Goes(u, t, "disconnect", << >>)
    BY <1>1 DEF Threads, StopEnd, Goes
<1> HIDE DEF u
<1>3. CallOK(u)
    BY <1>1, <1>2, EmptySeq
       DEF Goes, CallOK, PlaceOK, GotOK, Holding, Tracking, Removing
<1>4. EntriesOK' /\ subs' \subseteq Handles
    BY CancelFacts DEF StopEnd, Base, EntriesOK, TypeOK
<1>5. connUnsub' \in Handles \cup {None} /\ fstarted' \in BOOLEAN
    BY DEF StopEnd
<1> QED BY <1>2, <1>3, <1>4, <1>5, CallFacts, Moved, Kept
        DEF StopEnd, Base, TypeOK, ghosts

LEMMA DisconnectBase == ASSUME Base, NEW p \in Procs, Disconnect(p) PROVE Base'
<1>1. th' \in [Procs -> Threads] /\ CallsOK'
    BY IdleOK, CallFacts, Moved DEF Disconnect
<1> QED BY <1>1, KeptFleet DEF Disconnect, Base, TypeOK

LEMMA RestoreSnapshotBase ==
    ASSUME Base, NEW p \in Procs, RestoreSnapshot(p) PROVE Base'
<1> DEFINE t == th[p]
<1>1. /\ t \in Threads /\ t.pc = "snapshot" /\ t.op = "restore" /\ t.got = << >>
      /\ t.call \in 1 .. MaxCalls /\ tracked \subseteq AGVs
    BY CallFacts DEF RestoreSnapshot, GotOK, Holding, PlaceOK, Base, TypeOK
<1>2. CASE ~fstarted /\ tracked = {}
    <2> DEFINE u == [t EXCEPT !.pc = "restoreNext"]
    <2>1. th' = [th EXCEPT ![p] = u] /\ Goes(u, t, "restoreNext", << >>)
        BY <1>1, <1>2 DEF Threads, RestoreSnapshot, Goes
    <2> HIDE DEF u
    <2>2. CallOK(u)
        BY <1>1, <2>1, EmptySeq
           DEF Goes, CallOK, PlaceOK, GotOK, Holding, Tracking, Removing
    <2> QED BY <1>2, <2>1, <2>2, CallFacts, Moved, KeptFleet
            DEF RestoreSnapshot, Base, TypeOK, ghosts
<1>3. CASE ~(~fstarted /\ tracked = {})
    <2> DEFINE u == [t EXCEPT !.pc = "start", !.todo = tracked]
    <2>1. th' = [th EXCEPT ![p] = u] /\ Goes(u, t, "start", << >>)
        BY <1>1, <1>3 DEF Threads, RestoreSnapshot, Goes
    <2> HIDE DEF u
    <2>2. CallOK(u)
        BY <1>1, <2>1, EmptySeq
           DEF Goes, CallOK, PlaceOK, GotOK, Holding, Tracking, Removing
    <2>3. /\ tracked' = {} /\ unsubs' = [a \in AGVs |-> << >>]
          /\ connUnsub' = None /\ fstarted' = FALSE
          /\ subs' \subseteq subs
        <3>1. AfterSnapshot.tracked = {} /\ AfterSnapshot.started = FALSE
            BY DEF AfterSnapshot
        <3>2. \E H : subs' = Cancel(subs, H)
            BY <1>3 DEF RestoreSnapshot
        <3>3. subs' \subseteq subs
            BY <3>2, CancelFacts
        <3>4. /\ tracked' = AfterSnapshot.tracked
              /\ unsubs' = [a \in AGVs |-> << >>]
              /\ connUnsub' = None /\ fstarted' = AfterSnapshot.started
            BY <1>3 DEF RestoreSnapshot
        <3> QED BY <3>1, <3>3, <3>4
    <2>4. EntriesOK' /\ unsubs' \in [AGVs -> Seq(Handles)]
        BY <2>3, EmptySeq DEF EntriesOK
    <2> QED BY <2>1, <2>2, <2>3, <2>4, CallFacts, Moved, Kept
            DEF RestoreSnapshot, Base, TypeOK, ghosts
<1> QED BY <1>2, <1>3

LEMMA StartFleetFacts ==
    ASSUME Base, NEW c \in 1 .. MaxCalls, UNCHANGED <<tracked, unsubs>>,
           StartFleetOK(c) \/ StartFleetFails(c)
    PROVE  /\ EntriesOK' /\ fstarted' \in BOOLEAN
           /\ connUnsub' \in Handles \cup {None} /\ subs' \subseteq Handles
<1>1. /\ ConnHandle(c) \in Handles /\ ConnHandle(c) # None
      /\ ConnHandle(c).filter = ConnFilter
    BY ConstantsAssumption DEF Handles, Filters, ConnHandle
<1>2. EntriesOK'
    BY <1>1 DEF StartFleetOK, StartFleetFails, Base, EntriesOK
<1> QED BY <1>1, <1>2
        DEF StartFleetOK, StartFleetFails, SubscribeOK, SubscribeFails, Base, TypeOK

LEMMA RestoreStartBase ==
    ASSUME Base, NEW p \in Procs, RestoreStart(p) PROVE Base'
<1> DEFINE t == th[p]
           u == [t EXCEPT !.pc = "restoreNext"]
<1>1. /\ t \in Threads /\ t.pc = "start" /\ t.op = "restore" /\ t.got = << >>
      /\ t.call \in 1 .. MaxCalls
    BY CallFacts DEF RestoreStart, GotOK, Holding, PlaceOK
<1>2. CallOK(u)
    <2>1. Goes(u, t, "restoreNext", << >>)
        BY <1>1 DEF Threads, Goes
    <2> HIDE DEF u
    <2> QED BY <1>1, <2>1, EmptySeq
            DEF Goes, CallOK, PlaceOK, GotOK, Holding, Tracking, Removing
<1>3. th' = [th EXCEPT ![p] = u] \/ th' = [th EXCEPT ![p] = Idle]
    BY DEF RestoreStart
<1> HIDE DEF u
<1>4. th' \in [Procs -> Threads] /\ CallsOK'
    BY <1>2, <1>3, IdleOK, CallFacts, Moved
<1>5. /\ EntriesOK' /\ fstarted' \in BOOLEAN
      /\ connUnsub' \in Handles \cup {None} /\ subs' \subseteq Handles
    BY <1>1, StartFleetFacts DEF RestoreStart
<1> QED BY <1>4, <1>5, Kept DEF RestoreStart, Base, TypeOK

LEMMA RestoreEndBase == ASSUME Base, NEW p \in Procs, RestoreEnd(p) PROVE Base'
<1>1. th[p].call \in 1 .. MaxCalls
    BY CallFacts DEF RestoreEnd
<1>2. th' \in [Procs -> Threads] /\ CallsOK'
    BY IdleOK, CallFacts, Moved DEF RestoreEnd
<1>3. /\ EntriesOK' /\ fstarted' \in BOOLEAN
      /\ connUnsub' \in Handles \cup {None} /\ subs' \subseteq Handles
    BY <1>1, StartFleetFacts DEF RestoreEnd, Base, TypeOK, EntriesOK
<1>4. restoreOK' \in BOOLEAN
    BY DEF RestoreEnd, Base, TypeOK
<1> QED BY <1>2, <1>3, <1>4, Kept DEF RestoreEnd, Base, TypeOK

LEMMA StepBase == ASSUME Base, NEW p \in Procs, Step(p) PROVE Base'
BY CheckBase, SubscribeBase, InsertBase, RollbackBase, RollbackEndBase,
   OnlineBase, RemoveBase, UnsubscribeBase, OfflineBase, StopSnapshotBase,
   StopEndBase, DisconnectBase, RestoreSnapshotBase, RestoreStartBase,
   RestoreEndBase, StopNextBase, RestoreNextBase
   DEF Step

\* A call begins.
LEMMA BeginBase ==
    ASSUME Base, NEW p \in Procs, NEW t, Begin(p, t),
           CallOK([t EXCEPT !.call = calls + 1]),
           UNCHANGED <<up, fleetVars, subs, reconnects, ghosts>>,
           cstarted' \in BOOLEAN, due' \in 0 .. MaxReconnects, due' <= reconnects
    PROVE  Base'
<1>1. th' \in [Procs -> Threads] /\ CallsOK'
    BY Moved, CallFacts DEF Begin
<1>2. calls' \in 0 .. MaxCalls
    BY Bounds DEF Begin, Base, TypeOK
<1>3. EntriesOK'
    BY DEF Base, EntriesOK, fleetVars
<1> QED BY <1>1, <1>2, <1>3, Kept DEF Base, TypeOK, fleetVars, ghosts

\* A call of Track or Untrack, Stop or Restore begins with a good record.
LEMMA NewCall ==
    ASSUME NEW t, NEW c \in 1 .. MaxCalls, t \in Threads, t.got = << >>,
           \/ t.op = "track" /\ t.pc = "check" /\ t.agv \in AGVs
           \/ t.op = "untrack" /\ t.pc = "remove" /\ t.agv \in AGVs
           \/ t.op = "stop" /\ t.pc = "stop"
           \/ t.op = "restore" /\ t.pc = "snapshot"
    PROVE  CallOK([t EXCEPT !.call = c])
<1> DEFINE u == [t EXCEPT !.call = c]
<1>1. /\ u \in Threads /\ u.pc = t.pc /\ u.op = t.op /\ u.agv = t.agv
      /\ u.got = << >> /\ u.call = c
    BY Bounds DEF Threads
<1> HIDE DEF u
<1>2. CallOK(u)
    BY <1>1, EmptySeq DEF CallOK, PlaceOK, GotOK, Holding, Tracking, Removing
<1> QED BY <1>2 DEF u

LEMMA NextCall == Base /\ calls < MaxCalls => calls + 1 \in 1 .. MaxCalls
BY Bounds DEF Base, TypeOK

LEMMA CallBase ==
    ASSUME Base, NEW p \in Procs, NEW o, NEW a \in AGVs, Call(p, o, a)
    PROVE  Base'
<1> DEFINE t == [Idle EXCEPT !.op = o, !.agv = a,
                             !.pc = IF o = "track" THEN "check" ELSE "remove"]
<1>1. calls + 1 \in 1 .. MaxCalls /\ o \in {"track", "untrack"} /\ Begin(p, t)
    BY NextCall DEF Call, Begin
<1>2. /\ t \in Threads /\ t.got = << >> /\ t.op = o /\ t.agv = a
      /\ t.pc = IF o = "track" THEN "check" ELSE "remove"
    BY <1>1, IdleType DEF Threads
<1> HIDE DEF t
<1>3. CallOK([t EXCEPT !.call = calls + 1])
    BY <1>1, <1>2, NewCall
<1> QED BY <1>1, <1>3, BeginBase DEF Call, Base, TypeOK

LEMMA CallStopBase == ASSUME Base, NEW p \in Procs, CallStop(p) PROVE Base'
<1> DEFINE t == [Idle EXCEPT !.op = "stop", !.pc = "stop"]
<1>1. calls + 1 \in 1 .. MaxCalls /\ Begin(p, t)
    BY NextCall DEF CallStop, Begin
<1>2. t \in Threads /\ t.got = << >> /\ t.op = "stop" /\ t.pc = "stop"
    BY IdleType DEF Threads
<1> HIDE DEF t
<1>3. CallOK([t EXCEPT !.call = calls + 1])
    BY <1>1, <1>2, NewCall
<1> QED BY <1>1, <1>3, BeginBase DEF CallStop, Base, TypeOK

LEMMA HandleReconnectBase ==
    ASSUME Base, NEW p \in Procs, HandleReconnect(p) PROVE Base'
<1>1. due' \in 0 .. MaxReconnects /\ due' <= reconnects
    BY Bounds DEF HandleReconnect, Base, TypeOK
<1>2. CASE cstarted
    <2> DEFINE t == [Idle EXCEPT !.op = "restore", !.pc = "snapshot"]
    <2>1. calls + 1 \in 1 .. MaxCalls /\ Begin(p, t)
        BY <1>2, NextCall DEF HandleReconnect, Begin
    <2>2. t \in Threads /\ t.got = << >> /\ t.op = "restore" /\ t.pc = "snapshot"
        BY IdleType DEF Threads
    <2> HIDE DEF t
    <2>3. CallOK([t EXCEPT !.call = calls + 1])
        BY <2>1, <2>2, NewCall
    <2> QED BY <1>1, <2>1, <2>3, BeginBase DEF HandleReconnect, Base, TypeOK
<1>3. CASE ~cstarted
    <2>1. UNCHANGED <<th, calls>>
        BY <1>3 DEF HandleReconnect
    <2>2. CallsOK' /\ EntriesOK'
        BY <2>1 DEF HandleReconnect, Base, CallsOK, EntriesOK, fleetVars
    <2> QED BY <1>1, <2>1, <2>2, Kept
            DEF HandleReconnect, Base, TypeOK, fleetVars, ghosts
<1> QED BY <1>2, <1>3

LEMMA StartBase == ASSUME Base, Start \/ StartFails PROVE Base'
<1>1. calls + 1 \in 1 .. MaxCalls /\ calls' \in 0 .. MaxCalls
    BY Bounds DEF Start, StartFails, Base, TypeOK
<1>2. /\ ConnHandle(calls + 1) \in Handles /\ ConnHandle(calls + 1) # None
      /\ ConnHandle(calls + 1).filter = ConnFilter
    BY <1>1, ConstantsAssumption DEF Handles, Filters, ConnHandle
<1>3. CallsOK' /\ EntriesOK'
    BY <1>2 DEF Start, StartFails, Base, CallsOK, EntriesOK
<1>4. /\ up' \in BOOLEAN /\ cstarted' \in BOOLEAN /\ fstarted' \in BOOLEAN
      /\ connUnsub' \in Handles \cup {None} /\ subs' \subseteq Handles
    BY <1>2 DEF Start, StartFails, Base, TypeOK
<1> QED BY <1>1, <1>3, <1>4, Kept DEF Start, StartFails, Base, TypeOK, ghosts

LEMMA ReconnectBase == ASSUME Base, Reconnect PROVE Base'
<1>1. reconnects' \in 0 .. MaxReconnects
    BY Bounds DEF Reconnect, Base, TypeOK
<1>2. due' \in 0 .. MaxReconnects /\ due' <= reconnects'
    BY Bounds DEF Reconnect, Base, TypeOK
<1>3. CallsOK' /\ EntriesOK'
    BY DEF Reconnect, Base, CallsOK, EntriesOK, fleetVars
<1> QED BY <1>1, <1>2, <1>3, Kept DEF Reconnect, Base, TypeOK, fleetVars, ghosts

LEMMA BaseNext == Base /\ [Next]_vars => Base'
<1> SUFFICES ASSUME Base, [Next]_vars PROVE Base'
    OBVIOUS
<1>1. CASE UNCHANGED vars
    <2>1. CallsOK' /\ EntriesOK'
        BY <1>1 DEF vars, fleetVars, Base, CallsOK, EntriesOK
    <2> QED BY <1>1, <2>1, Kept DEF vars, fleetVars, ghosts, Base, TypeOK
<1>2. CASE Next
    BY <1>2, StepBase, CallStopBase, HandleReconnectBase, CallBase, StartBase,
       ReconnectBase DEF Next
<1> QED BY <1>1, <1>2

\* Client.Track, Untrack, Start, Stop and the reconnect callback keep the
\* session and its calls well formed, however they interleave and fail: every
\* handle in an entry or held by a call is for its own channel of its AGV, an
\* entry holds all of them, and the session is started exactly while it holds
\* a handle of the connection wildcard.
THEOREM SessionCorrect == Spec => []Base
<1>1. Init => Base
    BY BaseInit
<1>2. Base /\ [Next]_vars => Base'
    BY BaseNext
<1> QED BY <1>1, <1>2, PTL DEF Spec

-----------------------------------------------------------------------------
(***************************************************************************)
(* No subscription leaks, when a call that fails has done nothing.         *)
(***************************************************************************)
LEMMA ElemsEmpty == Elems(<< >>) = {}
BY EmptySeq DEF Elems

LEMMA ElemsAppend ==
    ASSUME NEW S, NEW s \in Seq(S), NEW h \in S
    PROVE  Elems(Append(s, h)) = Elems(s) \cup {h}
<1>1. /\ Len(s) \in Nat /\ Len(Append(s, h)) = Len(s) + 1
      /\ \A i \in 1 .. Len(s) : Append(s, h)[i] = s[i]
      /\ Append(s, h)[Len(s) + 1] = h
    BY AppendProperties, LenProperties
<1> QED BY <1>1 DEF Elems

LEMMA ElemsFront ==
    ASSUME NEW S, NEW s \in Seq(S), s # << >>
    PROVE  Elems(s) = Elems(Front(s)) \cup {s[Len(s)]}
<1>1. /\ Len(s) \in Nat \ {0} /\ Len(Front(s)) = Len(s) - 1
      /\ \A i \in 1 .. Len(s) - 1 : Front(s)[i] = s[i]
    BY FrontFacts
<1> QED BY <1>1 DEF Elems

\* What a subscription may belong to: an entry, or a call.
InEntries(h) == h = connUnsub \/ \E a \in tracked : h \in Elems(unsubs[a])
InCalls(h)   == \E p \in Procs : h \in Elems(th[p].got)

\* Steps that keep what the session and the other calls hold.
LEMMA StillHeld ==
    ASSUME NoLeakedSubscription, NEW p \in Procs,
           \A q \in Procs \ {p} : th'[q] = th[q],
           \A h \in subs' : h \in subs \/ InEntries(h)' \/ InCalls(h)',
           \A h \in subs' : InEntries(h) => InEntries(h)' \/ InCalls(h)',
           \A h \in subs' : h \in Elems(th[p].got) => InEntries(h)' \/ InCalls(h)'
    PROVE  NoLeakedSubscription'
<1> SUFFICES ASSUME NEW h \in subs' PROVE InEntries(h)' \/ InCalls(h)'
    BY DEF NoLeakedSubscription, InEntries, InCalls
<1>1. CASE h \notin subs
    BY <1>1
<1>2. CASE h \in subs
    <2>1. InEntries(h) \/ InCalls(h)
        BY <1>2 DEF NoLeakedSubscription, InEntries, InCalls
    <2>2. CASE InEntries(h)
        BY <2>2
    <2>3. CASE \E q \in Procs \ {p} : h \in Elems(th[q].got)
        BY <2>3 DEF InCalls
    <2>4. CASE h \in Elems(th[p].got)
        BY <2>4
    <2> QED BY <2>1, <2>2, <2>3, <2>4 DEF InCalls
<1> QED BY <1>1, <1>2

\* The session stays as it is and no call gives up a handle.
LEMMA NothingGivenUp ==
    ASSUME NoLeakedSubscription, NEW p \in Procs, th \in [Procs -> Threads],
           th' \in [Procs -> Threads], \A q \in Procs \ {p} : th'[q] = th[q],
           UNCHANGED <<connUnsub, tracked, unsubs>>, subs' \subseteq subs,
           Elems(th[p].got) \subseteq Elems(th'[p].got)
    PROVE  NoLeakedSubscription'
BY StillHeld DEF InEntries, InCalls

LEMMA Others ==
    ASSUME th \in [Procs -> Threads], NEW p \in Procs, NEW u,
           th' = [th EXCEPT ![p] = u]
    PROVE  th'[p] = u /\ \A q \in Procs \ {p} : th'[q] = th[q]
OBVIOUS

\* A call that returns held nothing.
LEMMA ReturnKeeps ==
    ASSUME Base, Base', NoLeakedSubscription, NEW p \in Procs, NEW t, Return(p, t),
           th[p].got = << >>,
           UNCHANGED <<connUnsub, tracked, unsubs>>, subs' \subseteq subs
    PROVE  NoLeakedSubscription'
<1>1. th'[p] = Returned(t) /\ \A q \in Procs \ {p} : th'[q] = th[q]
    BY Others DEF Return, Base, TypeOK
<1> QED BY <1>1, ElemsEmpty, NothingGivenUp DEF Base, TypeOK

LEMMA SubscribeKeeps ==
    ASSUME Base, Base', Faults \subseteq {"reject"}, NoLeakedSubscription,
           NEW p \in Procs, Subscribe(p)
    PROVE  NoLeakedSubscription'
<1> DEFINE t == th[p]
           h == [filter |-> NextFilter(t), call |-> t.call]
<1>1. /\ t \in Threads /\ t.pc = "sub" /\ t.agv \in AGVs /\ t.got \in Seq(Handles)
      /\ Len(t.got) < NChans /\ t.call \in 1 .. MaxCalls
    BY CallFacts DEF Subscribe, GotOK, Tracking
<1>2. CASE SubscribeOK(h) /\
           th' = [th EXCEPT ![p].got = Append(@, h),
                            ![p].pc = IF Len(t.got) + 1 = NChans
                                      THEN "insert" ELSE "sub"]
    <2>1. /\ th'[p].got = Append(t.got, h)
          /\ \A q \in Procs \ {p} : th'[q] = th[q]
        <3> DEFINE g == Append(t.got, h)
                   x == IF Len(t.got) + 1 = NChans THEN "insert" ELSE "sub"
                   u == [t EXCEPT !.got = g, !.pc = x]
        <3>1. th' = [th EXCEPT ![p] = u]
            BY <1>2
        <3> HIDE DEF g, x
        <3>2. u.got = g
            BY <1>1 DEF Threads
        <3> HIDE DEF u
        <3> QED BY <3>1, <3>2, CallFacts, Others DEF g, Base, TypeOK
    <2>2. h \in Handles
        <3>1. Len(t.got) + 1 \in 1 .. NChans
            BY <1>1, Bounds, LenProperties
        <3> QED BY <1>1, <3>1, HandleType DEF NextFilter
    <2>3. Elems(th'[p].got) = Elems(t.got) \cup {h}
        BY <1>1, <2>1, <2>2, ElemsAppend
    <2> HIDE DEF h
    <2> QED BY <1>2, <2>1, <2>3, StillHeld
            DEF InEntries, InCalls, SubscribeOK, Subscribe, fleetVars
<1>3. CASE SubscribeFails(h) /\ th' = [th EXCEPT ![p] = AfterFailure(t)]
    <2>1. subs' = subs
        BY <1>3 DEF SubscribeFails
    <2>2. th'[p].got = t.got /\ \A q \in Procs \ {p} : th'[q] = th[q]
        BY <1>1, <1>3 DEF Base, TypeOK, Threads, AfterFailure
    <2> QED BY <2>1, <2>2, NothingGivenUp DEF Subscribe, fleetVars, Base, TypeOK
<1> QED BY <1>2, <1>3 DEF Subscribe

LEMMA CheckKeeps ==
    ASSUME Base, Base', NoLeakedSubscription, NEW p \in Procs, Check(p)
    PROVE  NoLeakedSubscription'
<1>1. th[p] \in Threads /\ th[p].got = << >>
    BY CallFacts DEF Check, GotOK, Holding
<1>2. CASE Return(p, th[p])
    BY <1>1, <1>2, ReturnKeeps DEF Check, fleetVars
<1>3. CASE th' = [th EXCEPT ![p].pc = IF NChans = 0 THEN "insert" ELSE "sub"]
    <2>1. \A q \in Procs \ {p} : th'[q] = th[q]
        BY <1>3 DEF Base, TypeOK
    <2> QED BY <1>1, <2>1, ElemsEmpty, NothingGivenUp
            DEF Check, fleetVars, Base, TypeOK
<1> QED BY <1>2, <1>3 DEF Check

LEMMA InsertKeeps ==
    ASSUME Base, Base', NoLeakedSubscription, NEW p \in Procs, Insert(p)
    PROVE  NoLeakedSubscription'
<1> DEFINE t == th[p]
<1>1. t \in Threads /\ t.agv \in AGVs /\ \A q \in Procs \ {p} : th'[q] = th[q]
    BY CallFacts DEF Insert, GotOK, Tracking, Return, Base, TypeOK
<1>2. CASE LostRace(t)
    <2>1. th'[p].got = t.got
        BY <1>1, <1>2 DEF Insert, Base, TypeOK, Threads
    <2> QED BY <1>1, <1>2, <2>1, NothingGivenUp DEF Insert, Base, TypeOK
<1>3. CASE ~LostRace(t)
    <2>1. /\ tracked' = tracked \cup {t.agv} /\ t.agv \notin tracked
          /\ unsubs' = [unsubs EXCEPT ![t.agv] = t.got]
          /\ UNCHANGED <<connUnsub, subs>>
        BY <1>3 DEF Insert, LostRace
    <2>2. \A a \in tracked : a # t.agv /\ unsubs'[a] = unsubs[a]
        BY <2>1 DEF Base, TypeOK
    <2>3. unsubs'[t.agv] = t.got
        BY <1>1, <2>1 DEF Base, TypeOK
    <2> QED BY <1>1, <2>1, <2>2, <2>3, StillHeld DEF InEntries, InCalls
<1> QED BY <1>2, <1>3

LEMMA CancelOneKeeps ==
    ASSUME Base, Base', Faults \subseteq {"reject"}, NoLeakedSubscription,
           NEW p \in Procs, CancelOne(p), th'[p].got = Front(th[p].got),
           \A q \in Procs \ {p} : th'[q] = th[q]
    PROVE  NoLeakedSubscription'
<1> DEFINE g == th[p].got
           l == g[Len(g)]
<1>1. g \in Seq(Handles) /\ g # << >>
    BY CallFacts DEF CancelOne
<1>2. subs' = Cancel(subs, {l})
    BY CancelledFacts DEF CancelOne
<1>3. subs' \subseteq subs \ {l}
    BY <1>2, CancelFacts
<1>4. Elems(g) = Elems(Front(g)) \cup {l}
    BY <1>1, ElemsFront
<1> HIDE DEF l
<1>5. \A h \in subs' : h \in Elems(g) => InCalls(h)'
    BY <1>3, <1>4 DEF InCalls
<1> QED BY <1>3, <1>5, StillHeld DEF CancelOne, fleetVars, InEntries

LEMMA RollbackKeeps ==
    ASSUME Base, Base', Faults \subseteq {"reject"}, NoLeakedSubscription,
           NEW p \in Procs, Rollback(p) \/ Unsubscribe(p)
    PROVE  NoLeakedSubscription'
<1>1. CancelOne(p)
    BY DEF Rollback, Unsubscribe
<1>2. th'[p].got = Front(th[p].got) /\ \A q \in Procs \ {p} : th'[q] = th[q]
    BY CallFacts, SMTT(30) DEF Rollback, Unsubscribe, Base, TypeOK, Threads
<1> QED BY <1>1, <1>2, CancelOneKeeps

LEMMA RemoveKeeps ==
    ASSUME Base, Base', NoLeakedSubscription, NEW p \in Procs, Remove(p)
    PROVE  NoLeakedSubscription'
<1> DEFINE t == th[p]
<1>1. t \in Threads /\ t.agv \in AGVs /\ t.got = << >>
    BY CallFacts DEF Remove, GotOK, Removing, Holding
<1>2. CASE t.agv \in tracked
    <2>1. /\ tracked' = tracked \ {t.agv}
          /\ unsubs' = [unsubs EXCEPT ![t.agv] = << >>]
          /\ UNCHANGED <<connUnsub, subs>>
        BY <1>2 DEF Remove
    <2>2. th'[p].got = unsubs[t.agv] /\ \A q \in Procs \ {p} : th'[q] = th[q]
        BY <1>1, <1>2 DEF Remove, Base, TypeOK, Threads
    <2>3. \A a \in tracked \ {t.agv} : unsubs'[a] = unsubs[a]
        BY <2>1, SMTT(30) DEF Base, TypeOK
    <2> QED BY <1>1, <2>1, <2>2, <2>3, ElemsEmpty, StillHeld
            DEF InEntries, InCalls
<1>3. CASE t.agv \notin tracked
    BY <1>1, <1>3, ReturnKeeps DEF Remove
<1> QED BY <1>2, <1>3

\* The loops of Stop and Restore, and the rest of Stop.
LEMMA StopKeeps ==
    ASSUME Base, Base', Faults \subseteq {"reject"}, NoLeakedSubscription,
           NEW p \in Procs,
           \/ StopSnapshot(p) \/ StopEnd(p) \/ Disconnect(p)
           \/ \E a \in AGVs : StopNext(p, a) \/ RestoreNext(p, a)
    PROVE  NoLeakedSubscription'
<1>1. th[p] \in Threads /\ th[p].got = << >>
    BY CallFacts DEF StopSnapshot, StopEnd, Disconnect, StopNext, RestoreNext,
       GotOK, Holding
<1>2. \A q \in Procs \ {p} : th'[q] = th[q]
    BY DEF StopSnapshot, StopEnd, Disconnect, StopNext, RestoreNext, Base, TypeOK
<1>3. CASE Disconnect(p)
    BY <1>3 DEF Disconnect, NoLeakedSubscription
<1>4. CASE StopEnd(p)
    <2>1. subs' = Cancel(subs, {connUnsub} \ {None})
        BY <1>4, CancelledFacts DEF StopEnd
    <2>2. subs' \subseteq subs /\ connUnsub \notin subs'
        BY <2>1, CancelFacts, ConstantsAssumption DEF Base, TypeOK
    <2> QED BY <1>1, <1>2, <1>4, <2>2, ElemsEmpty, StillHeld
            DEF StopEnd, InEntries, InCalls
<1>5. CASE \/ StopSnapshot(p)
           \/ \E a \in AGVs : StopNext(p, a) \/ RestoreNext(p, a)
    BY <1>1, <1>2, <1>5, ElemsEmpty, NothingGivenUp
       DEF StopSnapshot, StopNext, RestoreNext, fleetVars, Base, TypeOK
<1> QED BY <1>3, <1>4, <1>5, SMTT(30)

LEMMA RestoreSnapshotKeeps ==
    ASSUME Base, Base', Faults \subseteq {"reject"}, NoLeakedSubscription,
           NEW p \in Procs, RestoreSnapshot(p)
    PROVE  NoLeakedSubscription'
<1>1. th[p] \in Threads /\ th[p].got = << >>
    BY CallFacts DEF RestoreSnapshot, GotOK, Holding
<1>2. \A q \in Procs \ {p} : th'[q] = th[q]
    BY DEF RestoreSnapshot, Base, TypeOK
<1>3. CASE ~fstarted /\ tracked = {}
    BY <1>1, <1>2, <1>3, ElemsEmpty, NothingGivenUp
       DEF RestoreSnapshot, fleetVars, Base, TypeOK
<1>4. CASE ~(~fstarted /\ tracked = {})
    <2> DEFINE E == UNION {Elems(unsubs[a]) : a \in tracked}
               H == E \cup ({connUnsub} \ {None})
    <2>1. subs' = Cancel(subs, H)
        <3>1. \E K \in Cancelled(H) : subs' = Cancel(subs, K)
            BY <1>4 DEF RestoreSnapshot
        <3> HIDE DEF H, E
        <3> QED BY <3>1, CancelledFacts
    <2>2. subs' \subseteq subs /\ subs' \cap H = {}
        <3> HIDE DEF H
        <3> QED BY <2>1, CancelFacts
    <2>3. \A h \in subs' : h # None
        BY <2>2, ConstantsAssumption DEF Base, TypeOK
    <2>4. \A h \in subs' : ~InEntries(h)
        <3>1. \A h \in subs' : h # connUnsub
            <4> HIDE DEF E
            <4>1. connUnsub # None => connUnsub \in H
                OBVIOUS
            <4> HIDE DEF H
            <4> QED BY <2>2, <2>3, <4>1
        <3>2. \A h \in subs', a \in tracked : h \notin Elems(unsubs[a])
            BY <2>2
        <3> HIDE DEF H
        <3> QED BY <3>1, <3>2 DEF InEntries
    <2> QED BY <1>1, <1>2, <2>2, <2>4, ElemsEmpty, StillHeld
<1> QED BY <1>3, <1>4

LEMMA StartFleetKeeps ==
    ASSUME Base, Base', Faults \subseteq {"reject"}, NoLeakedSubscription,
           NEW p \in Procs, RestoreStart(p) \/ RestoreEnd(p)
    PROVE  NoLeakedSubscription'
<1>1. th[p] \in Threads /\ th[p].got = << >>
    BY CallFacts DEF RestoreStart, RestoreEnd, GotOK, Holding
<1>2. \A q \in Procs \ {p} : th'[q] = th[q]
    BY DEF RestoreStart, RestoreEnd, Base, TypeOK
<1>3. UNCHANGED <<tracked, unsubs>>
    BY DEF RestoreStart, RestoreEnd
<1>4. \/ subs' = subs /\ UNCHANGED connUnsub
      \/ ~fstarted /\ \E h : subs' = subs \cup {h} /\ connUnsub' = h
    BY DEF RestoreStart, RestoreEnd, StartFleetOK, StartFleetFails, SubscribeOK,
       SubscribeFails
<1>5. CASE subs' = subs /\ UNCHANGED connUnsub
    BY <1>1, <1>2, <1>3, <1>5, ElemsEmpty, NothingGivenUp DEF Base, TypeOK
<1>6. ASSUME ~fstarted, NEW h, subs' = subs \cup {h}, connUnsub' = h
      PROVE  NoLeakedSubscription'
    <2>1. connUnsub \notin subs
        BY <1>6, ConstantsAssumption DEF Base, EntriesOK, TypeOK
    <2> QED BY <1>1, <1>2, <1>3, <1>6, <2>1, ElemsEmpty, StillHeld
            DEF InEntries, InCalls
<1> QED BY <1>4, <1>5, <1>6

LEMMA BeginKeeps ==
    ASSUME Base, Base', NoLeakedSubscription, NEW p \in Procs, NEW t, Begin(p, t),
           UNCHANGED <<fleetVars, subs>>
    PROVE  NoLeakedSubscription'
<1>1. th[p].got = << >> /\ \A q \in Procs \ {p} : th'[q] = th[q]
    BY IdleType DEF Begin, Base, TypeOK
<1> QED BY <1>1, ElemsEmpty, NothingGivenUp DEF fleetVars, Base, TypeOK

LEMMA ClientKeeps ==
    ASSUME Base, Base', NoLeakedSubscription, Start \/ StartFails \/ Reconnect
    PROVE  NoLeakedSubscription'
<1>1. CASE Reconnect
    BY <1>1 DEF Reconnect, NoLeakedSubscription
<1>2. CASE fstarted /\ (Start \/ StartFails)
    BY <1>2 DEF Start, StartFails, NoLeakedSubscription
<1>3. CASE ~fstarted /\ Start
    BY <1>3 DEF Start, NoLeakedSubscription
<1>4. CASE ~fstarted /\ StartFails
    <2>1. connUnsub \notin subs
        BY <1>4, ConstantsAssumption DEF Base, EntriesOK, TypeOK
    <2> QED BY <1>4, <2>1 DEF StartFails, NoLeakedSubscription
<1> QED BY <1>1, <1>2, <1>3, <1>4

LEMMA LeakFreeNext ==
    ASSUME Faults \subseteq {"reject"}, Base, Base', NoLeakedSubscription,
           [Next]_vars
    PROVE  NoLeakedSubscription'
<1>1. CASE UNCHANGED vars
    BY <1>1 DEF vars, fleetVars, NoLeakedSubscription
<1>2. ASSUME NEW p \in Procs, Step(p) PROVE NoLeakedSubscription'
    <2>1. CASE RollbackEnd(p) \/ Online(p) \/ Offline(p)
        <3>1. th[p].got = << >> /\ Return(p, th[p])
            BY <2>1, CallFacts
               DEF RollbackEnd, Online, Offline, AllCancelled, GotOK, Holding
        <3> QED BY <2>1, <3>1, ReturnKeeps
                DEF RollbackEnd, Online, Offline, fleetVars
    <2> QED BY <1>2, <2>1, CheckKeeps, SubscribeKeeps, InsertKeeps, RollbackKeeps,
               RemoveKeeps, StopKeeps, RestoreSnapshotKeeps, StartFleetKeeps
            DEF Step
<1>3. ASSUME NEW p \in Procs, CallStop(p) PROVE NoLeakedSubscription'
    BY <1>3, BeginKeeps DEF CallStop
<1>4. ASSUME NEW p \in Procs, HandleReconnect(p) PROVE NoLeakedSubscription'
    <2>1. CASE cstarted
        BY <1>4, <2>1, BeginKeeps DEF HandleReconnect
    <2>2. CASE ~cstarted
        BY <1>4, <2>2 DEF HandleReconnect, fleetVars, NoLeakedSubscription
    <2> QED BY <2>1, <2>2
<1>5. ASSUME NEW p \in Procs, NEW o \in Calls, NEW a \in AGVs, Call(p, o, a)
      PROVE  NoLeakedSubscription'
    BY <1>5, BeginKeeps DEF Call
<1> QED BY <1>1, <1>2, <1>3, <1>4, <1>5, ClientKeeps DEF Next

\* track, untrack, Start, Stop and Restore: when a Subscribe that fails has not
\* subscribed and Unsubscribe does what it is asked, no subscription leaks,
\* however many calls and reconnects interleave.
THEOREM NothingLeaks ==
    ASSUME Faults \subseteq {"reject"}
    PROVE  Spec => []NoLeakedSubscription
<1>1. Init => NoLeakedSubscription
    BY DEF Init, NoLeakedSubscription
<1>2. Base /\ Base' /\ NoLeakedSubscription /\ [Next]_vars => NoLeakedSubscription'
    BY LeakFreeNext
<1> QED BY <1>1, <1>2, SessionCorrect, PTL DEF Spec

-----------------------------------------------------------------------------
(***************************************************************************)
(* The hooks agree with the map, without reconnects: what has been fired   *)
(* for an AGV, the online hooks that are about to run and the offline      *)
(* hooks that are about to run add up to whether it is tracked.            *)
(***************************************************************************)
Pending(x, a) == {p \in Procs : th[p].pc = x /\ th[p].agv = a}

IsTracked(a) == IF a \in tracked THEN 1 ELSE 0

HooksAddUp ==
    \A a \in AGVs :
        hooks[a] + Cardinality(Pending("online", a))
            - Cardinality(Pending("unsub", a)) = IsTracked(a)

NoRestore == \A p \in Procs : th[p].op # "restore"

LEMMA PendingFinite ==
    ASSUME IsFiniteSet(Procs), NEW x, NEW a
    PROVE  /\ IsFiniteSet(Pending(x, a)) /\ IsFiniteSet(Pending(x, a)')
           /\ Cardinality(Pending(x, a)) \in Nat
           /\ Cardinality(Pending(x, a)') \in Nat
<1>1. Pending(x, a) \in SUBSET Procs /\ Pending(x, a)' \in SUBSET Procs
    BY DEF Pending
<1> QED BY <1>1, FS_Subset, FS_CardinalityType

\* One goroutine begins to be at x about b, or stops being there.
LEMMA PendingMoves ==
    ASSUME IsFiniteSet(Procs), NEW p \in Procs, NEW x, NEW a,
           \A q \in Procs \ {p} : th'[q] = th[q]
    PROVE  LET was == th[p].pc = x /\ th[p].agv = a
               is  == th'[p].pc = x /\ th'[p].agv = a
           IN  Cardinality(Pending(x, a)') - Cardinality(Pending(x, a)) =
                   (IF is THEN 1 ELSE 0) - (IF was THEN 1 ELSE 0)
<1> DEFINE was == th[p].pc = x /\ th[p].agv = a
           is  == th'[p].pc = x /\ th'[p].agv = a
           P == Pending(x, a)
           Q == Pending(x, a)'
<1>1. /\ IsFiniteSet(P) /\ IsFiniteSet(Q)
      /\ Cardinality(P) \in Nat /\ Cardinality(Q) \in Nat
    BY PendingFinite
<1>2. CASE was /\ ~is
    <2>1. p \in P /\ Q = P \ {p}
        BY <1>2 DEF Pending
    <2>2. Cardinality(Q) = Cardinality(P) - 1
        <3> HIDE DEF P, Q
        <3> QED BY <2>1, <1>1, FS_RemoveElement
    <2> QED BY <1>1, <1>2, <2>2
<1>3. CASE ~was /\ is
    <2>1. p \notin P /\ Q = P \cup {p}
        BY <1>3 DEF Pending
    <2>2. Cardinality(Q) = Cardinality(P) + 1
        <3> HIDE DEF P, Q
        <3> QED BY <2>1, <1>1, FS_AddElement
    <2> QED BY <1>1, <1>3, <2>2
<1>4. CASE was <=> is
    <2>1. Q = P
        BY <1>4 DEF Pending
    <2> QED BY <1>1, <1>4, <2>1
<1> QED BY <1>2, <1>3, <1>4

\* What a call in place t is about to fire for a.
Will(t, a) == CASE t.pc = "online" /\ t.agv = a -> 1
                [] t.pc = "unsub" /\ t.agv = a  -> -1
                [] OTHER                        -> 0

LEMMA WillType == \A t, a : Will(t, a) \in {-1, 0, 1}
BY DEF Will

LEMMA WillNothing ==
    ASSUME NEW t, t.pc \notin {"online", "unsub"} PROVE \A a : Will(t, a) = 0
BY DEF Will

LEMMA HooksMove ==
    ASSUME IsFiniteSet(Procs), HooksAddUp, NEW p \in Procs,
           hooks \in [AGVs -> Int], hooks' \in [AGVs -> Int],
           \A q \in Procs \ {p} : th'[q] = th[q],
           \A a \in AGVs : hooks'[a] + Will(th'[p], a) - IsTracked(a)' =
                           hooks[a] + Will(th[p], a) - IsTracked(a)
    PROVE  HooksAddUp'
<1> SUFFICES ASSUME NEW a \in AGVs
             PROVE  hooks'[a] + Cardinality(Pending("online", a)')
                        - Cardinality(Pending("unsub", a)') = IsTracked(a)'
    BY DEF HooksAddUp
<1> DEFINE n1 == Cardinality(Pending("online", a))
           n2 == Cardinality(Pending("online", a)')
           m1 == Cardinality(Pending("unsub", a))
           m2 == Cardinality(Pending("unsub", a)')
           D(x) == (IF th'[p].pc = x /\ th'[p].agv = a THEN 1 ELSE 0)
                   - (IF th[p].pc = x /\ th[p].agv = a THEN 1 ELSE 0)
<1>1. n1 \in Nat /\ n2 \in Nat /\ m1 \in Nat /\ m2 \in Nat
    BY PendingFinite
<1>2. n2 - n1 = D("online") /\ m2 - m1 = D("unsub")
    BY PendingMoves
<1> DEFINE I(t, x) == IF t.pc = x /\ t.agv = a THEN 1 ELSE 0
<1>3. D("online") - D("unsub") = Will(th'[p], a) - Will(th[p], a)
    <2>1. ASSUME NEW t PROVE Will(t, a) = I(t, "online") - I(t, "unsub")
        BY DEF Will
    <2>2. /\ Will(th'[p], a) = I(th'[p], "online") - I(th'[p], "unsub")
          /\ Will(th[p], a) = I(th[p], "online") - I(th[p], "unsub")
        BY <2>1
    <2>3. /\ D("online") = I(th'[p], "online") - I(th[p], "online")
          /\ D("unsub") = I(th'[p], "unsub") - I(th[p], "unsub")
        OBVIOUS
    <2>4. \A t, x : I(t, x) \in Int
        OBVIOUS
    <2> HIDE DEF D, I
    <2> QED BY <2>2, <2>3, <2>4
<1>4. hooks[a] + n1 - m1 = IsTracked(a)
    BY DEF HooksAddUp
<1>5. /\ hooks[a] \in Int /\ hooks'[a] \in Int
      /\ IsTracked(a) \in Int /\ IsTracked(a)' \in Int
      /\ Will(th'[p], a) \in Int /\ Will(th[p], a) \in Int
      /\ D("online") \in Int /\ D("unsub") \in Int
    BY WillType DEF IsTracked
<1>6. hooks'[a] + Will(th'[p], a) - IsTracked(a)' =
          hooks[a] + Will(th[p], a) - IsTracked(a)
    OBVIOUS
<1> DEFINE h1 == hooks[a]           h2 == hooks'[a]
           w1 == Will(th[p], a)     w2 == Will(th'[p], a)
           k1 == IsTracked(a)       k2 == IsTracked(a)'
           dn == D("online")        dm == D("unsub")
<1>7. /\ h1 \in Int /\ h2 \in Int /\ w1 \in Int /\ w2 \in Int
      /\ k1 \in Int /\ k2 \in Int /\ dn \in Int /\ dm \in Int
      /\ n1 \in Int /\ n2 \in Int /\ m1 \in Int /\ m2 \in Int
    BY <1>1, <1>5
<1>8. /\ n2 - n1 = dn /\ m2 - m1 = dm /\ dn - dm = w2 - w1
      /\ h1 + n1 - m1 = k1 /\ h2 + w2 - k2 = h1 + w1 - k1
    BY <1>2, <1>3, <1>4, <1>6
<1> HIDE DEF n1, n2, m1, m2, h1, h2, w1, w2, k1, k2, dn, dm
<1>9. h2 + n2 - m2 = k2
    BY <1>7, <1>8
<1> QED BY <1>9 DEF n2, m2, h2, k2

\* Steps that fire nothing and neither enter nor remove an AGV.
LEMMA HooksStay ==
    ASSUME IsFiniteSet(Procs), Base, HooksAddUp, NEW p \in Procs,
           \A q \in Procs \ {p} : th'[q] = th[q], UNCHANGED <<hooks, tracked>>,
           \A a \in AGVs : Will(th'[p], a) = Will(th[p], a)
    PROVE  HooksAddUp'
<1>1. \A a \in AGVs : IsTracked(a)' = IsTracked(a)
    BY DEF IsTracked
<1> QED BY <1>1, HooksMove DEF Base, TypeOK

LEMMA ReturnedPlace ==
    ASSUME NEW t \in Threads
    PROVE  /\ Returned(t).pc \in {"idle", "stopNext", "restoreNext"}
           /\ Returned(t).op \in {t.op, "none"}
           /\ \A a : Will(Returned(t), a) = 0
<1>1. /\ Returned(t).pc \in {"idle", "stopNext", "restoreNext"}
      /\ Returned(t).op \in {t.op, "none"}
    BY DEF Returned, Idle, Threads
<1> QED BY <1>1, WillNothing

\* Steps in places where no hook is about to run.
LEMMA QuietStep ==
    ASSUME IsFiniteSet(Procs), Base, Base', HooksAddUp, NoRestore,
           NEW p \in Procs,
           \/ Check(p) \/ Subscribe(p) \/ Rollback(p) \/ RollbackEnd(p)
           \/ StopSnapshot(p) \/ StopEnd(p) \/ Disconnect(p)
           \/ \E a \in AGVs : StopNext(p, a)
    PROVE  HooksAddUp' /\ NoRestore'
<1>1. th[p] \in Threads /\ th'[p] \in Threads
        /\ \A q \in Procs \ {p} : th'[q] = th[q]
    BY DEF Check, Subscribe, Rollback, RollbackEnd, Return, StopSnapshot, StopEnd,
           Disconnect, StopNext, Base, TypeOK
<1>2. th[p].pc \notin {"online", "unsub"}
    BY DEF Check, Subscribe, Rollback, RollbackEnd, StopSnapshot, StopEnd,
           Disconnect, StopNext
<1>3. th'[p].pc \notin {"online", "unsub"} /\ th'[p].op \in {th[p].op, "none"}
    <2>1. CASE Return(p, th[p])
        <3>1. th'[p] = Returned(th[p])
            BY <2>1 DEF Return, Base, TypeOK
        <3> QED BY <1>1, <3>1, ReturnedPlace
    <2>2. CASE Check(p) /\ ~Return(p, th[p])
        <3> DEFINE x == IF NChans = 0 THEN "insert" ELSE "sub"
        <3>1. th' = [th EXCEPT ![p].pc = x] /\ x \in {"insert", "sub"}
            BY <2>2 DEF Check
        <3> HIDE DEF x
        <3> DEFINE u == [th[p] EXCEPT !.pc = x]
        <3>2. th' = [th EXCEPT ![p] = u]
            BY <3>1
        <3>3. u.pc = x /\ u.op = th[p].op
            BY <1>1 DEF Threads
        <3> HIDE DEF u
        <3> QED BY <3>1, <3>2, <3>3 DEF Base, TypeOK
    <2>3. CASE Subscribe(p)
        <3>1. \/ th' = [th EXCEPT ![p] = AfterFailure(th[p])]
              \/ \E g : \E x \in {"insert", "sub"} :
                    th' = [th EXCEPT ![p].got = g, ![p].pc = x]
            <4> DEFINE h == [filter |-> NextFilter(th[p]), call |-> th[p].call]
                       g == Append(th[p].got, h)
                       x == IF Len(th[p].got) + 1 = NChans THEN "insert" ELSE "sub"
            <4>1. \/ th' = [th EXCEPT ![p] = AfterFailure(th[p])]
                  \/ th' = [th EXCEPT ![p].got = g, ![p].pc = x]
                BY <2>3 DEF Subscribe
            <4>2. x \in {"insert", "sub"}
                OBVIOUS
            <4> HIDE DEF g, x
            <4> QED BY <4>1, <4>2
        <3>2. CASE th' = [th EXCEPT ![p] = AfterFailure(th[p])]
            BY <1>1, <3>2 DEF AfterFailure, Base, TypeOK, Threads
        <3>3. ASSUME NEW g, NEW x \in {"insert", "sub"},
                     th' = [th EXCEPT ![p].got = g, ![p].pc = x]
              PROVE  th'[p].pc = x /\ th'[p].op = th[p].op
            <4> DEFINE u == [th[p] EXCEPT !.got = g, !.pc = x]
            <4>1. th' = [th EXCEPT ![p] = u]
                BY <3>3
            <4>2. u.pc = x /\ u.op = th[p].op
                BY <1>1 DEF Threads
            <4> HIDE DEF u
            <4> QED BY <4>1, <4>2 DEF Base, TypeOK
        <3> QED BY <3>1, <3>2, <3>3
    <2>4. CASE Rollback(p)
        BY <1>1, <2>4 DEF Rollback, Base, TypeOK, Threads
    <2>5. CASE StopSnapshot(p)
        BY <1>1, <2>5 DEF StopSnapshot, Base, TypeOK, Threads
    <2>6. CASE StopEnd(p)
        BY <1>1, <2>6 DEF StopEnd, Base, TypeOK, Threads
    <2>7. ASSUME NEW a \in AGVs, StopNext(p, a)
          PROVE  th'[p].pc = "remove" /\ th'[p].op = th[p].op
        <3> DEFINE u == [th[p] EXCEPT !.pc = "remove", !.agv = a,
                                      !.todo = th[p].todo \ {a}]
        <3>1. th' = [th EXCEPT ![p] = u]
            BY <2>7 DEF StopNext
        <3>2. u.pc = "remove" /\ u.op = th[p].op
            BY <1>1 DEF Threads
        <3> HIDE DEF u
        <3> QED BY <3>1, <3>2 DEF Base, TypeOK
    <2>8. CASE Disconnect(p)
        BY <1>1, <2>8 DEF Disconnect, Idle, Base, TypeOK
    <2> QED BY <2>1, <2>2, <2>3, <2>4, <2>5, <2>6, <2>7, <2>8 DEF RollbackEnd
<1>4. UNCHANGED <<hooks, tracked>>
    BY DEF Check, Subscribe, Rollback, CancelOne, RollbackEnd, StopSnapshot,
           StopEnd, Disconnect, StopNext, fleetVars, ghosts
<1>5. HooksAddUp'
    BY <1>1, <1>2, <1>3, <1>4, WillNothing, HooksStay
<1> QED BY <1>1, <1>3, <1>5 DEF NoRestore

LEMMA InsertHooks ==
    ASSUME IsFiniteSet(Procs), Base, Base', HooksAddUp, NoRestore,
           NEW p \in Procs, Insert(p)
    PROVE  HooksAddUp' /\ NoRestore'
<1> DEFINE t == th[p]
<1>1. /\ t \in Threads /\ t.agv \in AGVs /\ t.pc = "insert" /\ t.op = "track"
      /\ \A q \in Procs \ {p} : th'[q] = th[q]
    BY CallFacts DEF Insert, GotOK, PlaceOK, Tracking, Return, NoRestore, Base, TypeOK
<1>2. UNCHANGED hooks
    BY DEF Insert
<1>3. CASE LostRace(t)
    <2>1. th'[p].pc = "rollback" /\ th'[p].op = t.op /\ UNCHANGED tracked
        BY <1>1, <1>3 DEF Insert, Base, TypeOK, Threads
    <2>2. HooksAddUp'
        BY <1>1, <1>2, <2>1, WillNothing, HooksStay
    <2> QED BY <1>1, <2>1, <2>2 DEF NoRestore
<1>4. CASE ~LostRace(t)
    <2> DEFINE u == [t EXCEPT !.pc = "online", !.got = << >>]
    <2>1. th' = [th EXCEPT ![p] = u] /\ tracked' = tracked \cup {t.agv}
        BY <1>1, <1>4 DEF Insert, Notifies
    <2>2. u.pc = "online" /\ u.op = t.op /\ u.agv = t.agv
        BY <1>1 DEF Threads
    <2> HIDE DEF u
    <2>3. th'[p] = u
        BY <2>1 DEF Base, TypeOK
    <2>4. ASSUME NEW a \in AGVs
          PROVE  hooks'[a] + Will(th'[p], a) - IsTracked(a)' =
                 hooks[a] + Will(th[p], a) - IsTracked(a)
        <3>1. hooks'[a] = hooks[a] /\ hooks[a] \in Int /\ Will(t, a) = 0
            BY <1>1, <1>2, WillNothing DEF Base, TypeOK
        <3>2. CASE a = t.agv
            <4>1. Will(u, a) = 1 /\ IsTracked(a)' = 1 /\ IsTracked(a) = 0
                BY <1>4, <2>1, <2>2, <3>2 DEF Will, IsTracked, LostRace
            <4> QED BY <2>3, <3>1, <4>1
        <3>3. CASE a # t.agv
            <4>1. Will(u, a) = 0 /\ IsTracked(a)' = IsTracked(a)
                BY <2>1, <2>2, <3>3 DEF Will, IsTracked
            <4> QED BY <2>3, <3>1, <4>1
        <3> QED BY <3>2, <3>3
    <2>5. HooksAddUp'
        BY <1>1, <2>4, HooksMove DEF Base, TypeOK
    <2> QED BY <1>1, <2>2, <2>3, <2>5 DEF NoRestore
<1> QED BY <1>3, <1>4

LEMMA RemoveHooks ==
    ASSUME IsFiniteSet(Procs), Base, Base', HooksAddUp, NoRestore,
           NEW p \in Procs, Remove(p)
    PROVE  HooksAddUp' /\ NoRestore'
<1> DEFINE t == th[p]
<1>1. /\ t \in Threads /\ t.agv \in AGVs /\ t.pc = "remove" /\ t.op # "restore"
      /\ \A q \in Procs \ {p} : th'[q] = th[q]
    BY CallFacts DEF Remove, GotOK, Removing, Return, NoRestore, Base, TypeOK
<1>2. UNCHANGED hooks
    BY DEF Remove
<1>3. CASE t.agv \notin tracked
    <2>1. th'[p] = Returned(t) /\ UNCHANGED tracked
        BY <1>3 DEF Remove, Return, Base, TypeOK
    <2>2. HooksAddUp'
        BY <1>1, <1>2, <2>1, WillNothing, ReturnedPlace, HooksStay
    <2> QED BY <1>1, <2>1, <2>2, ReturnedPlace DEF NoRestore
<1>4. CASE t.agv \in tracked
    <2> DEFINE u == [t EXCEPT !.pc = "unsub", !.got = unsubs[t.agv]]
    <2>1. th' = [th EXCEPT ![p] = u] /\ tracked' = tracked \ {t.agv}
        BY <1>1, <1>4 DEF Remove
    <2>2. u.pc = "unsub" /\ u.op = t.op /\ u.agv = t.agv
        BY <1>1 DEF Threads
    <2> HIDE DEF u
    <2>3. th'[p] = u
        BY <2>1 DEF Base, TypeOK
    <2>4. ASSUME NEW a \in AGVs
          PROVE  hooks'[a] + Will(th'[p], a) - IsTracked(a)' =
                 hooks[a] + Will(th[p], a) - IsTracked(a)
        <3>1. hooks'[a] = hooks[a] /\ hooks[a] \in Int /\ Will(t, a) = 0
            BY <1>1, <1>2, WillNothing DEF Base, TypeOK
        <3>2. CASE a = t.agv
            <4>1. Will(u, a) = -1 /\ IsTracked(a)' = 0 /\ IsTracked(a) = 1
                BY <1>4, <2>1, <2>2, <3>2 DEF Will, IsTracked
            <4> QED BY <2>3, <3>1, <4>1
        <3>3. CASE a # t.agv
            <4>1. Will(u, a) = 0 /\ IsTracked(a)' = IsTracked(a)
                BY <2>1, <2>2, <3>3 DEF Will, IsTracked
            <4> QED BY <2>3, <3>1, <4>1
        <3> QED BY <3>2, <3>3
    <2>5. HooksAddUp'
        BY <1>1, <2>4, HooksMove DEF Base, TypeOK
    <2> QED BY <1>1, <2>2, <2>3, <2>5 DEF NoRestore
<1> QED BY <1>3, <1>4

LEMMA FireHooks ==
    ASSUME IsFiniteSet(Procs), Base, Base', HooksAddUp, NoRestore,
           NEW p \in Procs, Online(p) \/ Offline(p)
    PROVE  HooksAddUp' /\ NoRestore'
<1> DEFINE t == th[p]
           n == IF t.pc = "online" THEN 1 ELSE -1
<1>1. /\ t \in Threads /\ t.agv \in AGVs /\ t.pc \in {"online", "unsub"}
      /\ \A q \in Procs \ {p} : th'[q] = th[q]
      /\ UNCHANGED tracked
    BY CallFacts DEF Online, Offline, GotOK, Removing, Return, fleetVars, Base, TypeOK
<1>2. th'[p] = Returned(t)
    BY DEF Online, Offline, Return, Base, TypeOK
<1>3. hooks' = [hooks EXCEPT ![t.agv] = @ + n]
    <2>1. CASE Online(p)
        BY <2>1 DEF Online
    <2>2. CASE Offline(p)
        <3>1. hooks[t.agv] - 1 = hooks[t.agv] + (-1)
            BY <1>1 DEF Base, TypeOK
        <3>2. n = -1 /\ hooks' = [hooks EXCEPT ![t.agv] = @ - 1]
            BY <2>2 DEF Offline
        <3> QED BY <3>1, <3>2
    <2> QED BY <2>1, <2>2
<1>4. n \in {-1, 1}
    OBVIOUS
<1>5. ASSUME NEW a \in AGVs
      PROVE  hooks'[a] + Will(th'[p], a) - IsTracked(a)' =
             hooks[a] + Will(th[p], a) - IsTracked(a)
    <2>1. /\ Will(th'[p], a) = 0 /\ hooks[a] \in Int
          /\ IsTracked(a)' = IsTracked(a) /\ IsTracked(a) \in {0, 1}
        BY <1>1, <1>2, ReturnedPlace DEF Base, TypeOK, IsTracked
    <2>2. CASE a = t.agv
        <3>1. Will(t, a) = n
            BY <1>1, <2>2 DEF Will
        <3>2. hooks'[a] = hooks[a] + n
            BY <1>3, <2>2 DEF Base, TypeOK
        <3> HIDE DEF n
        <3> QED BY <1>4, <2>1, <3>1, <3>2
    <2>3. CASE a # t.agv
        <3>1. Will(t, a) = 0 /\ hooks'[a] = hooks[a]
            BY <1>3, <2>3 DEF Will, Base, TypeOK
        <3> QED BY <2>1, <3>1
    <2> QED BY <2>2, <2>3
<1>6. HooksAddUp'
    BY <1>1, <1>5, HooksMove DEF Base, TypeOK
<1> QED BY <1>1, <1>2, <1>6, ReturnedPlace DEF NoRestore

LEMMA UnsubscribeHooks ==
    ASSUME IsFiniteSet(Procs), Base, Base', HooksAddUp, NoRestore,
           NEW p \in Procs, Unsubscribe(p)
    PROVE  HooksAddUp' /\ NoRestore'
<1>1. th[p] \in Threads /\ \A q \in Procs \ {p} : th'[q] = th[q]
    BY DEF Unsubscribe, Base, TypeOK
<1>2. PICK failed : th' = [th EXCEPT ![p].got = Front(@), ![p].failed = @ \/ failed]
    BY DEF Unsubscribe
<1> DEFINE u == [th[p] EXCEPT !.got = Front(@), !.failed = @ \/ failed]
<1>3. th' = [th EXCEPT ![p] = u]
    BY <1>2
<1>4. u.pc = th[p].pc /\ u.op = th[p].op /\ u.agv = th[p].agv
    BY <1>1 DEF Threads
<1> HIDE DEF u
<1>5. th'[p] = u
    BY <1>3 DEF Base, TypeOK
<1>6. \A a \in AGVs : Will(th'[p], a) = Will(th[p], a)
    BY <1>4, <1>5 DEF Will
<1>7. UNCHANGED <<hooks, tracked>>
    BY DEF Unsubscribe, CancelOne, fleetVars, ghosts
<1> QED BY <1>1, <1>4, <1>5, <1>6, <1>7, HooksStay DEF NoRestore

LEMMA StepHooks ==
    ASSUME IsFiniteSet(Procs), Base, Base', HooksAddUp, NoRestore,
           NEW p \in Procs, Step(p)
    PROVE  HooksAddUp' /\ NoRestore'
<1>1. th[p].pc \notin {"snapshot", "start", "restoreNext"}
    BY CallFacts DEF PlaceOK, NoRestore
<1>2. /\ ~RestoreSnapshot(p) /\ ~RestoreStart(p) /\ ~RestoreEnd(p)
      /\ \A a \in AGVs : ~RestoreNext(p, a)
    BY <1>1 DEF RestoreSnapshot, RestoreStart, RestoreEnd, RestoreNext
<1> QED BY <1>2, QuietStep, InsertHooks, RemoveHooks, FireHooks, UnsubscribeHooks
        DEF Step

LEMMA BeginHooks ==
    ASSUME IsFiniteSet(Procs), Base, Base', HooksAddUp, NoRestore,
           NEW p \in Procs, NEW t \in Threads, Begin(p, t),
           t.pc \notin {"online", "unsub"}, t.op # "restore",
           UNCHANGED <<hooks, tracked>>
    PROVE  HooksAddUp' /\ NoRestore'
<1> DEFINE u == [t EXCEPT !.call = calls + 1]
<1>1. th[p].pc = "idle" /\ th' = [th EXCEPT ![p] = u]
    BY DEF Begin, Idle
<1>2. u.pc = t.pc /\ u.op = t.op
    BY DEF Threads
<1> HIDE DEF u
<1>3. th'[p] = u /\ \A q \in Procs \ {p} : th'[q] = th[q]
    BY <1>1 DEF Base, TypeOK
<1>4. \A a \in AGVs : Will(th'[p], a) = Will(th[p], a)
    BY <1>1, <1>2, <1>3, WillNothing
<1> QED BY <1>2, <1>3, <1>4, HooksStay DEF NoRestore

\* Steps of the client and of the broker.
LEMMA SameHooks ==
    ASSUME HooksAddUp, NoRestore, UNCHANGED <<th, hooks, tracked>>
    PROVE  HooksAddUp' /\ NoRestore'
BY DEF HooksAddUp, NoRestore, Pending, IsTracked

LEMMA CallHooks ==
    ASSUME IsFiniteSet(Procs), Base, Base', HooksAddUp, NoRestore,
           NEW p \in Procs,
           CallStop(p) \/ \E o \in Calls, a \in AGVs : Call(p, o, a)
    PROVE  HooksAddUp' /\ NoRestore'
<1>1. CASE CallStop(p)
    <2> DEFINE t == [Idle EXCEPT !.op = "stop", !.pc = "stop"]
    <2>1. t \in Threads /\ t.pc = "stop" /\ t.op = "stop" /\ Begin(p, t)
        BY <1>1, IdleType DEF CallStop, Threads
    <2> HIDE DEF t
    <2> QED BY <1>1, <2>1, BeginHooks DEF CallStop, fleetVars, ghosts
<1>2. ASSUME NEW o \in Calls, NEW a \in AGVs, Call(p, o, a)
      PROVE  HooksAddUp' /\ NoRestore'
    <2> DEFINE x == IF o = "track" THEN "check" ELSE "remove"
               t == [Idle EXCEPT !.op = o, !.agv = a, !.pc = x]
    <2>1. Begin(p, t) /\ o \in {"track", "untrack"} /\ x \in {"check", "remove"}
        BY <1>2 DEF Call
    <2> HIDE DEF x
    <2>2. t \in Threads /\ t.pc = x /\ t.op = o
        BY <2>1, IdleType DEF Threads
    <2> HIDE DEF t
    <2> QED BY <1>2, <2>1, <2>2, BeginHooks DEF Call, fleetVars, ghosts
<1> QED BY <1>1, <1>2

LEMMA HooksInit ==
    ASSUME IsFiniteSet(Procs), Init PROVE HooksAddUp /\ NoRestore
<1>1. \A p \in Procs : th[p].pc = "idle" /\ th[p].op = "none"
    BY DEF Init, Idle
<1>2. \A a \in AGVs : Pending("online", a) = {} /\ Pending("unsub", a) = {}
    BY <1>1 DEF Pending
<1>3. \A a \in AGVs : hooks[a] = 0 /\ IsTracked(a) = 0
    BY DEF Init, IsTracked
<1> QED BY <1>1, <1>2, <1>3, FS_EmptySet DEF HooksAddUp, NoRestore

LEMMA HooksNext ==
    ASSUME IsFiniteSet(Procs), Restorers = {}, Base, Base', HooksAddUp, NoRestore,
           [Next]_vars
    PROVE  HooksAddUp' /\ NoRestore'
<1>1. CASE UNCHANGED vars \/ Start \/ StartFails \/ Reconnect
    BY <1>1, SameHooks DEF vars, fleetVars, ghosts, Start, StartFails, Reconnect
<1>2. \A p \in Procs : ~HandleReconnect(p)
    BY DEF HandleReconnect
<1> QED BY <1>1, <1>2, StepHooks, CallHooks DEF Next

LEMMA AddUpAgree ==
    ASSUME HooksAddUp, Base PROVE HooksAgree
<1> SUFFICES ASSUME Quiet, NEW a \in AGVs PROVE hooks[a] = IsTracked(a)
    BY DEF HooksAgree, IsTracked
<1>1. Pending("online", a) = {} /\ Pending("unsub", a) = {}
    BY DEF Quiet, Idle, Pending
<1>2. hooks[a] + 0 - 0 = IsTracked(a)
    BY <1>1, FS_EmptySet DEF HooksAddUp
<1> QED BY <1>2 DEF Base, TypeOK

\* OnAGVOnline and OnAGVOffline: as long as nothing is restored, whatever calls
\* of Track, Untrack and Stop interleave and whatever the broker refuses, the
\* hooks fired agree with the map as soon as no call is running.
THEOREM HooksMatchMap ==
    ASSUME Restorers = {}, IsFiniteSet(Callers)
    PROVE  Spec => []HooksAgree
<1> DEFINE Inv == HooksAddUp /\ NoRestore
<1>1. IsFiniteSet(Procs)
    BY DEF Procs
<1>2. Init => Inv
    BY <1>1, HooksInit
<1>3. Base /\ Base' /\ Inv /\ [Next]_vars => Inv'
    BY <1>1, HooksNext
<1>4. Base /\ Inv => HooksAgree
    BY AddUpAgree
<1> HIDE DEF Inv
<1> QED BY <1>2, <1>3, <1>4, SessionCorrect, PTL DEF Spec
=============================================================================
