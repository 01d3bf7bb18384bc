-------------------------- MODULE FleetSerialProofs --------------------------
(***************************************************************************)
(* Proofs about FleetSession when its calls do not overlap, except Track   *)
(* and Untrack of different AGVs.  Any number of goroutines call, and      *)
(* connections may be lost at any moment, in the middle of calls too, so   *)
(* that reconnects are due when they return.  Each theorem assumes as few  *)
(* of the failures away as it can: a Subscribe that fails makes Restore    *)
(* lose AGVs and the connection wildcard, one that reports an error and    *)
(* has subscribed leaks the handle, and so does an Unsubscribe that fails. *)
(***************************************************************************)
EXTENDS FleetSessionProofs

\* The AGVs Restore has taken out of the map and will enter again.
Aside(t) ==
    IF t.op # "restore" \/ t.pc = "snapshot" THEN {}
    ELSE t.todo \cup {a \in {t.agv} : t.pc \in {"check", "sub", "insert"}}

\* The AGVs that are tracked, or will be when Restore is through.
Standing(t) == tracked \cup Aside(t)

\* Where the client is while the goroutine is in call t.  If Subscribe may fail,
\* the session may have given up its connection wildcard, or have one that went
\* with the transport of a Start that failed.
PhaseOK(t) ==
    /\ t.failed => \/ t.op = "stop" \/ t.pc = "rollback"
                   \/ t.op = "untrack" /\ t.pc = "unsub"
    /\ t.pc = "rollback" => t.failed /\ SubscribeMayFail
    /\ CASE t.op = "none" -> /\ cstarted => up /\ (fstarted \/ SubscribeMayFail)
                             /\ ~cstarted => /\ ~up /\ tracked = {}
                                             /\ ~fstarted \/ SubscribeMayFail
         [] t.op = "stop" -> ~cstarted /\ up
         [] OTHER         -> /\ cstarted /\ up
                             /\ fstarted \/ t.pc = "start" \/ SubscribeMayFail
    /\ t.pc \in {"sub", "insert", "rollback", "unsub"} => t.agv \notin tracked
    /\ t.pc = "online" => t.agv \in tracked
    /\ t.pc = "stopNext" => tracked \subseteq t.todo
    /\ t.op = "stop" /\ t.pc \in Removing => tracked \subseteq t.todo \cup {t.agv}
    /\ t.pc = "disconnect" => tracked = {} /\ ~fstarted
    /\ t.pc = "snapshot" => t.todo = {}
    /\ t.pc = "start" => tracked = {} /\ ~fstarted

\* The hooks fired agree with the map as Restore will leave it, unless a
\* Subscribe that fails stops it half-way.
FiredOK(t, A) ==
    \/ SubscribeMayFail
    \/ \A a \in A : hooks[a] + Will(t, a) = IF a \in Standing(t) THEN 1 ELSE 0

\* So does the last successful call about an AGV.  An AGV that was untracked
\* stays so even then.
WantOK(t, A) ==
    \A a \in A :
        /\ want[a] = "track" =>
               \/ a \in Standing(t) \/ t.op = "stop"
               \/ t.pc = "unsub" /\ t.agv = a
               \/ SubscribeMayFail
        /\ want[a] = "untrack" =>
               \/ a \notin Standing(t)
               \/ t.pc = "online" /\ t.agv = a

\* Unless a reconnect is due or about to be handled, what the session holds is
\* subscribed.
Live(t) ==
    due = 0 /\ t.pc # "snapshot" /\ t.op # "stop" =>
        /\ fstarted => connUnsub \in subs \/ SubscribeMayFail
        /\ \A a \in tracked : Elems(unsubs[a]) \subseteq subs
        /\ t.pc \in {"sub", "insert"} => Elems(t.got) \subseteq subs

SerialOK(t, A) == PhaseOK(t) /\ FiredOK(t, A) /\ WantOK(t, A) /\ Live(t)

-----------------------------------------------------------------------------
(***************************************************************************)
(* What the steps have in common.                                          *)
(***************************************************************************)
LEMMA IdleFields ==
    /\ Idle.pc = "idle" /\ Idle.op = "none" /\ Idle.got = << >>
    /\ Idle.todo = {} /\ Idle.failed = FALSE
BY DEF Idle

LEMMA ReturnedFields ==
    ASSUME NEW t \in Threads
    PROVE  /\ t.op = "stop" =>
                /\ Returned(t).pc = "stopNext" /\ Returned(t).op = "stop"
                /\ Returned(t).todo = t.todo
           /\ t.op = "restore" /\ ~t.failed =>
                /\ Returned(t).pc = "restoreNext" /\ Returned(t).op = "restore"
                /\ Returned(t).todo = t.todo /\ ~Returned(t).failed
           /\ t.op = "restore" /\ t.failed => Returned(t) = Idle
           /\ t.op \notin {"stop", "restore"} => Returned(t) = Idle
BY DEF Returned, Threads

LEMMA WantSame ==
    ASSUME NEW p, NEW t, Return(p, t), t.op \in {"stop", "restore"}
    PROVE  want' = want
BY DEF Return

LEMMA OneProc ==
    ASSUME NEW c \in Procs, Base
    PROVE  /\ th[c] \in Threads /\ CallOK(th[c])
           /\ PlaceOK(th[c]) /\ GotOK(th[c])
           /\ \A u : th' = [th EXCEPT ![c] = u] => th'[c] = u
BY CallFacts DEF Procs, Base, TypeOK

LEMMA FailsOnlyIf ==
    ASSUME up, NEW h, SubscribeFails(h)
    PROVE  SubscribeMayFail /\ subs \subseteq subs'
BY DEF SubscribeFails, SubscribeMayFail

\* Cancelling a handle of an AGV takes nothing from the others.
LEMMA CancelOneSpares ==
    ASSUME Base, NEW c \in Procs, CancelOne(c)
    PROVE  /\ UNCHANGED <<up, cstarted, fleetVars, due, ghosts>>
           /\ subs' \subseteq subs
           /\ \A h \in subs : h.filter[1] # th[c].agv => h \in subs'
<1> DEFINE t == th[c]
           n == Len(t.got)
           l == t.got[n]
<1>1. n \in 1 .. n /\ GotOK(t)
    BY OneProc, FrontFacts DEF CancelOne, Threads
<1>2. l.filter = <<t.agv, n>>
    BY <1>1 DEF GotOK
<1>3. PICK H \in Cancelled({l}) : subs' = Cancel(subs, H)
    BY DEF CancelOne
<1>4. H \subseteq {l}
    BY CancelledFacts
<1> HIDE DEF l, n
<1>5. l.filter[1] = t.agv
    BY <1>2
<1> QED BY <1>3, <1>4, <1>5 DEF CancelOne, Cancel

\* Steps that change neither what is tracked or set aside nor what is wanted.
LEMMA SameStanding ==
    ASSUME NEW c, NEW A \in SUBSET AGVs, FiredOK(th[c], A), WantOK(th[c], A),
           UNCHANGED <<hooks, want>>, Standing(th[c])' = Standing(th[c]),
           th[c].op = "stop" => th'[c].op = "stop",
           th[c].pc \notin {"online", "unsub"}, th'[c].pc \notin {"online", "unsub"}
    PROVE  FiredOK(th[c], A)' /\ WantOK(th[c], A)'
<1>1. \A a \in AGVs : Will(th[c], a) = 0 /\ Will(th'[c], a) = 0
    BY WillNothing
<1> QED BY <1>1 DEF FiredOK, WantOK

\* Steps that leave the session as it is and keep its subscriptions.
LEMMA LiveStays ==
    ASSUME NEW c, Live(th[c]), UNCHANGED <<due, fleetVars>>, subs \subseteq subs',
           th[c].pc = "snapshot" =>
             th'[c].pc = "snapshot" \/ (~fstarted /\ tracked = {}),
           th[c].op = "stop" => th'[c].op = "stop",
           th'[c].pc \in {"sub", "insert"} => Elems(th'[c].got) \subseteq subs'
    PROVE  Live(th[c])'
BY DEF Live, fleetVars

\* Steps that cancel handles of an AGV that is not tracked.
LEMMA EntriesSpared ==
    ASSUME Base, NEW c \in Procs, Live(th[c]), UNCHANGED <<due, fleetVars>>,
           th[c].agv \in AGVs, th[c].agv \notin tracked,
           th[c].pc # "snapshot", th'[c].pc \notin {"sub", "insert"},
           th'[c].op = th[c].op,
           \A h \in subs : h.filter[1] # th[c].agv => h \in subs'
    PROVE  Live(th[c])'
<1> SUFFICES ASSUME due' = 0, th[c].op # "stop"
             PROVE  /\ fstarted' => connUnsub' \in subs' \/ SubscribeMayFail
                    /\ \A a \in tracked' : Elems(unsubs[a])' \subseteq subs'
    BY DEF Live
<1>1. /\ fstarted => connUnsub \in subs \/ SubscribeMayFail
      /\ \A a \in tracked : Elems(unsubs[a]) \subseteq subs
    BY DEF Live
<1>2. fstarted => connUnsub.filter[1] # th[c].agv
    BY ConstantsAssumption DEF Base, EntriesOK, ConnFilter
<1>3. \A a \in tracked : \A h \in Elems(unsubs[a]) : h.filter[1] # th[c].agv
    BY DEF Base, EntriesOK, Elems
<1> QED BY <1>1, <1>2, <1>3 DEF fleetVars

\* Track and Restore.
LEMMA CheckSerial ==
    ASSUME NEW c \in Procs, NEW A \in SUBSET AGVs,
           Base, SerialOK(th[c], A), Check(c)
    PROVE  SerialOK(th[c], A)'
<1> DEFINE t == th[c]
<1>1. /\ t \in Threads /\ t.pc = "check" /\ t.op \in {"track", "restore"}
      /\ t.agv \in AGVs /\ t.got = << >> /\ ~t.failed
      /\ PhaseOK(t) /\ FiredOK(t, A) /\ WantOK(t, A) /\ Live(t)
    BY OneProc DEF Check, PlaceOK, GotOK, Tracking, Holding, SerialOK, PhaseOK
<1>2. UNCHANGED <<up, cstarted, fleetVars, subs, due, hooks>>
    BY DEF Check
<1>3. CASE t.agv \in tracked /\ t.op = "track"
    <2>1. th'[c] = Idle /\ want' = [want EXCEPT ![t.agv] = "track"]
        BY <1>1, <1>3, OneProc, ReturnedFields DEF Check, Return
    <2>2. Standing(t) = tracked /\ Standing(th[c])' = tracked
        BY <1>1, <1>2, <1>3, <2>1, IdleFields DEF Standing, Aside, fleetVars
    <2>3. FiredOK(th[c], A)'
        BY <1>1, <1>2, <2>1, <2>2, IdleFields, WillNothing DEF FiredOK
    <2>4. WantOK(th[c], A)'
        BY <1>1, <1>2, <1>3, <2>1, <2>2, IdleFields
           DEF WantOK, Base, TypeOK
    <2>5. PhaseOK(th[c])'
        BY <1>1, <1>2, <1>3, <2>1, IdleFields DEF PhaseOK, fleetVars, Removing
    <2>6. Live(th[c])'
        BY <1>1, <1>2, <2>1, IdleFields, LiveStays
    <2> QED BY <2>3, <2>4, <2>5, <2>6 DEF SerialOK
<1>4. CASE t.agv \in tracked /\ t.op = "restore"
    <2>1. /\ th'[c].pc = "restoreNext" /\ th'[c].op = "restore"
          /\ th'[c].todo = t.todo /\ ~th'[c].failed /\ want' = want
        <3>1. Return(c, t)
            BY <1>4 DEF Check
        <3>2. th'[c] = Returned(t) /\ want' = want
            BY <1>4, <3>1, OneProc, WantSame DEF Return
        <3> QED BY <1>1, <1>4, <3>2, ReturnedFields
    <2>2. Standing(th[c])' = Standing(t)
        BY <1>1, <1>2, <1>4, <2>1 DEF Standing, Aside, fleetVars
    <2>3. FiredOK(th[c], A)' /\ WantOK(th[c], A)'
        BY <1>1, <1>2, <2>1, <2>2, SameStanding
    <2>5. PhaseOK(th[c])'
        BY <1>1, <1>2, <1>4, <2>1 DEF PhaseOK, fleetVars, Removing
    <2>6. Live(th[c])'
        BY <1>1, <1>2, <2>1, LiveStays
    <2> QED BY <2>3, <2>5, <2>6 DEF SerialOK
<1>5. CASE t.agv \notin tracked
    <2> DEFINE x == IF NChans = 0 THEN "insert" ELSE "sub"
    <2>1. th' = [th EXCEPT ![c].pc = x] /\ x \in {"insert", "sub"} /\ want' = want
        BY <1>5 DEF Check
    <2> HIDE DEF x
    <2>2. /\ th'[c].pc \in {"insert", "sub"} /\ th'[c].op = t.op
          /\ th'[c].todo = t.todo /\ ~th'[c].failed /\ th'[c].agv = t.agv
          /\ th'[c].got = << >>
        BY <1>1, <2>1, OneProc DEF Base, TypeOK, Threads
    <2>3. Standing(th[c])' = Standing(t)
        BY <1>1, <1>2, <2>2 DEF Standing, Aside, fleetVars
    <2>4. FiredOK(th[c], A)' /\ WantOK(th[c], A)'
        BY <1>1, <1>2, <2>1, <2>2, <2>3, SameStanding
    <2>5. PhaseOK(th[c])'
        BY <1>1, <1>2, <1>5, <2>2 DEF PhaseOK, fleetVars, Removing
    <2>6. Live(th[c])'
        BY <1>1, <1>2, <2>2, ElemsEmpty, LiveStays
    <2> QED BY <2>4, <2>5, <2>6 DEF SerialOK
<1> QED BY <1>1, <1>3, <1>4, <1>5

LEMMA SubscribeSerial ==
    ASSUME NEW c \in Procs, NEW A \in SUBSET AGVs,
           Base, SerialOK(th[c], A), Subscribe(c)
    PROVE  SerialOK(th[c], A)'
<1> DEFINE t == th[c]
           h == [filter |-> NextFilter(t), call |-> t.call]
           g == Append(t.got, h)
           x == IF Len(t.got) + 1 = NChans THEN "insert" ELSE "sub"
           u == [t EXCEPT !.got = g, !.pc = x]
           v == AfterFailure(t)
<1>1. /\ t \in Threads /\ t.pc = "sub" /\ t.op \in {"track", "restore"}
      /\ t.agv \in AGVs /\ t.got \in Seq(Handles) /\ ~t.failed /\ up
      /\ Len(t.got) < NChans /\ t.call \in 1 .. MaxCalls
      /\ PhaseOK(t) /\ FiredOK(t, A) /\ WantOK(t, A) /\ Live(t)
    BY OneProc, CallFacts DEF Subscribe, PlaceOK, GotOK, Tracking, SerialOK, PhaseOK
<1>2. UNCHANGED <<up, cstarted, fleetVars, due, hooks, want>>
    BY DEF Subscribe, ghosts
<1>3. \/ subs' = subs \cup {h} /\ th' = [th EXCEPT ![c] = u]
      \/ SubscribeMayFail /\ subs \subseteq subs' /\ th' = [th EXCEPT ![c] = v]
    BY <1>1, FailsOnlyIf DEF Subscribe, SubscribeOK
<1>4. h \in Handles
    <2>1. Len(t.got) + 1 \in 1 .. NChans
        BY <1>1, Bounds, LenProperties
    <2> QED BY <1>1, <2>1, HandleType DEF NextFilter
<1>5. Elems(g) = Elems(t.got) \cup {h}
    BY <1>1, <1>4, ElemsAppend
<1>6. x \in {"insert", "sub"}
    OBVIOUS
<1> HIDE DEF g, x, h
<1>7. /\ u.pc \in {"insert", "sub"} /\ u.op = t.op /\ u.agv = t.agv
      /\ u.todo = t.todo /\ u.got = g /\ u.failed = t.failed
      /\ v.pc = "rollback" /\ v.op = t.op /\ v.agv = t.agv
      /\ v.todo = t.todo /\ v.failed
    BY <1>1, <1>6 DEF Threads, AfterFailure
<1> HIDE DEF u, v
<1>8. CASE subs' = subs \cup {h} /\ th' = [th EXCEPT ![c] = u]
    <2>1. th'[c] = u
        BY <1>8, OneProc
    <2>2. Standing(th[c])' = Standing(t)
        BY <1>1, <1>2, <1>7, <2>1 DEF Standing, Aside, fleetVars
    <2>3. FiredOK(th[c], A)' /\ WantOK(th[c], A)'
        BY <1>1, <1>2, <1>7, <2>1, <2>2, SameStanding
    <2>4. PhaseOK(th[c])'
        BY <1>1, <1>2, <1>7, <2>1 DEF PhaseOK, fleetVars, Removing
    <2>5. Live(th[c])'
        BY <1>1, <1>2, <1>5, <1>7, <1>8, <2>1 DEF Live, fleetVars
    <2> QED BY <2>3, <2>4, <2>5 DEF SerialOK
<1>9. CASE SubscribeMayFail /\ subs \subseteq subs' /\ th' = [th EXCEPT ![c] = v]
    <2>1. th'[c] = v
        BY <1>9, OneProc
    <2>2. Standing(th[c])' \subseteq Standing(t)
        BY <1>1, <1>2, <1>7, <2>1 DEF Standing, Aside, fleetVars
    <2>3. FiredOK(th[c], A)' /\ WantOK(th[c], A)'
        BY <1>1, <1>2, <1>9, <2>2 DEF FiredOK, WantOK
    <2>4. PhaseOK(th[c])'
        BY <1>1, <1>2, <1>7, <1>9, <2>1 DEF PhaseOK, fleetVars, Removing
    <2>5. Live(th[c])'
        BY <1>1, <1>2, <1>7, <1>9, <2>1, LiveStays
    <2> QED BY <2>3, <2>4, <2>5 DEF SerialOK
<1> QED BY <1>3, <1>8, <1>9

LEMMA InsertSerial ==
    ASSUME NEW c \in Procs, NEW A \in SUBSET AGVs,
           Base, SerialOK(th[c], A), Insert(c)
    PROVE  SerialOK(th[c], A)'
<1> DEFINE t == th[c]
<1>1. /\ t \in Threads /\ t.pc = "insert" /\ t.op \in {"track", "restore"}
      /\ t.agv \in AGVs /\ ~t.failed /\ t.agv \notin tracked
      /\ PhaseOK(t) /\ FiredOK(t, A) /\ WantOK(t, A) /\ Live(t)
    BY OneProc DEF Insert, PlaceOK, GotOK, Tracking, SerialOK, PhaseOK
<1>2. /\ UNCHANGED <<up, cstarted, fstarted, connUnsub, subs, due, hooks>>
      /\ tracked' = tracked \cup {t.agv}
      /\ unsubs' = [unsubs EXCEPT ![t.agv] = t.got]
    BY <1>1 DEF Insert, LostRace
<1>3. ASSUME th'[c].pc \notin {"sub", "insert"} PROVE Live(th[c])'
    <2>1. \A a \in tracked : unsubs'[a] = unsubs[a]
        BY <1>1, <1>2 DEF Base, TypeOK
    <2>2. unsubs'[t.agv] = t.got
        BY <1>1, <1>2 DEF Base, TypeOK
    <2> QED BY <1>1, <1>2, <1>3, <2>1, <2>2 DEF Live
<1>4. CASE t.op = "track"
    <2> DEFINE u == [t EXCEPT !.pc = "online", !.got = << >>]
    <2>1. th' = [th EXCEPT ![c] = u] /\ want' = want
        BY <1>1, <1>4 DEF Insert, LostRace, Notifies
    <2>2. /\ u.pc = "online" /\ u.op = "track" /\ u.agv = t.agv
          /\ u.todo = t.todo /\ ~u.failed
        BY <1>1, <1>4 DEF Threads
    <2> HIDE DEF u
    <2>3. th'[c] = u
        BY <2>1, OneProc
    <2>4. /\ Standing(t) = tracked /\ Standing(th[c])' = tracked \cup {t.agv}
        BY <1>2, <1>4, <2>2, <2>3 DEF Standing, Aside
    <2>5. FiredOK(th[c], A)'
        <3> SUFFICES ASSUME ~SubscribeMayFail, NEW a \in A
                     PROVE  hooks'[a] + Will(th'[c], a) =
                            IF a \in Standing(th[c])' THEN 1 ELSE 0
            BY DEF FiredOK
        <3>1. /\ hooks'[a] = hooks[a] /\ hooks[a] \in Int /\ Will(t, a) = 0
              /\ hooks[a] + Will(t, a) = IF a \in tracked THEN 1 ELSE 0
            BY <1>1, <1>2, <2>4, WillNothing DEF FiredOK, Base, TypeOK
        <3>2. Will(th'[c], a) = IF a = t.agv THEN 1 ELSE 0
            BY <2>2, <2>3 DEF Will
        <3> QED BY <1>1, <2>4, <3>1, <3>2
    <2>6. WantOK(th[c], A)'
        BY <1>1, <2>1, <2>2, <2>3, <2>4 DEF WantOK
    <2>7. PhaseOK(th[c])'
        BY <1>1, <1>2, <1>4, <2>2, <2>3 DEF PhaseOK, Removing
    <2> QED BY <1>3, <2>2, <2>3, <2>5, <2>6, <2>7 DEF SerialOK
<1>5. CASE t.op = "restore"
    <2> DEFINE u == [t EXCEPT !.got = << >>]
    <2>1. Return(c, u) /\ u.op = "restore" /\ ~u.failed
            /\ u \in Threads /\ u.todo = t.todo
        <3>1. ~LostRace(t) /\ ~Notifies(t)
            BY <1>1, <1>5 DEF LostRace, Notifies
        <3>2. /\ u \in Threads /\ u.op = t.op /\ u.failed = t.failed
              /\ u.todo = t.todo /\ Return(c, u)
            BY <1>1, <3>1, EmptySeq DEF Threads, Insert
        <3> HIDE DEF u
        <3> QED BY <1>1, <1>5, <3>1, <3>2
    <2> HIDE DEF u
    <2>2. th' = [th EXCEPT ![c] = Returned(u)] /\ want' = want
        BY <2>1, WantSame DEF Return
    <2>3. /\ th'[c].pc = "restoreNext" /\ th'[c].op = "restore"
          /\ th'[c].todo = t.todo /\ ~th'[c].failed
        <3>1. th'[c] = Returned(u)
            BY <2>2, OneProc
        <3> QED BY <2>1, <3>1, ReturnedFields
    <2>4. Standing(th[c])' = Standing(t)
        BY <1>1, <1>2, <1>5, <2>3 DEF Standing, Aside
    <2>5. FiredOK(th[c], A)' /\ WantOK(th[c], A)'
        BY <1>1, <1>2, <2>2, <2>3, <2>4, SameStanding
    <2>6. PhaseOK(th[c])'
        BY <1>1, <1>2, <1>5, <2>3 DEF PhaseOK, Removing
    <2> QED BY <1>3, <2>3, <2>5, <2>6 DEF SerialOK
<1> QED BY <1>1, <1>4, <1>5

LEMMA OnlineSerial ==
    ASSUME NEW c \in Procs, NEW A \in SUBSET AGVs,
           Base, SerialOK(th[c], A), Online(c)
    PROVE  SerialOK(th[c], A)'
<1> DEFINE t == th[c]
<1>1. /\ t \in Threads /\ t.pc = "online" /\ t.op = "track"
      /\ t.agv \in AGVs /\ ~t.failed /\ t.agv \in tracked
      /\ PhaseOK(t) /\ FiredOK(t, A) /\ WantOK(t, A) /\ Live(t)
    BY OneProc DEF Online, PlaceOK, GotOK, SerialOK, PhaseOK
<1>2. /\ UNCHANGED <<up, cstarted, fleetVars, subs, due>>
      /\ hooks' = [hooks EXCEPT ![t.agv] = @ + 1]
      /\ th'[c] = Idle /\ want' = [want EXCEPT ![t.agv] = "track"]
    BY <1>1, OneProc, ReturnedFields DEF Online, Return
<1>3. Standing(t) = tracked /\ Standing(th[c])' = tracked
    BY <1>1, <1>2, IdleFields DEF Standing, Aside, fleetVars
<1>4. FiredOK(th[c], A)'
    <2> SUFFICES ASSUME ~SubscribeMayFail, NEW a \in A
                 PROVE  hooks'[a] + Will(th'[c], a) =
                        IF a \in Standing(th[c])' THEN 1 ELSE 0
        BY DEF FiredOK
    <2>1. /\ hooks[a] \in Int /\ Will(t, a) = (IF a = t.agv THEN 1 ELSE 0)
          /\ hooks[a] + Will(t, a) = IF a \in tracked THEN 1 ELSE 0
        BY <1>1, <1>3 DEF FiredOK, Will, Base, TypeOK
    <2>2. hooks'[a] = hooks[a] + (IF a = t.agv THEN 1 ELSE 0)
        BY <1>2, <2>1 DEF Base, TypeOK
    <2>3. Will(th'[c], a) = 0
        BY <1>2, IdleFields, WillNothing
    <2> QED BY <1>3, <2>1, <2>2, <2>3
<1>5. WantOK(th[c], A)'
    BY <1>1, <1>2, <1>3, IdleFields DEF WantOK, Base, TypeOK
<1>6. PhaseOK(th[c])'
    BY <1>1, <1>2, IdleFields DEF PhaseOK, fleetVars, Removing
<1>7. Live(th[c])'
    BY <1>1, <1>2, IdleFields, LiveStays
<1> QED BY <1>4, <1>5, <1>6, <1>7 DEF SerialOK

\* Rollback, after a Subscribe that failed.
LEMMA RollbackSerial ==
    ASSUME NEW c \in Procs, NEW A \in SUBSET AGVs,
           Base, SerialOK(th[c], A), Rollback(c)
    PROVE  SerialOK(th[c], A)'
<1> DEFINE t == th[c]
           u == [t EXCEPT !.got = Front(@)]
<1>1. /\ t \in Threads /\ t.pc = "rollback" /\ t.op \in {"track", "restore"}
      /\ t.agv \in AGVs /\ t.agv \notin tracked /\ SubscribeMayFail
      /\ PhaseOK(t) /\ FiredOK(t, A) /\ WantOK(t, A) /\ Live(t)
    BY OneProc DEF Rollback, PlaceOK, GotOK, Tracking, SerialOK, PhaseOK
<1>2. /\ UNCHANGED <<up, cstarted, fleetVars, due, hooks, want>>
      /\ \A h \in subs : h.filter[1] # t.agv => h \in subs'
      /\ th' = [th EXCEPT ![c] = u]
    BY CancelOneSpares DEF Rollback, ghosts
<1>3. /\ u.pc = "rollback" /\ u.op = t.op /\ u.agv = t.agv
      /\ u.todo = t.todo /\ u.failed = t.failed
    BY <1>1 DEF Threads
<1> HIDE DEF u
<1>4. th'[c] = u
    BY <1>2, OneProc
<1>5. Standing(th[c])' = Standing(t)
    BY <1>1, <1>2, <1>3, <1>4 DEF Standing, Aside, fleetVars
<1>6. FiredOK(th[c], A)' /\ WantOK(th[c], A)'
    BY <1>1, <1>2, <1>5 DEF FiredOK, WantOK
<1>7. PhaseOK(th[c])'
    BY <1>1, <1>2, <1>3, <1>4 DEF PhaseOK, fleetVars
<1>8. Live(th[c])'
    BY <1>1, <1>2, <1>3, <1>4, EntriesSpared
<1> QED BY <1>6, <1>7, <1>8 DEF SerialOK

LEMMA RollbackEndSerial ==
    ASSUME NEW c \in Procs, NEW A \in SUBSET AGVs,
           Base, SerialOK(th[c], A), RollbackEnd(c)
    PROVE  SerialOK(th[c], A)'
<1> DEFINE t == th[c]
<1>1. /\ t \in Threads /\ t.pc = "rollback" /\ t.op \in {"track", "restore"}
      /\ t.failed /\ SubscribeMayFail
      /\ PhaseOK(t) /\ WantOK(t, A) /\ Live(t)
    BY OneProc DEF RollbackEnd, PlaceOK, Tracking, SerialOK, PhaseOK
<1>2. /\ UNCHANGED <<up, cstarted, fleetVars, subs, due, hooks, want>>
      /\ th'[c] = Idle
    BY <1>1, OneProc, ReturnedFields DEF RollbackEnd, Return
<1>3. Standing(th[c])' \subseteq Standing(t)
    BY <1>1, <1>2, IdleFields DEF Standing, Aside, fleetVars
<1>4. FiredOK(th[c], A)' /\ WantOK(th[c], A)'
    BY <1>1, <1>2, <1>3 DEF FiredOK, WantOK
<1>5. PhaseOK(th[c])'
    BY <1>1, <1>2, IdleFields DEF PhaseOK, fleetVars, Removing
<1>6. Live(th[c])'
    BY <1>1, <1>2, IdleFields, LiveStays
<1> QED BY <1>4, <1>5, <1>6 DEF SerialOK

\* Untrack and Stop.
LEMMA RemoveSerial ==
    ASSUME NEW c \in Procs, NEW A \in SUBSET AGVs,
           Base, SerialOK(th[c], A), Remove(c)
    PROVE  SerialOK(th[c], A)'
<1> DEFINE t == th[c]
<1>1. /\ t \in Threads /\ t.pc = "remove" /\ t.op \in {"untrack", "stop"}
      /\ t.agv \in AGVs /\ t.got = << >> /\ (t.failed => t.op = "stop")
      /\ PhaseOK(t) /\ FiredOK(t, A) /\ WantOK(t, A) /\ Live(t)
    BY OneProc DEF Remove, PlaceOK, GotOK, Removing, Holding, SerialOK, PhaseOK
<1>2. UNCHANGED <<up, cstarted, fstarted, connUnsub, subs, due, hooks>>
    BY DEF Remove
<1>3. Standing(t) = tracked
    BY <1>1 DEF Standing, Aside
<1>4. CASE t.agv \in tracked
    <2> DEFINE u == [t EXCEPT !.pc = "unsub", !.got = unsubs[t.agv]]
    <2>1. /\ th' = [th EXCEPT ![c] = u] /\ want' = want
          /\ tracked' = tracked \ {t.agv}
          /\ unsubs' = [unsubs EXCEPT ![t.agv] = << >>]
        BY <1>4 DEF Remove
    <2>2. /\ u.pc = "unsub" /\ u.op = t.op /\ u.agv = t.agv
          /\ u.todo = t.todo /\ u.failed = t.failed
        BY <1>1 DEF Threads
    <2> HIDE DEF u
    <2>3. th'[c] = u
        BY <2>1, OneProc
    <2>4. Standing(th[c])' = tracked \ {t.agv}
        BY <1>1, <2>1, <2>2, <2>3 DEF Standing, Aside
    <2>5. FiredOK(th[c], A)'
        <3> SUFFICES ASSUME ~SubscribeMayFail, NEW a \in A
                     PROVE  hooks'[a] + Will(th'[c], a) =
                            IF a \in Standing(th[c])' THEN 1 ELSE 0
            BY DEF FiredOK
        <3>1. /\ hooks'[a] = hooks[a] /\ hooks[a] \in Int /\ Will(t, a) = 0
              /\ hooks[a] + Will(t, a) = IF a \in tracked THEN 1 ELSE 0
            BY <1>1, <1>2, <1>3, WillNothing DEF FiredOK, Base, TypeOK
        <3>2. Will(th'[c], a) = IF a = t.agv THEN -1 ELSE 0
            BY <2>2, <2>3 DEF Will
        <3> QED BY <1>4, <2>4, <3>1, <3>2
    <2>6. WantOK(th[c], A)'
        BY <1>1, <1>3, <2>1, <2>2, <2>3, <2>4 DEF WantOK
    <2>7. PhaseOK(th[c])'
        BY <1>1, <1>2, <2>1, <2>2, <2>3 DEF PhaseOK, Removing
    <2>8. \A a \in tracked' : unsubs'[a] = unsubs[a]
        BY <2>1 DEF Base, TypeOK
    <2>9. Live(th[c])'
        BY <1>1, <1>2, <2>1, <2>2, <2>3, <2>8 DEF Live
    <2> QED BY <2>5, <2>6, <2>7, <2>9 DEF SerialOK
<1>5. CASE t.agv \notin tracked /\ t.op = "untrack"
    <2>1. /\ th'[c] = Idle /\ want' = [want EXCEPT ![t.agv] = "untrack"]
          /\ UNCHANGED fleetVars
        <3>1. Return(c, t) /\ UNCHANGED fleetVars
            BY <1>2, <1>5 DEF Remove, fleetVars
        <3>2. th'[c] = Returned(t) /\ want' = [want EXCEPT ![t.agv] = "untrack"]
            BY <1>1, <1>5, <3>1, OneProc DEF Return
        <3> QED BY <1>1, <1>5, <3>1, <3>2, ReturnedFields
    <2>2. Standing(th[c])' = tracked
        BY <2>1, IdleFields DEF Standing, Aside, fleetVars
    <2>3. FiredOK(th[c], A)'
        BY <1>1, <1>2, <1>3, <2>1, <2>2, IdleFields, WillNothing DEF FiredOK
    <2>4. WantOK(th[c], A)'
        BY <1>1, <1>3, <1>5, <2>1, <2>2, IdleFields DEF WantOK, Base, TypeOK
    <2>5. PhaseOK(th[c])'
        BY <1>1, <1>2, <1>5, <2>1, IdleFields DEF PhaseOK, fleetVars, Removing
    <2>6. Live(th[c])'
        BY <1>1, <1>2, <1>5, <2>1, IdleFields, LiveStays
    <2> QED BY <2>3, <2>4, <2>5, <2>6 DEF SerialOK
<1>6. CASE t.agv \notin tracked /\ t.op = "stop"
    <2>1. /\ th'[c].pc = "stopNext" /\ th'[c].op = "stop"
          /\ th'[c].todo = t.todo /\ want' = want /\ UNCHANGED fleetVars
        <3>1. Return(c, t) /\ UNCHANGED fleetVars
            BY <1>2, <1>6 DEF Remove, fleetVars
        <3>2. th'[c] = Returned(t) /\ want' = want
            BY <1>6, <3>1, OneProc, WantSame DEF Return
        <3> QED BY <1>1, <1>6, <3>1, <3>2, ReturnedFields
    <2>2. Standing(th[c])' = tracked
        BY <2>1 DEF Standing, Aside, fleetVars
    <2>3. FiredOK(th[c], A)' /\ WantOK(th[c], A)'
        BY <1>1, <1>2, <1>3, <2>1, <2>2, SameStanding
    <2>5. PhaseOK(th[c])'
        BY <1>1, <1>2, <1>6, <2>1 DEF PhaseOK, fleetVars, Removing
    <2>6. Live(th[c])'
        BY <1>1, <1>2, <2>1, LiveStays
    <2> QED BY <2>3, <2>5, <2>6 DEF SerialOK
<1> QED BY <1>1, <1>4, <1>5, <1>6

LEMMA UnsubscribeSerial ==
    ASSUME NEW c \in Procs, NEW A \in SUBSET AGVs,
           Base, SerialOK(th[c], A), Unsubscribe(c)
    PROVE  SerialOK(th[c], A)'
<1> DEFINE t == th[c]
<1>1. /\ t \in Threads /\ t.pc = "unsub" /\ t.op \in {"untrack", "stop"}
      /\ t.agv \in AGVs /\ t.agv \notin tracked
      /\ PhaseOK(t) /\ FiredOK(t, A) /\ WantOK(t, A) /\ Live(t)
    BY OneProc DEF Unsubscribe, PlaceOK, GotOK, Removing, SerialOK, PhaseOK
<1>2. /\ UNCHANGED <<up, cstarted, fleetVars, due, hooks, want>>
      /\ \A h \in subs : h.filter[1] # t.agv => h \in subs'
    BY CancelOneSpares DEF Unsubscribe, ghosts
<1>3. PICK failed : th' = [th EXCEPT ![c] =
                        [t EXCEPT !.got = Front(@), !.failed = @ \/ failed]]
    BY DEF Unsubscribe
<1> DEFINE u == [t EXCEPT !.got = Front(@), !.failed = @ \/ failed]
<1>4. /\ u.pc = "unsub" /\ u.op = t.op /\ u.agv = t.agv /\ u.todo = t.todo
    BY <1>1 DEF Threads
<1>5. th'[c] = u
    BY <1>3, OneProc
<1> HIDE DEF u
<1>6. Standing(th[c])' = Standing(t)
    BY <1>1, <1>2, <1>4, <1>5 DEF Standing, Aside, fleetVars
<1>7. \A a \in AGVs : Will(th'[c], a) = Will(t, a)
    BY <1>1, <1>4, <1>5 DEF Will
<1>8. FiredOK(th[c], A)'
    BY <1>1, <1>2, <1>6, <1>7 DEF FiredOK
<1>9. WantOK(th[c], A)'
    BY <1>1, <1>2, <1>4, <1>5, <1>6 DEF WantOK
<1>10. PhaseOK(th[c])'
    BY <1>1, <1>2, <1>4, <1>5 DEF PhaseOK, fleetVars
<1>11. Live(th[c])'
    BY <1>1, <1>2, <1>4, <1>5, EntriesSpared
<1> QED BY <1>8, <1>9, <1>10, <1>11 DEF SerialOK

LEMMA OfflineSerial ==
    ASSUME NEW c \in Procs, NEW A \in SUBSET AGVs,
           Base, SerialOK(th[c], A), Offline(c)
    PROVE  SerialOK(th[c], A)'
<1> DEFINE t == th[c]
<1>1. /\ t \in Threads /\ t.pc = "unsub" /\ t.op \in {"untrack", "stop"}
      /\ t.agv \in AGVs /\ t.agv \notin tracked
      /\ PhaseOK(t) /\ FiredOK(t, A) /\ WantOK(t, A) /\ Live(t)
    BY OneProc DEF Offline, PlaceOK, GotOK, Removing, SerialOK, PhaseOK
<1>2. /\ UNCHANGED <<up, cstarted, fleetVars, subs, due>>
      /\ hooks' = [hooks EXCEPT ![t.agv] = @ - 1] /\ Return(c, t)
    BY DEF Offline
<1>3. th'[c] = Returned(t)
    BY <1>2, OneProc DEF Return
<1>4. \/ t.op = "untrack" /\ th'[c] = Idle
      \/ /\ t.op = "stop" /\ th'[c].op = "stop" /\ th'[c].pc = "stopNext"
         /\ th'[c].todo = t.todo
    BY <1>1, <1>3, ReturnedFields
<1>5. Standing(t) = tracked /\ Standing(th[c])' = tracked
    BY <1>1, <1>2, <1>4, IdleFields DEF Standing, Aside, fleetVars
<1>6. FiredOK(th[c], A)'
    <2> SUFFICES ASSUME ~SubscribeMayFail, NEW a \in A
                 PROVE  hooks'[a] + Will(th'[c], a) =
                        IF a \in Standing(th[c])' THEN 1 ELSE 0
        BY DEF FiredOK
    <2>1. /\ hooks[a] \in Int /\ Will(t, a) = (IF a = t.agv THEN -1 ELSE 0)
          /\ hooks[a] + Will(t, a) = IF a \in tracked THEN 1 ELSE 0
        BY <1>1, <1>5 DEF FiredOK, Will, Base, TypeOK
    <2>2. hooks'[a] = hooks[a] - (IF a = t.agv THEN 1 ELSE 0)
        BY <1>2, <2>1 DEF Base, TypeOK
    <2>3. Will(th'[c], a) = 0
        BY <1>4, IdleFields, WillNothing
    <2> QED BY <1>5, <2>1, <2>2, <2>3
<1>7. WantOK(th[c], A)'
    <2>1. CASE t.op = "untrack"
        <3>1. \/ want' = [want EXCEPT ![t.agv] = "untrack"]
              \/ want' = [want EXCEPT ![t.agv] = "none"]
            BY <1>1, <1>2, <2>1 DEF Return
        <3>2. want'[t.agv] # "track" /\ \A a \in AGVs \ {t.agv} : want'[a] = want[a]
            BY <1>1, <3>1 DEF Base, TypeOK
        <3> QED BY <1>1, <1>4, <1>5, <2>1, <3>2, IdleFields DEF WantOK
    <2>2. CASE t.op = "stop"
        BY <1>1, <1>2, <1>4, <1>5, <2>2, WantSame DEF WantOK
    <2> QED BY <1>1, <2>1, <2>2
<1>8. PhaseOK(th[c])'
    BY <1>1, <1>2, <1>4, IdleFields DEF PhaseOK, fleetVars, Removing
<1>9. Live(th[c])'
    BY <1>1, <1>2, <1>4, IdleFields, LiveStays
<1> QED BY <1>6, <1>7, <1>8, <1>9 DEF SerialOK

LEMMA StopSerial ==
    ASSUME NEW c \in Procs, NEW A \in SUBSET AGVs, Base, SerialOK(th[c], A),
           StopSnapshot(c) \/ StopEnd(c) \/ \E a \in AGVs : StopNext(c, a)
    PROVE  SerialOK(th[c], A)'
<1> DEFINE t == th[c]
<1>1. /\ t \in Threads /\ t.op = "stop"
      /\ PhaseOK(t) /\ FiredOK(t, A) /\ WantOK(t, A) /\ Live(t)
    BY OneProc DEF StopSnapshot, StopEnd, StopNext, PlaceOK, SerialOK, PhaseOK
<1>2. UNCHANGED <<up, cstarted, tracked, unsubs, due, hooks, want>>
    BY DEF StopSnapshot, StopEnd, StopNext, ghosts, fleetVars
<1>3. ASSUME th'[c].op = "stop", th[c].pc \notin {"online", "unsub"},
             th'[c].pc \notin {"online", "unsub"}
      PROVE  FiredOK(th[c], A)' /\ WantOK(th[c], A)'
    <2>1. Standing(th[c])' = Standing(t)
        BY <1>1, <1>2, <1>3 DEF Standing, Aside
    <2> QED BY <1>1, <1>2, <1>3, <2>1, SameStanding
<1>4. CASE StopSnapshot(c)
    <2> DEFINE u == [t EXCEPT !.pc = "stopNext", !.todo = tracked]
    <2>1. th' = [th EXCEPT ![c] = u]
        BY <1>4 DEF StopSnapshot
    <2>2. u.pc = "stopNext" /\ u.op = "stop" /\ u.todo = tracked
        BY <1>1 DEF Threads
    <2> HIDE DEF u
    <2>3. th'[c] = u
        BY <2>1, OneProc
    <2>4. t.pc = "stop" /\ UNCHANGED <<fleetVars, subs>>
        BY <1>4 DEF StopSnapshot
    <2>5. PhaseOK(th[c])'
        BY <1>1, <1>2, <2>2, <2>3, <2>4 DEF PhaseOK, fleetVars, Removing
    <2>6. Live(th[c])'
        BY <1>1, <1>2, <2>2, <2>3, <2>4, LiveStays
    <2> QED BY <1>3, <2>2, <2>3, <2>4, <2>5, <2>6 DEF SerialOK
<1>5. CASE StopEnd(c)
    <2> DEFINE u == [t EXCEPT !.pc = "disconnect"]
    <2>1. th' = [th EXCEPT ![c] = u]
        BY <1>5 DEF StopEnd
    <2>2. u.pc = "disconnect" /\ u.op = "stop"
        BY <1>1 DEF Threads
    <2> HIDE DEF u
    <2>3. th'[c] = u
        BY <2>1, OneProc
    <2>4. t.pc = "stopNext" /\ t.todo = {} /\ fstarted' = FALSE
        BY <1>5 DEF StopEnd
    <2>5. tracked = {}
        BY <1>1, <2>4 DEF PhaseOK
    <2>6. PhaseOK(th[c])'
        BY <1>1, <1>2, <2>2, <2>3, <2>4, <2>5 DEF PhaseOK, Removing
    <2>7. Live(th[c])'
        BY <1>2, <2>2, <2>3, <2>4, <2>5 DEF Live
    <2> QED BY <1>3, <2>2, <2>3, <2>4, <2>6, <2>7 DEF SerialOK
<1>6. ASSUME NEW a \in AGVs, StopNext(c, a) PROVE SerialOK(th[c], A)'
    <2> DEFINE u == [t EXCEPT !.pc = "remove", !.agv = a, !.todo = @ \ {a}]
    <2>1. th' = [th EXCEPT ![c] = u]
        BY <1>6 DEF StopNext
    <2>2. /\ u.pc = "remove" /\ u.op = "stop" /\ u.agv = a
          /\ u.todo = t.todo \ {a}
        BY <1>1 DEF Threads
    <2> HIDE DEF u
    <2>3. th'[c] = u
        BY <2>1, OneProc
    <2>4. t.pc = "stopNext" /\ UNCHANGED <<fleetVars, subs>>
        BY <1>6 DEF StopNext
    <2>5. PhaseOK(th[c])'
        BY <1>1, <1>2, <2>2, <2>3, <2>4 DEF PhaseOK, fleetVars, Removing
    <2>6. Live(th[c])'
        BY <1>1, <1>2, <2>2, <2>3, <2>4, LiveStays
    <2> QED BY <1>3, <2>2, <2>3, <2>4, <2>5, <2>6 DEF SerialOK
<1> QED BY <1>4, <1>5, <1>6

LEMMA DisconnectSerial ==
    ASSUME NEW c \in Procs, NEW A \in SUBSET AGVs,
           Base, SerialOK(th[c], A), Disconnect(c)
    PROVE  SerialOK(th[c], A)'
<1> DEFINE t == th[c]
<1>1. /\ t.pc = "disconnect" /\ t.op = "stop" /\ tracked = {} /\ ~fstarted
      /\ ~cstarted /\ PhaseOK(t) /\ FiredOK(t, A)
    BY OneProc DEF Disconnect, PlaceOK, SerialOK, PhaseOK
<1>2. /\ UNCHANGED <<cstarted, fleetVars, hooks>> /\ up' = FALSE
      /\ want' = [a \in AGVs |-> "none"] /\ th'[c] = Idle
    BY OneProc DEF Disconnect
<1>3. Standing(t) = {} /\ Standing(th[c])' = {}
    BY <1>1, <1>2, IdleFields DEF Standing, Aside, fleetVars
<1>4. FiredOK(th[c], A)'
    BY <1>1, <1>2, <1>3, IdleFields, WillNothing DEF FiredOK
<1>5. WantOK(th[c], A)'
    BY <1>2 DEF WantOK
<1>6. PhaseOK(th[c])'
    BY <1>1, <1>2, IdleFields DEF PhaseOK, fleetVars, Removing
<1>7. Live(th[c])'
    BY <1>1, <1>2, IdleFields DEF Live, fleetVars
<1> QED BY <1>4, <1>5, <1>6, <1>7 DEF SerialOK

\* The reconnect callback.
LEMMA RestoreSnapshotSerial ==
    ASSUME NEW c \in Procs, NEW A \in SUBSET AGVs,
           Base, SerialOK(th[c], A), RestoreSnapshot(c)
    PROVE  SerialOK(th[c], A)'
<1> DEFINE t == th[c]
           u == [t EXCEPT !.pc = "start", !.todo = tracked]
           v == [t EXCEPT !.pc = "restoreNext"]
<1>1. /\ t \in Threads /\ t.op = "restore" /\ t.pc = "snapshot" /\ ~t.failed
      /\ t.todo = {} /\ PhaseOK(t) /\ FiredOK(t, A) /\ WantOK(t, A) /\ Live(t)
    BY OneProc DEF RestoreSnapshot, PlaceOK, SerialOK, PhaseOK
<1>2. UNCHANGED <<up, cstarted, due, hooks, want>>
    BY DEF RestoreSnapshot, ghosts
<1>3. /\ u.pc = "start" /\ u.op = "restore" /\ u.todo = tracked /\ ~u.failed
      /\ v.pc = "restoreNext" /\ v.op = "restore" /\ v.todo = {} /\ ~v.failed
    BY <1>1 DEF Threads
<1>4. \/ /\ th' = [th EXCEPT ![c] = u] /\ tracked' = {} /\ fstarted' = FALSE
      \/ /\ th' = [th EXCEPT ![c] = v] /\ ~fstarted /\ tracked = {}
         /\ UNCHANGED <<fleetVars, subs>>
    BY DEF RestoreSnapshot, AfterSnapshot
<1> HIDE DEF u, v
<1>5. CASE th' = [th EXCEPT ![c] = u] /\ tracked' = {} /\ fstarted' = FALSE
    <2>1. th'[c] = u
        BY <1>5, OneProc
    <2>2. Standing(th[c])' = Standing(t)
        BY <1>1, <1>2, <1>3, <1>5, <2>1 DEF Standing, Aside
    <2>3. FiredOK(th[c], A)' /\ WantOK(th[c], A)'
        BY <1>1, <1>2, <1>3, <2>1, <2>2, SameStanding
    <2>4. PhaseOK(th[c])'
        BY <1>1, <1>2, <1>3, <1>5, <2>1 DEF PhaseOK, Removing
    <2>5. Live(th[c])'
        BY <1>3, <1>5, <2>1 DEF Live
    <2> QED BY <2>3, <2>4, <2>5 DEF SerialOK
<1>6. CASE /\ th' = [th EXCEPT ![c] = v] /\ ~fstarted /\ tracked = {}
           /\ UNCHANGED <<fleetVars, subs>>
    <2>1. th'[c] = v
        BY <1>6, OneProc
    <2>2. Standing(th[c])' = Standing(t)
        BY <1>1, <1>3, <1>6, <2>1 DEF Standing, Aside, fleetVars
    <2>3. FiredOK(th[c], A)' /\ WantOK(th[c], A)'
        BY <1>1, <1>2, <1>3, <2>1, <2>2, SameStanding
    <2>4. PhaseOK(th[c])'
        BY <1>1, <1>2, <1>3, <1>6, <2>1 DEF PhaseOK, fleetVars, Removing
    <2>5. Live(th[c])'
        BY <1>1, <1>2, <1>3, <1>6, <2>1, LiveStays
    <2> QED BY <2>3, <2>4, <2>5 DEF SerialOK
<1> QED BY <1>4, <1>5, <1>6

\* FleetSession.Start, in Restore and after it.
LEMMA StartFleetEffect ==
    ASSUME up, NEW n, StartFleetOK(n) \/ StartFleetFails(n)
    PROVE  /\ subs \subseteq subs' /\ (fstarted => fstarted' /\ UNCHANGED connUnsub)
           /\ fstarted' => connUnsub' \in subs' \/ (fstarted /\ UNCHANGED connUnsub)
           /\ fstarted' \/ SubscribeMayFail
<1>1. CASE fstarted
    BY <1>1 DEF StartFleetOK, StartFleetFails
<1>2. CASE ~fstarted /\ StartFleetOK(n)
    BY <1>2 DEF StartFleetOK, SubscribeOK
<1>3. CASE ~fstarted /\ StartFleetFails(n)
    BY <1>3, FailsOnlyIf DEF StartFleetFails
<1> QED BY <1>1, <1>2, <1>3

LEMMA RestoreStartSerial ==
    ASSUME NEW c \in Procs, NEW A \in SUBSET AGVs,
           Base, SerialOK(th[c], A), RestoreStart(c)
    PROVE  SerialOK(th[c], A)'
<1> DEFINE t == th[c]
           u == [t EXCEPT !.pc = "restoreNext"]
<1>1. /\ t \in Threads /\ t.op = "restore" /\ t.pc = "start" /\ ~t.failed
      /\ ~fstarted /\ up /\ cstarted /\ tracked = {}
      /\ PhaseOK(t) /\ FiredOK(t, A) /\ WantOK(t, A) /\ Live(t)
    BY OneProc DEF RestoreStart, PlaceOK, SerialOK, PhaseOK
<1>2. /\ UNCHANGED <<up, cstarted, due, tracked, unsubs, hooks, want>>
      /\ fstarted' => connUnsub' \in subs'
      /\ fstarted' \/ SubscribeMayFail
    BY <1>1, StartFleetEffect DEF RestoreStart
<1>3. /\ u.pc = "restoreNext" /\ u.op = "restore" /\ u.todo = t.todo /\ ~u.failed
    BY <1>1 DEF Threads
<1>4. \/ th' = [th EXCEPT ![c] = u]
      \/ th' = [th EXCEPT ![c] = Idle] /\ SubscribeMayFail
    <2>1. StartFleetFails(t.call) => SubscribeMayFail
        BY <1>1, FailsOnlyIf DEF StartFleetFails
    <2> QED BY <2>1 DEF RestoreStart
<1> HIDE DEF u
<1>5. CASE th' = [th EXCEPT ![c] = u]
    <2>1. th'[c] = u
        BY <1>5, OneProc
    <2>2. Standing(th[c])' = Standing(t)
        BY <1>1, <1>2, <1>3, <2>1 DEF Standing, Aside
    <2>3. FiredOK(th[c], A)' /\ WantOK(th[c], A)'
        BY <1>1, <1>2, <1>3, <2>1, <2>2, SameStanding
    <2>4. PhaseOK(th[c])'
        BY <1>1, <1>2, <1>3, <2>1 DEF PhaseOK, Removing
    <2>5. Live(th[c])'
        BY <1>1, <1>2, <1>3, <2>1 DEF Live
    <2> QED BY <2>3, <2>4, <2>5 DEF SerialOK
<1>6. CASE th' = [th EXCEPT ![c] = Idle] /\ SubscribeMayFail
    <2>1. th'[c] = Idle
        BY <1>6, OneProc
    <2>2. Standing(th[c])' = {}
        BY <1>1, <1>2, <2>1, IdleFields DEF Standing, Aside
    <2>3. FiredOK(th[c], A)' /\ WantOK(th[c], A)'
        BY <1>6, <2>2 DEF FiredOK, WantOK
    <2>4. PhaseOK(th[c])'
        BY <1>1, <1>2, <1>6, <2>1, IdleFields DEF PhaseOK, Removing
    <2>5. Live(th[c])'
        BY <1>1, <1>2, <2>1, IdleFields DEF Live
    <2> QED BY <2>3, <2>4, <2>5 DEF SerialOK
<1> QED BY <1>4, <1>5, <1>6

LEMMA RestoreNextSerial ==
    ASSUME NEW c \in Procs, NEW A \in SUBSET AGVs,
           Base, SerialOK(th[c], A), NEW a \in AGVs, RestoreNext(c, a)
    PROVE  SerialOK(th[c], A)'
<1> DEFINE t == th[c]
           u == [t EXCEPT !.pc = "check", !.agv = a, !.todo = @ \ {a}]
<1>1. /\ t \in Threads /\ t.op = "restore" /\ t.pc = "restoreNext" /\ ~t.failed
      /\ a \in t.todo /\ PhaseOK(t) /\ FiredOK(t, A) /\ WantOK(t, A) /\ Live(t)
    BY OneProc DEF RestoreNext, PlaceOK, SerialOK, PhaseOK
<1>2. /\ UNCHANGED <<up, cstarted, fleetVars, subs, due, hooks, want>>
      /\ th' = [th EXCEPT ![c] = u]
    BY DEF RestoreNext, ghosts
<1>3. /\ u.pc = "check" /\ u.op = "restore" /\ u.agv = a
      /\ u.todo = t.todo \ {a} /\ ~u.failed
    BY <1>1 DEF Threads
<1> HIDE DEF u
<1>4. th'[c] = u
    BY <1>2, OneProc
<1>5. Standing(th[c])' = Standing(t)
    BY <1>1, <1>2, <1>3, <1>4 DEF Standing, Aside, fleetVars
<1>6. FiredOK(th[c], A)' /\ WantOK(th[c], A)'
    BY <1>1, <1>2, <1>3, <1>4, <1>5, SameStanding
<1>7. PhaseOK(th[c])'
    BY <1>1, <1>2, <1>3, <1>4 DEF PhaseOK, fleetVars, Removing
<1>8. Live(th[c])'
    BY <1>1, <1>2, <1>3, <1>4, LiveStays
<1> QED BY <1>6, <1>7, <1>8 DEF SerialOK

LEMMA RestoreEndSerial ==
    ASSUME NEW c \in Procs, NEW A \in SUBSET AGVs,
           Base, SerialOK(th[c], A), RestoreEnd(c)
    PROVE  SerialOK(th[c], A)'
<1> DEFINE t == th[c]
<1>1. /\ t \in Threads /\ t.op = "restore" /\ t.pc = "restoreNext" /\ t.todo = {}
      /\ up /\ cstarted
      /\ PhaseOK(t) /\ FiredOK(t, A) /\ WantOK(t, A) /\ Live(t)
    BY OneProc DEF RestoreEnd, PlaceOK, SerialOK, PhaseOK
<1>2. /\ UNCHANGED <<up, cstarted, tracked, unsubs, due, hooks, want>>
      /\ th'[c] = Idle
      /\ StartFleetOK(t.call) \/ StartFleetFails(t.call)
    BY <1>1, OneProc DEF RestoreEnd
<1>3. Standing(th[c])' = Standing(t)
    BY <1>1, <1>2, IdleFields DEF Standing, Aside
<1>4. FiredOK(th[c], A)' /\ WantOK(th[c], A)'
    BY <1>1, <1>2, <1>3, IdleFields, SameStanding
<1>5. /\ subs \subseteq subs' /\ (fstarted' \/ SubscribeMayFail)
      /\ fstarted' => connUnsub' \in subs' \/ (fstarted /\ UNCHANGED connUnsub)
    BY <1>1, <1>2, StartFleetEffect
<1>6. PhaseOK(th[c])'
    BY <1>1, <1>2, <1>5, IdleFields DEF PhaseOK, Removing
<1>7. Live(th[c])'
    BY <1>1, <1>2, <1>5, IdleFields DEF Live
<1> QED BY <1>4, <1>6, <1>7 DEF SerialOK

\* A call begins.
LEMMA BeginSerial ==
    ASSUME NEW c \in Procs, NEW A \in SUBSET AGVs,
           Base, SerialOK(th[c], A), NEW t \in Threads, Begin(c, t),
           UNCHANGED <<up, fleetVars, subs, hooks, want>>,
           t.todo = {}, ~t.failed, cstarted,
           \/ /\ t.op = "track" /\ t.pc = "check" /\ UNCHANGED <<cstarted, due>>
           \/ /\ t.op = "untrack" /\ t.pc = "remove" /\ UNCHANGED <<cstarted, due>>
           \/ /\ t.op = "stop" /\ t.pc = "stop" /\ ~cstarted' /\ UNCHANGED due
           \/ /\ t.op = "restore" /\ t.pc = "snapshot" /\ UNCHANGED cstarted
    PROVE  SerialOK(th[c], A)'
<1> DEFINE u == [t EXCEPT !.call = calls + 1]
<1>1. /\ th[c] = Idle /\ th' = [th EXCEPT ![c] = u]
      /\ PhaseOK(Idle) /\ FiredOK(Idle, A) /\ WantOK(Idle, A) /\ Live(Idle)
    BY DEF Begin, SerialOK
<1>2. u.pc = t.pc /\ u.op = t.op /\ u.todo = {} /\ ~u.failed
    BY DEF Threads
<1> HIDE DEF u
<1>3. th'[c] = u
    BY <1>1, OneProc
<1>4. Standing(th[c])' = Standing(th[c])
    BY <1>1, <1>2, <1>3, IdleFields DEF Standing, Aside, fleetVars
<1>5. FiredOK(th[c], A)' /\ WantOK(th[c], A)'
    BY <1>1, <1>2, <1>3, <1>4, IdleFields, SameStanding
<1>6. PhaseOK(th[c])'
    BY <1>1, <1>2, <1>3, IdleFields DEF PhaseOK, fleetVars, Removing
<1>7. Live(th[c])'
    <2>1. CASE t.op = "restore"
        BY <1>2, <1>3, <2>1 DEF Live
    <2>2. CASE t.op # "restore"
        BY <1>1, <1>2, <1>3, <2>2, IdleFields, LiveStays
    <2> QED BY <2>1, <2>2
<1> QED BY <1>5, <1>6, <1>7 DEF SerialOK

LEMMA CallSerial ==
    ASSUME NEW c \in Procs, NEW A \in SUBSET AGVs, Base, SerialOK(th[c], A),
           \/ CallStop(c) \/ (HandleReconnect(c) /\ cstarted)
           \/ \E o \in Calls, a \in AGVs : Call(c, o, a)
    PROVE  SerialOK(th[c], A)'
<1>1. CASE CallStop(c)
    <2> DEFINE t == [Idle EXCEPT !.op = "stop", !.pc = "stop"]
    <2>1. /\ t \in Threads /\ t.pc = "stop" /\ t.op = "stop" /\ t.todo = {}
          /\ ~t.failed
        BY IdleType, IdleFields DEF Threads
    <2>2. Begin(c, t) /\ cstarted /\ ~cstarted'
            /\ UNCHANGED <<up, fleetVars, subs, hooks, want, due>>
        BY <1>1 DEF CallStop, ghosts
    <2> HIDE DEF t
    <2> QED BY <2>1, <2>2, BeginSerial
<1>2. ASSUME NEW o \in Calls, NEW a \in AGVs, Call(c, o, a) PROVE SerialOK(th[c], A)'
    <2> DEFINE x == IF o = "track" THEN "check" ELSE "remove"
               t == [Idle EXCEPT !.op = o, !.agv = a, !.pc = x]
    <2>1. /\ Begin(c, t) /\ o \in {"track", "untrack"}
          /\ x = IF o = "track" THEN "check" ELSE "remove"
          /\ cstarted /\ UNCHANGED <<cstarted, up, fleetVars, subs, hooks, want, due>>
        BY <1>2 DEF Call, ghosts
    <2> HIDE DEF x
    <2>2. t \in Threads /\ t.pc = x /\ t.op = o /\ t.todo = {} /\ ~t.failed
        BY <2>1, IdleType, IdleFields DEF Threads
    <2> HIDE DEF t
    <2> QED BY <2>1, <2>2, BeginSerial
<1>3. CASE HandleReconnect(c) /\ cstarted
    <2> DEFINE t == [Idle EXCEPT !.op = "restore", !.pc = "snapshot"]
    <2>1. /\ t \in Threads /\ t.pc = "snapshot" /\ t.op = "restore" /\ t.todo = {}
          /\ ~t.failed
        BY IdleType, IdleFields DEF Threads
    <2>2. Begin(c, t) /\ UNCHANGED <<cstarted, up, fleetVars, subs, hooks, want>>
        BY <1>3 DEF HandleReconnect, ghosts
    <2> HIDE DEF t
    <2> QED BY <1>3, <2>1, <2>2, BeginSerial
<1> QED BY <1>1, <1>2, <1>3

LEMMA ClientSerial ==
    ASSUME NEW c \in Procs, NEW A \in SUBSET AGVs,
           Base, SerialOK(th[c], A), Start \/ StartFails \/ Reconnect
    PROVE  SerialOK(th[c], A)'
<1> DEFINE t == th[c]
<1>1. PhaseOK(t) /\ FiredOK(t, A) /\ WantOK(t, A) /\ Live(t) /\ PlaceOK(t) /\ t \in Threads
    BY OneProc DEF SerialOK
<1>2. UNCHANGED <<th, tracked, hooks, want>>
    BY DEF Start, StartFails, Reconnect, fleetVars, ghosts
<1>3. FiredOK(th[c], A)' /\ WantOK(th[c], A)'
    BY <1>1, <1>2 DEF FiredOK, WantOK, Standing
<1>4. CASE Reconnect
    <2>1. UNCHANGED <<up, cstarted, fleetVars>> /\ due' # 0
        BY <1>4 DEF Reconnect, Base, TypeOK
    <2>2. PhaseOK(th[c])'
        BY <1>1, <1>2, <2>1 DEF PhaseOK, fleetVars
    <2>3. Live(th[c])'
        BY <2>1 DEF Live
    <2> QED BY <1>3, <2>2, <2>3 DEF SerialOK
<1>5. ASSUME ~cstarted, ~up
      PROVE  t = Idle /\ tracked = {} /\ (~fstarted \/ SubscribeMayFail)
    <2>1. t.op = "none"
        BY <1>1, <1>5 DEF PhaseOK, Threads
    <2>2. t = Idle
        BY <2>1, OneProc DEF CallOK, PlaceOK, Threads, Tracking, Removing
    <2> QED BY <1>1, <1>5, <2>1, <2>2 DEF PhaseOK
<1>6. CASE Start
    <2>1. t = Idle /\ tracked = {} /\ (~fstarted \/ SubscribeMayFail)
        BY <1>5, <1>6 DEF Start
    <2>2. /\ up' /\ cstarted' /\ fstarted' /\ tracked' = {}
          /\ connUnsub' \in subs' \/ SubscribeMayFail
        BY <1>2, <1>6, <2>1 DEF Start
    <2>3. PhaseOK(th[c])'
        BY <1>1, <1>2, <2>1, <2>2, IdleFields DEF PhaseOK, Removing
    <2>4. Live(th[c])'
        BY <1>2, <2>1, <2>2, IdleFields DEF Live
    <2> QED BY <1>3, <2>3, <2>4 DEF SerialOK
<1>7. CASE StartFails
    <2>1. /\ t = Idle /\ tracked = {} /\ ~cstarted' /\ ~up' /\ SubscribeMayFail
        BY <1>5, <1>7 DEF StartFails
    <2>2. PhaseOK(th[c])'
        BY <1>1, <1>2, <2>1, IdleFields DEF PhaseOK, Removing
    <2>3. Live(th[c])'
        BY <1>2, <2>1, IdleFields DEF Live
    <2> QED BY <1>3, <2>2, <2>3 DEF SerialOK
<1> QED BY <1>4, <1>6, <1>7

-----------------------------------------------------------------------------
(***************************************************************************)
(* Several goroutines.                                                     *)
(***************************************************************************)
\* The call t is about AGV a.
Concerns(t, a) ==
    \/ t.op \in {"stop", "restore"}
    \/ t.op \in {"track", "untrack"} /\ t.agv = a

\* The AGVs no goroutine but c is about.
Free(c) == {a \in AGVs : \A q \in Procs \ {c} : ~Concerns(th[q], a)}

\* No goroutine but c is in Stop or Restore.
Leads(c) == \A q \in Procs \ {c} : th[q].op \notin {"stop", "restore"}

ApartOK == \A c \in Procs : Leads(c) => SerialOK(th[c], Free(c))

LEMMA IdleOp ==
    ASSUME Base, NEW p \in Procs
    PROVE  /\ th[p] = Idle <=> th[p].op = "none"
           /\ th[p].op \in {"none", "track", "untrack", "stop", "restore"}
           /\ th[p] = Idle <=> th[p].pc = "idle"
<1>1. CallOK(th[p]) /\ th[p] \in Threads /\ PlaceOK(th[p])
    BY CallFacts
<1>2. th[p].op = "none" => th[p].pc = "idle"
    BY <1>1 DEF PlaceOK, Threads, Tracking, Removing
<1> QED BY <1>1, <1>2, IdleFields DEF CallOK, Threads

\* A goroutine in a call has the AGVs of its call to itself.
LEMMA ActingLeads ==
    ASSUME Base, Apart, NEW c \in Procs, th[c] # Idle
    PROVE  /\ Leads(c)
           /\ th[c].op \in {"stop", "restore"} => \A q \in Procs \ {c} : th[q] = Idle
           /\ \A q \in Procs \ {c} : th[q] # Idle =>
                th[q].op \in {"track", "untrack"} /\ th[q].agv # th[c].agv
<1>1. ASSUME NEW q \in Procs \ {c}, th[q] # Idle
      PROVE  /\ {th[c].op, th[q].op} \subseteq {"track", "untrack"}
             /\ th[q].agv # th[c].agv
    BY <1>1 DEF Apart
<1>2. \A q \in Procs \ {c} : th[q] = Idle => th[q].op = "none"
    BY IdleFields
<1> QED BY <1>1, <1>2 DEF Leads

\* A step of a goroutine leaves the others where they are and stays in its call
\* until that returns.
LEMMA ReturnedStays ==
    ASSUME NEW t \in Threads, NEW u, u = Returned(t)
    PROVE  u = Idle \/ (u.op = t.op /\ u.agv = t.agv)
BY DEF Returned, Threads

StaysIn(c) ==
    /\ \A q \in Procs \ {c} : th'[q] = th[q]
    /\ \/ th'[c] = Idle
       \/ /\ th'[c].op = th[c].op
          /\ th[c].op \in {"track", "untrack"} => th'[c].agv = th[c].agv

LEMMA MovesIn ==
    ASSUME Base, NEW c \in Procs, NEW u, th' = [th EXCEPT ![c] = u],
           \/ u = Idle
           \/ /\ u.op = th[c].op
              /\ th[c].op \in {"track", "untrack"} => u.agv = th[c].agv
    PROVE  StaysIn(c)
BY DEF StaysIn, Base, TypeOK

LEMMA ReturnStays ==
    ASSUME Base, NEW c \in Procs, NEW t \in Threads, Return(c, t),
           t.op = th[c].op, t.agv = th[c].agv
    PROVE  StaysIn(c)
<1>1. th' = [th EXCEPT ![c] = Returned(t)]
    BY DEF Return
<1> QED BY <1>1, ReturnedStays, MovesIn

\* The steps that return, and those that go on.
LEMMA StepStays == ASSUME Base, NEW c \in Procs, Step(c) PROVE StaysIn(c)
<1> DEFINE t == th[c]
<1>1. t \in Threads /\ PlaceOK(t)
    BY CallFacts
<1>2. Return(c, t) => StaysIn(c)
    BY <1>1, ReturnStays
<1>3. ASSUME NEW u, th' = [th EXCEPT ![c] = u], u.op = t.op, u.agv = t.agv
      PROVE  StaysIn(c)
    BY <1>3, MovesIn
<1>4. CASE Check(c)
    <2>1. CASE t.agv \in tracked
        BY <1>2, <1>4, <2>1 DEF Check
    <2>2. CASE t.agv \notin tracked
        <3> DEFINE x == IF NChans = 0 THEN "insert" ELSE "sub"
                   u == [t EXCEPT !.pc = x]
        <3>1. th' = [th EXCEPT ![c] = u]
            BY <1>4, <2>2 DEF Check
        <3> HIDE DEF x
        <3>2. u.op = t.op /\ u.agv = t.agv
            BY <1>1 DEF Threads
        <3> HIDE DEF u
        <3> QED BY <1>3, <3>1, <3>2
    <2> QED BY <2>1, <2>2
<1>5. CASE Subscribe(c)
    <2> DEFINE h == [filter |-> NextFilter(t), call |-> t.call]
               x == IF Len(t.got) + 1 = NChans THEN "insert" ELSE "sub"
               u == [t EXCEPT !.got = Append(@, h), !.pc = x]
               v == AfterFailure(t)
    <2>1. th' = [th EXCEPT ![c] = u] \/ th' = [th EXCEPT ![c] = v]
        BY <1>5 DEF Subscribe
    <2> HIDE DEF h, x
    <2>2. u.op = t.op /\ u.agv = t.agv /\ v.op = t.op /\ v.agv = t.agv
        BY <1>1 DEF Threads, AfterFailure
    <2> HIDE DEF u, v
    <2> QED BY <1>3, <2>1, <2>2
<1>6. CASE Insert(c)
    <2> DEFINE v == [t EXCEPT !.pc = "rollback"]
               u == [t EXCEPT !.pc = "online", !.got = << >>]
               w == [t EXCEPT !.got = << >>]
    <2>1. \/ th' = [th EXCEPT ![c] = v] \/ th' = [th EXCEPT ![c] = u]
          \/ Return(c, w)
        BY <1>6 DEF Insert
    <2>2. /\ u.op = t.op /\ u.agv = t.agv /\ v.op = t.op /\ v.agv = t.agv
          /\ w.op = t.op /\ w.agv = t.agv /\ w \in Threads
        BY <1>1, EmptySeq DEF Threads
    <2> HIDE DEF u, v, w
    <2> QED BY <1>3, <2>1, <2>2, ReturnStays
<1>7. CASE Rollback(c)
    <2> DEFINE u == [t EXCEPT !.got = Front(@)]
    <2>1. th' = [th EXCEPT ![c] = u]
        BY <1>7 DEF Rollback
    <2>2. u.op = t.op /\ u.agv = t.agv
        BY <1>1 DEF Threads
    <2> HIDE DEF u
    <2> QED BY <1>3, <2>1, <2>2
<1>8. CASE RollbackEnd(c) \/ Online(c) \/ Offline(c)
    BY <1>2, <1>8 DEF RollbackEnd, Online, Offline
<1>9. CASE Remove(c)
    <2> DEFINE u == [t EXCEPT !.pc = "unsub", !.got = unsubs[t.agv]]
    <2>1. th' = [th EXCEPT ![c] = u] \/ Return(c, t)
        BY <1>9 DEF Remove
    <2>2. u.op = t.op /\ u.agv = t.agv
        BY <1>1 DEF Threads
    <2> HIDE DEF u
    <2> QED BY <1>2, <1>3, <2>1, <2>2
<1>10. CASE Unsubscribe(c)
    <2>1. PICK failed : th' = [th EXCEPT ![c] =
                            [t EXCEPT !.got = Front(@), !.failed = @ \/ failed]]
        BY <1>10 DEF Unsubscribe
    <2> DEFINE u == [t EXCEPT !.got = Front(@), !.failed = @ \/ failed]
    <2>2. u.op = t.op /\ u.agv = t.agv
        BY <1>1 DEF Threads
    <2> HIDE DEF u
    <2> QED BY <1>3, <2>1, <2>2 DEF u
<1>11. CASE StopSnapshot(c) \/ StopEnd(c) \/ RestoreSnapshot(c)
    <2> DEFINE u == [t EXCEPT !.pc = "stopNext", !.todo = tracked]
               v == [t EXCEPT !.pc = "disconnect"]
               w == [t EXCEPT !.pc = "restoreNext"]
               x == [t EXCEPT !.pc = "start", !.todo = tracked]
    <2>1. \/ th' = [th EXCEPT ![c] = u] \/ th' = [th EXCEPT ![c] = v]
          \/ th' = [th EXCEPT ![c] = w] \/ th' = [th EXCEPT ![c] = x]
        BY <1>11 DEF StopSnapshot, StopEnd, RestoreSnapshot
    <2>2. /\ u.op = t.op /\ u.agv = t.agv /\ v.op = t.op /\ v.agv = t.agv
          /\ w.op = t.op /\ w.agv = t.agv /\ x.op = t.op /\ x.agv = t.agv
        BY <1>1 DEF Threads
    <2> HIDE DEF u, v, w, x
    <2> QED BY <1>3, <2>1, <2>2
<1>12. CASE Disconnect(c) \/ RestoreStart(c) \/ RestoreEnd(c)
    <2> DEFINE u == [t EXCEPT !.pc = "restoreNext"]
    <2>1. th' = [th EXCEPT ![c] = Idle] \/ th' = [th EXCEPT ![c] = u]
        BY <1>12 DEF Disconnect, RestoreStart, RestoreEnd
    <2>2. u.op = t.op /\ u.agv = t.agv
        BY <1>1 DEF Threads
    <2> HIDE DEF u
    <2> QED BY <1>3, <2>1, <2>2, MovesIn
<1>13. ASSUME NEW a \in AGVs, StopNext(c, a) \/ RestoreNext(c, a)
       PROVE  StaysIn(c)
    <2> DEFINE u == [t EXCEPT !.pc = "remove", !.agv = a, !.todo = @ \ {a}]
               v == [t EXCEPT !.pc = "check", !.agv = a, !.todo = @ \ {a}]
    <2>1. th' = [th EXCEPT ![c] = u] \/ th' = [th EXCEPT ![c] = v]
        BY <1>13 DEF StopNext, RestoreNext
    <2>2. u.op = t.op /\ v.op = t.op
        BY <1>1 DEF Threads
    <2>3. t.op \notin {"track", "untrack"}
        BY <1>1, <1>13 DEF StopNext, RestoreNext, PlaceOK
    <2> HIDE DEF u, v
    <2> QED BY <2>1, <2>2, <2>3, MovesIn
<1> QED BY <1>4, <1>5, <1>6, <1>7, <1>8, <1>9, <1>10, <1>11, <1>12, <1>13 DEF Step

\* What a step of track or untrack leaves alone: every other AGV.
Leaves(c) ==
    /\ UNCHANGED <<up, cstarted, fstarted, connUnsub, due>>
    /\ \A a \in AGVs \ {th[c].agv} :
         /\ a \in tracked' <=> a \in tracked
         /\ hooks'[a] = hooks[a] /\ want'[a] = want[a]
    /\ \A h \in subs : h.filter[1] # th[c].agv => h \in subs'

LEMMA StepLeaves ==
    ASSUME NEW c \in Procs, Base, th[c].op \in {"track", "untrack"}, Step(c)
    PROVE  Leaves(c)
<1> DEFINE t == th[c]
<1>1. /\ c \in Procs /\ t \in Threads /\ PlaceOK(t) /\ GotOK(t)
      /\ hooks \in [AGVs -> Int]
      /\ want \in [AGVs -> {"none", "track", "untrack"}]
    BY OneProc DEF Base, TypeOK
<1>2. ASSUME NEW u, Return(c, u), u.agv = t.agv
      PROVE  \A a \in AGVs \ {t.agv} : want'[a] = want[a]
    BY <1>1, <1>2 DEF Return
<1>3. CASE Check(c) \/ Subscribe(c)
    <2>1. /\ UNCHANGED <<up, cstarted, fleetVars, due, hooks>>
          /\ subs \subseteq subs'
        BY <1>3 DEF Check, Subscribe, SubscribeOK, SubscribeFails, ghosts
    <2>2. \A a \in AGVs \ {t.agv} : want'[a] = want[a]
        BY <1>2, <1>3 DEF Check, Subscribe, ghosts
    <2> QED BY <2>1, <2>2 DEF Leaves, fleetVars
<1>4. CASE Insert(c)
    <2> DEFINE u == [t EXCEPT !.got = << >>]
    <2>1. /\ UNCHANGED <<up, cstarted, fstarted, connUnsub, subs, due, hooks>>
          /\ tracked' \in {tracked, tracked \cup {t.agv}}
          /\ want' = want \/ Return(c, u)
        BY <1>4 DEF Insert
    <2>2. u.agv = t.agv
        BY <1>1 DEF Threads
    <2> HIDE DEF u
    <2>3. \A a \in AGVs \ {t.agv} : want'[a] = want[a]
        BY <1>2, <2>1, <2>2
    <2> QED BY <2>1, <2>3 DEF Leaves
<1>5. CASE Online(c) \/ Offline(c)
    <2>1. /\ UNCHANGED <<up, cstarted, fleetVars, subs, due>>
          /\ \A a \in AGVs \ {t.agv} : hooks'[a] = hooks[a]
        BY <1>1, <1>5 DEF Online, Offline
    <2>2. \A a \in AGVs \ {t.agv} : want'[a] = want[a]
        BY <1>2, <1>5 DEF Online, Offline
    <2> QED BY <2>1, <2>2 DEF Leaves, fleetVars
<1>6. CASE Remove(c)
    <2>1. /\ UNCHANGED <<up, cstarted, fstarted, connUnsub, subs, due, hooks>>
          /\ tracked' \in {tracked, tracked \ {t.agv}}
          /\ want' = want \/ Return(c, t)
        BY <1>6 DEF Remove
    <2> QED BY <1>2, <2>1 DEF Leaves
<1>7. CASE Unsubscribe(c) \/ Rollback(c)
    BY <1>7, CancelOneSpares DEF Unsubscribe, Rollback, Leaves, fleetVars, ghosts
<1>8. CASE RollbackEnd(c)
    BY <1>2, <1>8 DEF RollbackEnd, Leaves, fleetVars
<1>9. ~(StopSnapshot(c) \/ StopEnd(c) \/ Disconnect(c) \/ RestoreSnapshot(c)
          \/ RestoreStart(c) \/ RestoreEnd(c))
    BY <1>1 DEF StopSnapshot, StopEnd, Disconnect, RestoreSnapshot,
       RestoreStart, RestoreEnd, PlaceOK
<1>10. \A a \in AGVs : ~(StopNext(c, a) \/ RestoreNext(c, a))
    BY <1>1 DEF StopNext, RestoreNext, PlaceOK
<1> QED BY <1>3, <1>4, <1>5, <1>6, <1>7, <1>8, <1>9, <1>10 DEF Step

\* The others' calls are not disturbed: what this one changes is about its own
\* AGV, which becomes theirs to know of when the call returns.
LEMMA OthersKeep ==
    ASSUME Base, Base', NEW c \in Procs, NEW q \in Procs \ {c},
           th[c].op \in {"track", "untrack"}, StaysIn(c), Leaves(c),
           th[q] # Idle =>
             th[q].op \in {"track", "untrack"} /\ th[q].agv # th[c].agv,
           PhaseOK(th[c]), SerialOK(th[c], Free(c))', SerialOK(th[q], Free(q))
    PROVE  SerialOK(th[q], Free(q))'
<1> DEFINE t == th[q]
           b == th[c].agv
<1>1. /\ t \in Threads /\ PlaceOK(t) /\ GotOK(t) /\ b \in AGVs
      /\ t.op \in {"none", "track", "untrack"} /\ (t = Idle <=> t.op = "none")
      /\ PhaseOK(t) /\ FiredOK(t, Free(q)) /\ WantOK(t, Free(q)) /\ Live(t)
    <2>1. /\ CallOK(th[c]) /\ CallOK(t) /\ t.op \in {"none", "track", "untrack"}
          /\ (t = Idle <=> t.op = "none")
        BY CallFacts, IdleOp, IdleFields
    <2>2. b \in AGVs
        BY <2>1 DEF CallOK, PlaceOK, GotOK, Threads, Tracking, Removing, Idle
    <2> QED BY <2>1, <2>2, CallFacts DEF SerialOK
<1>2. /\ th'[q] = t /\ UNCHANGED <<up, cstarted, fstarted, connUnsub, due>>
      /\ \A a \in AGVs \ {b} :
           (a \in tracked' <=> a \in tracked) /\ hooks'[a] = hooks[a]
             /\ want'[a] = want[a]
      /\ \A h \in subs : h.filter[1] # b => h \in subs'
    BY DEF StaysIn, Leaves
<1>3. cstarted /\ up /\ (fstarted \/ SubscribeMayFail)
    BY CallFacts DEF PhaseOK, PlaceOK
<1>4. th'[c].op \in {"none", "track", "untrack"} /\ th'[c].pc # "snapshot"
    <2>1. th'[c].op \in {"none", "track", "untrack"}
        BY IdleFields DEF StaysIn
    <2>2. CallOK(th[c])'
        BY DEF Base, CallsOK
    <2> QED BY <2>1, <2>2 DEF CallOK, PlaceOK
<1>5. t.pc \in Tracking \cup Removing \cup {"online"} => t.agv \in AGVs \ {b}
    BY <1>1, IdleFields DEF GotOK, Tracking, Removing
<1>6. PhaseOK(th[q])'
    BY <1>1, <1>2, <1>3, <1>5 DEF PhaseOK, PlaceOK, Tracking, Removing
<1>7. Aside(t) = {} /\ Standing(th[q])' = tracked' /\ Standing(t) = tracked
    BY <1>1, <1>2 DEF Standing, Aside
<1>8. ASSUME NEW a \in Free(q)', a # b
      PROVE  a \in Free(q) /\ a \in AGVs \ {b}
    <2>1. \A p \in Procs \ {q, c} : th'[p] = th[p]
        BY DEF StaysIn
    <2>2. ~Concerns(th[c], a)
        BY <1>8 DEF Concerns
    <2> QED BY <1>8, <2>1, <2>2 DEF Free, Concerns
<1>9. ASSUME b \in Free(q)'
      PROVE  th'[c] = Idle /\ b \in Free(c)'
    <2>1. ~Concerns(th'[c], b)
        BY <1>9 DEF Free
    <2>2. th'[c] = Idle
        BY <2>1 DEF StaysIn, Concerns
    <2>3. ~Concerns(th'[q], b)
        BY <1>1, <1>2, IdleFields DEF Concerns
    <2>4. \A p \in Procs \ {c} : ~Concerns(th'[p], b)
        BY <1>9, <2>3 DEF Free
    <2> QED BY <1>1, <2>2, <2>4 DEF Free
<1>10. ASSUME th'[c] = Idle
       PROVE  Standing(th[c])' = tracked'
    BY <1>10, IdleFields DEF Standing, Aside
<1>11. FiredOK(th[q], Free(q))'
    <2> SUFFICES ASSUME ~SubscribeMayFail, NEW a \in Free(q)'
                 PROVE  hooks'[a] + Will(th'[q], a) = IF a \in tracked' THEN 1 ELSE 0
        BY <1>7 DEF FiredOK
    <2>1. CASE a = b
        <3>1. /\ hooks'[a] + Will(Idle, a) = IF a \in tracked' THEN 1 ELSE 0
              /\ Will(Idle, a) = 0
            BY <1>9, <1>10, <2>1, IdleFields, WillNothing DEF SerialOK, FiredOK
        <3>2. Will(t, a) = 0
            BY <1>1, <1>5, <2>1 DEF Will, Removing
        <3> QED BY <1>2, <3>1, <3>2
    <2>2. CASE a # b
        <3>1. hooks[a] + Will(t, a) = IF a \in tracked THEN 1 ELSE 0
            BY <1>1, <1>7, <1>8, <2>2 DEF FiredOK
        <3> QED BY <1>2, <1>8, <2>2, <3>1
    <2> QED BY <2>1, <2>2
<1>12. WantOK(th[q], Free(q))'
    <2> SUFFICES ASSUME NEW a \in Free(q)'
                 PROVE  /\ want'[a] = "track" =>
                             \/ a \in tracked' \/ SubscribeMayFail
                             \/ t.pc = "unsub" /\ t.agv = a
                        /\ want'[a] = "untrack" =>
                             a \notin tracked' \/ (t.pc = "online" /\ t.agv = a)
        BY <1>2, <1>7 DEF WantOK
    <2>1. CASE a = b
        <3>1. th'[c] = Idle /\ a \in Free(c)' /\ Standing(th[c])' = tracked'
            BY <1>9, <1>10, <2>1
        <3> QED BY <3>1, IdleFields DEF SerialOK, WantOK
    <2>2. CASE a # b
        BY <1>1, <1>2, <1>7, <1>8, <2>2 DEF WantOK
    <2> QED BY <2>1, <2>2
<1>13. Live(th[q])'
    <2> SUFFICES ASSUME due' = 0
                 PROVE  /\ fstarted' => connUnsub' \in subs' \/ SubscribeMayFail
                        /\ \A a \in tracked' : Elems(unsubs[a])' \subseteq subs'
                        /\ t.pc \in {"sub", "insert"} => Elems(t.got) \subseteq subs'
        BY <1>2 DEF Live
    <2>1. /\ fstarted' => connUnsub' \in subs' \/ SubscribeMayFail
          /\ \A a \in tracked' : Elems(unsubs[a])' \subseteq subs'
        BY <1>4 DEF SerialOK, Live
    <2>2. ASSUME t.pc \in {"sub", "insert"} PROVE Elems(t.got) \subseteq subs'
        <3>1. Elems(t.got) \subseteq subs
            BY <1>1, <1>2, <2>2 DEF Live
        <3>2. \A h \in Elems(t.got) : h.filter[1] = t.agv
            BY <1>1 DEF GotOK, Elems
        <3> QED BY <1>2, <1>5, <2>2, <3>1, <3>2 DEF Tracking
    <2> QED BY <2>1, <2>2
<1> QED BY <1>6, <1>11, <1>12, <1>13 DEF SerialOK

\* Goroutines that are in the same place agree.
LEMMA SamePlace ==
    ASSUME NEW c \in Procs, NEW q \in Procs, th'[q] = th'[c],
           Free(q)' \subseteq Free(c)', SerialOK(th[c], Free(c))'
    PROVE  SerialOK(th[q], Free(q))'
BY DEF SerialOK, PhaseOK, FiredOK, WantOK, Live, Standing, Aside

\* While the others are idle, every AGV is free.
LEMMA AllFree ==
    ASSUME NEW c \in Procs, \A q \in Procs \ {c} : th[q] = Idle
    PROVE  Free(c) = AGVs
BY IdleFields DEF Free, Concerns

LEMMA StepSerial ==
    ASSUME NEW c \in Procs, NEW A \in SUBSET AGVs, Base, SerialOK(th[c], A), Step(c)
    PROVE  SerialOK(th[c], A)'
BY CheckSerial, SubscribeSerial, InsertSerial, RollbackSerial, RollbackEndSerial,
   OnlineSerial, RemoveSerial, UnsubscribeSerial, OfflineSerial, StopSerial,
   DisconnectSerial, RestoreSnapshotSerial, RestoreStartSerial,
   RestoreNextSerial, RestoreEndSerial
   DEF Step

LEMMA StepInCall ==
    ASSUME Base, NEW c \in Procs, Step(c)
    PROVE  th[c] # Idle
BY IdleFields DEF Step, Check, Subscribe, Insert, Rollback, RollbackEnd, Online,
   Remove, Unsubscribe, Offline, StopSnapshot, StopEnd, Disconnect,
   RestoreSnapshot, RestoreStart, RestoreEnd, StopNext, RestoreNext

LEMMA StepApart ==
    ASSUME Base, Base', Apart, ApartOK, NEW c \in Procs, Step(c)
    PROVE  ApartOK'
<1>1. /\ Leads(c) /\ SerialOK(th[c], Free(c)) /\ StaysIn(c)
      /\ th[c].op \in {"stop", "restore"} => \A q \in Procs \ {c} : th[q] = Idle
      /\ \A q \in Procs \ {c} : th[q] # Idle =>
           th[q].op \in {"track", "untrack"} /\ th[q].agv # th[c].agv
    BY StepInCall, ActingLeads, StepStays DEF ApartOK
<1>2. th[c].op \in {"track", "untrack", "stop", "restore"}
    BY StepInCall, IdleOp
<1>3. SerialOK(th[c], Free(c))'
    <2>1. PICK A \in SUBSET AGVs : A = Free(c)
        BY DEF Free
    <2>2. SerialOK(th[c], A)'
        <3>1. SerialOK(th[c], A)
            BY <1>1, <2>1 DEF SerialOK
        <3> QED BY <1>1, <3>1, StepSerial
    <2>3. Free(c)' = A
        BY <1>1, <2>1 DEF StaysIn, Free
    <2> QED BY <2>2, <2>3 DEF SerialOK, FiredOK, WantOK
<1>4. ASSUME NEW q \in Procs \ {c}, Leads(q)', th[c].op \in {"track", "untrack"}
      PROVE  SerialOK(th[q], Free(q))'
    <2>1. Leads(q)
        BY <1>1, <1>4 DEF Leads, StaysIn
    <2>2. SerialOK(th[q], Free(q)) /\ PhaseOK(th[c]) /\ Leaves(c)
        BY <1>1, <1>4, <2>1, StepLeaves DEF ApartOK, SerialOK
    <2> QED BY <1>1, <1>3, <1>4, <2>2, OthersKeep
<1>5. ASSUME NEW q \in Procs \ {c}, Leads(q)', th[c].op \in {"stop", "restore"}
      PROVE  SerialOK(th[q], Free(q))'
    <2>1. \A p \in Procs \ {c} : th'[p] = Idle
        BY <1>1, <1>5 DEF StaysIn
    <2>2. th'[c] = Idle
        BY <1>1, <1>5 DEF StaysIn, Leads
    <2>3. Free(q)' \subseteq Free(c)'
        BY <2>1, AllFree, IdleFields DEF Free, Concerns
    <2> QED BY <1>3, <2>1, <2>2, <2>3, SamePlace
<1> QED BY <1>2, <1>3, <1>4, <1>5 DEF ApartOK

\* A call begins.  Stop and Restore find every other goroutine idle.
LEMMA BeginApart ==
    ASSUME Base, Apart', ApartOK, NEW c \in Procs,
           CallStop(c) \/ (HandleReconnect(c) /\ cstarted)
    PROVE  ApartOK'
<1>1. /\ th[c] = Idle /\ \A q \in Procs \ {c} : th'[q] = th[q]
      /\ th'[c].op \in {"stop", "restore"}
    <2> DEFINE t == [Idle EXCEPT !.op = "stop", !.pc = "stop"]
               u == [Idle EXCEPT !.op = "restore", !.pc = "snapshot"]
               v == [t EXCEPT !.call = calls + 1]
               w == [u EXCEPT !.call = calls + 1]
    <2>1. Begin(c, t) \/ Begin(c, u)
        BY DEF CallStop, HandleReconnect
    <2>2. v.op = "stop" /\ w.op = "restore"
        BY DEF Idle
    <2>3. /\ th[c] = Idle
          /\ th' = [th EXCEPT ![c] = v] \/ th' = [th EXCEPT ![c] = w]
        BY <2>1 DEF Begin
    <2> HIDE DEF t, u, v, w
    <2> QED BY <2>2, <2>3 DEF Base, TypeOK
<1>2. \A q \in Procs \ {c} : th[q] = Idle
    <2> SUFFICES ASSUME NEW q \in Procs \ {c}, th'[q] # Idle PROVE FALSE
        BY <1>1
    <2>1. th'[c] # Idle
        BY <1>1, IdleFields
    <2> QED BY <1>1, <2>1 DEF Apart
<1>3. Leads(c) /\ Free(c) = AGVs /\ Free(c)' = AGVs
    BY <1>1, <1>2, AllFree, IdleFields DEF Leads, Free, Concerns
<1>4. SerialOK(th[c], AGVs)'
    <2>1. SerialOK(th[c], AGVs)
        BY <1>3 DEF ApartOK, SerialOK
    <2> QED BY <2>1, CallSerial
<1>5. SerialOK(th[c], Free(c))'
    BY <1>3, <1>4 DEF SerialOK, FiredOK, WantOK
<1>6. \A q \in Procs \ {c} : ~Leads(q)'
    BY <1>1 DEF Leads
<1> QED BY <1>5, <1>6 DEF ApartOK

LEMMA CallApart ==
    ASSUME Base, ApartOK, NEW c \in Procs, NEW o \in Calls, NEW b \in AGVs,
           Call(c, o, b)
    PROVE  ApartOK'
<1>1. /\ th[c] = Idle /\ \A q \in Procs \ {c} : th'[q] = th[q]
      /\ UNCHANGED <<up, cstarted, fleetVars, subs, due, hooks, want>>
    BY DEF Call, Begin, ghosts, Base, TypeOK
<1>2. SUFFICES ASSUME NEW q \in Procs, Leads(q)' PROVE SerialOK(th[q], Free(q))'
    BY DEF ApartOK
<1>3. Leads(q) /\ SerialOK(th[q], Free(q)) /\ Free(q)' \subseteq Free(q)
    <2>1. Leads(q)
        BY <1>1, <1>2, IdleFields DEF Leads
    <2>2. Free(q)' \subseteq Free(q)
        BY <1>1, IdleFields DEF Free, Concerns
    <2> QED BY <2>1, <2>2 DEF ApartOK
<1>4. CASE q = c
    <2>1. PICK A \in SUBSET AGVs : A = Free(c)
        BY DEF Free
    <2>2. SerialOK(th[c], A)
        BY <1>3, <1>4, <2>1 DEF SerialOK
    <2>3. SerialOK(th[c], A)'
        BY <2>2, CallSerial
    <2>4. Free(c)' = A
        BY <1>1, <2>1 DEF Free
    <2> QED BY <1>4, <2>3, <2>4 DEF SerialOK, FiredOK, WantOK
<1>5. CASE q # c
    BY <1>1, <1>3, <1>5 DEF SerialOK, PhaseOK, FiredOK, WantOK, Live, Standing, Aside,
       fleetVars
<1> QED BY <1>4, <1>5

\* Steps of the client and the transport.
LEMMA ClientApart ==
    ASSUME Base, ApartOK,
           \/ Start \/ StartFails \/ Reconnect
           \/ \E c \in Procs : HandleReconnect(c) /\ ~cstarted
    PROVE  ApartOK'
<1>1. UNCHANGED th
    BY DEF Start, StartFails, Reconnect, HandleReconnect
<1>2. SUFFICES ASSUME NEW q \in Procs, Leads(q)' PROVE SerialOK(th[q], Free(q))'
    BY DEF ApartOK
<1>3. Free(q)' = Free(q) /\ SerialOK(th[q], Free(q))
    BY <1>1, <1>2 DEF Free, Leads, ApartOK
<1>4. CASE Start \/ StartFails \/ Reconnect
    <2>1. PICK A \in SUBSET AGVs : A = Free(q)
        BY DEF Free
    <2>2. SerialOK(th[q], A)
        BY <1>3, <2>1 DEF SerialOK
    <2>3. SerialOK(th[q], A)'
        BY <1>4, <2>2, ClientSerial
    <2> QED BY <1>3, <2>1, <2>3 DEF SerialOK, FiredOK, WantOK
<1>5. ASSUME NEW c \in Procs, HandleReconnect(c), ~cstarted
      PROVE  SerialOK(th[q], Free(q))'
    <2>1. UNCHANGED <<up, cstarted, fleetVars, subs, hooks, want>>
        BY <1>5 DEF HandleReconnect, ghosts
    <2>2. Live(th[q])'
        <3>1. th[q].op \in {"none", "stop"}
            BY <1>3, <1>5, IdleOp DEF SerialOK, PhaseOK
        <3>2. th[q].op = "none" =>
                (~fstarted \/ SubscribeMayFail) /\ tracked = {} /\ th[q] = Idle
            BY <1>3, <1>5, IdleOp DEF SerialOK, PhaseOK
        <3> QED BY <1>1, <2>1, <3>1, <3>2, IdleFields DEF Live, fleetVars
    <2> QED BY <1>1, <1>3, <2>1, <2>2
            DEF SerialOK, PhaseOK, FiredOK, WantOK, Standing, Aside, fleetVars
<1> QED BY <1>4, <1>5

LEMMA ApartNext ==
    ASSUME Base, Base', Apart, Apart', ApartOK, [Next]_vars
    PROVE  ApartOK'
<1>1. CASE UNCHANGED vars
    BY <1>1 DEF vars, fleetVars, ghosts, ApartOK, Leads, Free, SerialOK, PhaseOK,
       FiredOK, WantOK, Live, Standing
<1>2. CASE Next
    <2>1. ASSUME NEW c \in Procs, Step(c) PROVE ApartOK'
        BY <2>1, StepApart
    <2>2. ASSUME NEW c \in Procs, CallStop(c) \/ HandleReconnect(c) PROVE ApartOK'
        <3>1. CASE CallStop(c) \/ (HandleReconnect(c) /\ cstarted)
            BY <3>1, BeginApart
        <3>2. CASE HandleReconnect(c) /\ ~cstarted
            BY <3>2, ClientApart
        <3> QED BY <2>2, <3>1, <3>2
    <2>3. ASSUME NEW c \in Procs, NEW o \in Calls, NEW b \in AGVs, Call(c, o, b)
          PROVE  ApartOK'
        BY <2>3, CallApart
    <2> QED BY <1>2, <2>1, <2>2, <2>3, ClientApart DEF Next
<1> QED BY <1>1, <1>2

LEMMA ApartInit == Init => ApartOK
<1> SUFFICES ASSUME Init, NEW c \in Procs PROVE SerialOK(th[c], Free(c))
    BY DEF ApartOK
<1>1. th[c] = Idle
    BY DEF Init
<1>2. Standing(Idle) = {}
    BY IdleFields DEF Standing, Aside, Init
<1>3. FiredOK(Idle, Free(c)) /\ WantOK(Idle, Free(c))
    BY <1>2, IdleFields, WillNothing DEF FiredOK, WantOK, Init, Free
<1>4. PhaseOK(Idle) /\ Live(Idle)
    BY IdleFields DEF PhaseOK, Live, Init, Removing
<1> QED BY <1>1, <1>3, <1>4 DEF SerialOK

LEMMA ApartInvariant == Spec /\ []Apart => []ApartOK
<1>1. Init => ApartOK
    BY ApartInit
<1>2. Base /\ Base' /\ Apart /\ Apart' /\ ApartOK /\ [Next]_vars => ApartOK'
    BY ApartNext
<1> QED BY <1>1, <1>2, SessionCorrect, PTL DEF Spec

-----------------------------------------------------------------------------
(***************************************************************************)
(* What a platform sees whose calls do not overlap, or only in Track and   *)
(* Untrack of different AGVs.                                              *)
(***************************************************************************)
LEMMA QuietFacts ==
    ASSUME Procs # {}, ApartOK, Quiet
    PROVE  /\ PhaseOK(Idle) /\ FiredOK(Idle, AGVs) /\ WantOK(Idle, AGVs)
           /\ Live(Idle) /\ Standing(Idle) = tracked /\ due = 0
           /\ fstarted \/ SubscribeMayFail
<1>1. PICK c \in Procs : TRUE
    OBVIOUS
<1>2. (\A p \in Procs : th[p] = Idle) /\ cstarted /\ due = 0
    BY DEF Quiet
<1>3. SerialOK(th[c], Free(c)) /\ Free(c) = AGVs /\ th[c] = Idle
    BY <1>2, AllFree, IdleFields DEF ApartOK, Leads
<1>4. PhaseOK(Idle) /\ FiredOK(Idle, AGVs) /\ WantOK(Idle, AGVs) /\ Live(Idle)
    BY <1>3 DEF SerialOK
<1> QED BY <1>2, <1>4, IdleFields DEF Standing, Aside, PhaseOK

\* Track and Restore: a quiet client has every channel of every tracked AGV,
\* whatever fails.
THEOREM TrackedAreSubscribed ==
    ASSUME Procs # {}
    PROVE  Spec /\ []Apart => []TrackedSubscribed
<1>1. Base /\ ApartOK => TrackedSubscribed
    <2> SUFFICES ASSUME Base, ApartOK, Quiet, NEW a \in tracked, NEW i \in 1 .. NChans
                 PROVE  Subscribed(<<a, i>>)
        BY DEF TrackedSubscribed
    <2>1. Elems(unsubs[a]) \subseteq subs
        BY QuietFacts, IdleFields DEF Live
    <2>2. i \in 1 .. Len(unsubs[a]) /\ unsubs[a][i].filter = <<a, i>>
        BY DEF Base, EntriesOK
    <2> QED BY <2>1, <2>2 DEF Elems, Subscribed
<1> QED BY <1>1, SessionCorrect, ApartInvariant, PTL

\* Start, Stop and Restore: a quiet client has the connection messages, unless
\* a Subscribe fails.
THEOREM ConnectionIsSubscribed ==
    ASSUME Procs # {}, Faults \subseteq {"unsub"}
    PROVE  Spec /\ []Apart => []ConnectionSubscribed
<1>1. Base /\ ApartOK => ConnectionSubscribed
    <2> SUFFICES ASSUME Base, ApartOK, Quiet PROVE Subscribed(ConnFilter)
        BY DEF ConnectionSubscribed
    <2>1. connUnsub \in subs
        BY QuietFacts, IdleFields DEF Live, SubscribeMayFail
    <2>2. connUnsub.filter = ConnFilter
        BY QuietFacts DEF Base, EntriesOK, SubscribeMayFail
    <2> QED BY <2>1, <2>2 DEF Subscribed
<1> QED BY <1>1, SessionCorrect, ApartInvariant, PTL

\* OnAGVOnline, OnAGVOffline and Restore: the hooks fired agree with the map,
\* although Restore empties and refills it without firing any.  A Subscribe that
\* fails leaves Restore half-way.
THEOREM RestoreKeepsHooks ==
    ASSUME Procs # {}, Faults \subseteq {"unsub"}
    PROVE  Spec /\ []Apart => []HooksAgree
<1>1. Base /\ ApartOK => HooksAgree
    <2> SUFFICES ASSUME Base, ApartOK, Quiet, NEW a \in AGVs
                 PROVE  hooks[a] = IF a \in tracked THEN 1 ELSE 0
        BY DEF HooksAgree
    <2>1. FiredOK(Idle, AGVs) /\ Standing(Idle) = tracked /\ Will(Idle, a) = 0
        BY QuietFacts, IdleFields, WillNothing
    <2> QED BY <2>1 DEF FiredOK, Base, TypeOK, SubscribeMayFail
<1> QED BY <1>1, SessionCorrect, ApartInvariant, PTL

\* Untrack: an AGV that was untracked stays so, with no subscription left,
\* whatever is lost, restored and refused afterwards.
THEOREM UntrackedStays ==
    ASSUME Procs # {}, Faults \subseteq {"reject"}
    PROVE  Spec /\ []Apart => []UntrackSticks
<1>1. Base /\ ApartOK /\ NoLeakedSubscription => UntrackSticks
    <2> SUFFICES ASSUME Base, ApartOK, NoLeakedSubscription, Quiet,
                        NEW a \in AGVs, want[a] = "untrack"
                 PROVE  a \notin tracked /\
                        \A i \in 1 .. NChans : ~Subscribed(<<a, i>>)
        BY DEF UntrackSticks
    <2>1. a \notin tracked
        BY QuietFacts, IdleFields DEF WantOK
    <2>2. ASSUME NEW i \in 1 .. NChans, NEW h \in subs, h.filter = <<a, i>>
          PROVE  FALSE
        <3>1. h # None /\ h.filter # ConnFilter
            BY <2>2, ConstantsAssumption DEF Base, TypeOK, ConnFilter
        <3>2. h # connUnsub
            BY <3>1 DEF Base, EntriesOK
        <3>3. \A p \in Procs : Elems(th[p].got) = {}
            BY IdleFields, ElemsEmpty DEF Quiet
        <3>4. \A b \in tracked : h \notin Elems(unsubs[b])
            BY <2>1, <2>2 DEF Base, EntriesOK, Elems
        <3> QED BY <3>2, <3>3, <3>4 DEF NoLeakedSubscription
    <2> QED BY <2>1, <2>2 DEF Subscribed
<1>2. Spec => []NoLeakedSubscription
    BY NothingLeaks
<1> QED BY <1>1, <1>2, SessionCorrect, ApartInvariant, PTL

\* Track: an AGV that was tracked stays so through every reconnect, unless a
\* Subscribe fails.
THEOREM TrackedStays ==
    ASSUME Procs # {}, Faults \subseteq {"unsub"}
    PROVE  Spec /\ []Apart => []TrackSticks
<1>1. ApartOK => TrackSticks
    BY QuietFacts, IdleFields DEF TrackSticks, WantOK, SubscribeMayFail
<1> QED BY <1>1, ApartInvariant, PTL

\* Stop: a client that has been stopped tracks nothing, whatever fails.
THEOREM StoppedTracksNothing ==
    ASSUME Procs # {}
    PROVE  Spec /\ []Apart => []StopUntracksAll
<1>1. ApartOK => StopUntracksAll
    <2> SUFFICES ASSUME ApartOK, ~cstarted, \A p \in Procs : th[p] = Idle
                 PROVE  tracked = {}
        BY DEF StopUntracksAll
    <2>1. PICK c \in Procs : TRUE
        OBVIOUS
    <2> QED BY <2>1, IdleFields DEF ApartOK, Leads, SerialOK, PhaseOK
<1> QED BY <1>1, ApartInvariant, PTL
=============================================================================
