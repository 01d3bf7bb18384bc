------------------------ MODULE FleetAutoTrackProofs ------------------------
(***************************************************************************)
(* Proofs about FleetAutoTrack.  Its steps are steps of FleetSession, with *)
(* one exception: a job begins without the check that the client is        *)
(* started.  The lemmas of FleetSessionProofs about the steps carry over.  *)
(***************************************************************************)
EXTENDS FleetAutoTrack, FleetSessionProofs

QueueOK ==
    /\ open \in BOOLEAN /\ cancelled \in BOOLEAN /\ alive \in BOOLEAN
    /\ jobs \in Seq(Jobs) /\ Len(jobs) <= QueueSize
    /\ latest \in [AGVs -> {"none", "track", "untrack"}]
    /\ reported \subseteq AGVs /\ manual \subseteq AGVs /\ raced \subseteq AGVs

LEMMA Worker == AutoWorker \in Procs /\ QueueSize \in Nat \ {0}
BY AutoTrackAssumption DEF Procs

\* The head of the queue is a job and the rest is a queue.
LEMMA HeadTail ==
    ASSUME QueueOK, jobs # << >>
    PROVE  /\ Head(jobs) \in Jobs /\ Tail(jobs) \in Seq(Jobs)
           /\ Len(Tail(jobs)) = Len(jobs) - 1 /\ Len(jobs) \in Nat \ {0}
           /\ Head(jobs) = jobs[1]
           /\ \A i \in 1 .. Len(jobs) - 1 : Tail(jobs)[i] = jobs[i + 1]
<1>1. jobs \in Seq(Jobs)
    BY DEF QueueOK
<1>2. Len(jobs) \in Nat \ {0}
    BY <1>1, EmptySeq, LenProperties
<1> QED BY <1>1, <1>2, HeadTailProperties

LEMMA JobCall ==
    ASSUME NEW j \in Jobs
    PROVE  LET t == [Idle EXCEPT !.op = j.op, !.agv = j.agv,
                                 !.pc = IF j.op = "track" THEN "check"
                                        ELSE "remove"]
           IN  /\ t \in Threads /\ t.got = << >> /\ t.op = j.op /\ t.agv = j.agv
               /\ t.pc = IF j.op = "track" THEN "check" ELSE "remove"
               /\ t.todo = {} /\ ~t.failed
<1>1. j.op \in {"track", "untrack"} /\ j.agv \in AGVs
    BY DEF Jobs
<1>2. Idle \in Threads /\ Idle.got = << >> /\ Idle.todo = {} /\ ~Idle.failed
    BY IdleType DEF Idle
<1> DEFINE x == IF j.op = "track" THEN "check" ELSE "remove"
<1>3. x \in {"check", "remove"}
    OBVIOUS
<1> HIDE DEF x
<1> DEFINE t == [Idle EXCEPT !.op = j.op, !.agv = j.agv, !.pc = x]
<1>4. /\ t \in Threads /\ t.got = << >> /\ t.op = j.op /\ t.agv = j.agv
      /\ t.pc = x /\ t.todo = {} /\ ~t.failed
    BY <1>1, <1>2, <1>3 DEF Threads
<1> QED BY <1>4 DEF x

LEMMA TakeJobBase ==
    ASSUME Base, QueueOK, TakeJob PROVE Base'
<1> DEFINE j == Head(jobs)
           t == [Idle EXCEPT !.op = j.op, !.agv = j.agv,
                             !.pc = IF j.op = "track" THEN "check" ELSE "remove"]
<1>1. j \in Jobs /\ Begin(AutoWorker, t) /\ calls + 1 \in 1 .. MaxCalls
    BY HeadTail, NextCall DEF TakeJob, Begin
<1>2. /\ t \in Threads /\ t.got = << >> /\ t.op = j.op /\ t.agv = j.agv
      /\ t.pc = IF j.op = "track" THEN "check" ELSE "remove"
    BY <1>1, JobCall
<1>3. j.op \in {"track", "untrack"} /\ j.agv \in AGVs
    BY <1>1 DEF Jobs
<1> HIDE DEF t, j
<1>4. CallOK([t EXCEPT !.call = calls + 1])
    BY <1>1, <1>2, <1>3, NewCall
<1> QED BY <1>1, <1>4, Worker, BeginBase DEF TakeJob, Base, TypeOK

LEMMA AutoBaseNext ==
    ASSUME Base, QueueOK, [AutoNext]_allVars PROVE Base'
<1>1. CASE UNCHANGED allVars
    BY <1>1, BaseNext DEF allVars
<1>2. CASE TakeJob
    BY <1>2, TakeJobBase
<1>3. CASE AutoNext /\ ~TakeJob
    <2>1. ASSUME NEW p \in Callers,
                 \/ CallStop(p) \/ StopSnapshot(p) \/ Step(p)
                 \/ \E o \in Calls, a \in AGVs : Call(p, o, a)
          PROVE  Base'
        BY <2>1, CallStopBase, StopSnapshotBase, StepBase, CallBase DEF Procs
    <2>2. CASE Start \/ StartFails
        BY <2>2, StartBase
    <2>3. CASE UNCHANGED vars
        BY <2>3, BaseNext
    <2>4. \/ Start \/ StartFails \/ UNCHANGED vars \/ Step(AutoWorker)
          \/ \E p \in Callers : \/ CallStop(p) \/ StopSnapshot(p) \/ Step(p)
                                \/ \E o \in Calls, a \in AGVs : Call(p, o, a)
        BY <1>3 DEF AutoNext, Schedule, JobStep, WorkerExit, AutoStart, AutoStop,
           AutoStopped, ManualStep, ManualCall
    <2> QED BY <2>1, <2>2, <2>3, <2>4, StepBase, Worker
<1> QED BY <1>1, <1>2, <1>3

-----------------------------------------------------------------------------
(***************************************************************************)
(* What a step does to the call that takes it, when nothing is restored.   *)
(***************************************************************************)
SameCall(u, t) ==
    u.op = t.op /\ u.agv = t.agv /\ u.call = t.call /\ u.todo = t.todo

\* What follows track or untrack.
Ends(u, t) ==
    IF t.op = "stop" THEN SameCall(u, t) /\ u.pc = "stopNext" ELSE u = Idle

Only(p) == th'[p] \in Threads /\ \A q \in Procs \ {p} : th'[q] = th[q]

LEMMA ReturnMove ==
    ASSUME Base, NEW p \in Procs, NEW t \in Threads, t.op # "restore", Return(p, t)
    PROVE  Only(p) /\ Ends(th'[p], t)
<1>1. th'[p] = Returned(t) /\ \A q \in Procs \ {p} : th'[q] = th[q]
    BY Others DEF Return, Base, TypeOK
<1>2. CASE t.op = "stop"
    <2> DEFINE u == [t EXCEPT !.pc = "stopNext"]
    <2>1. u \in Threads /\ SameCall(u, t) /\ u.pc = "stopNext"
        BY DEF Threads, SameCall
    <2>2. Returned(t) = u
        BY <1>2 DEF Returned
    <2> HIDE DEF u
    <2> QED BY <1>1, <1>2, <2>1, <2>2 DEF Only, Ends
<1>3. CASE t.op # "stop"
    BY <1>1, <1>3, IdleType DEF Only, Ends, Returned
<1> QED BY <1>2, <1>3

LEMMA CheckMove ==
    ASSUME Base, NEW p \in Procs, Check(p), th[p].op # "restore"
    PROVE  /\ Only(p)
           /\ UNCHANGED <<up, cstarted, connUnsub, tracked, unsubs, subs, calls>>
           /\ th[p].pc = "check" /\ th[p].agv \in AGVs
           /\ IF th[p].agv \in tracked THEN Ends(th'[p], th[p])
              ELSE /\ SameCall(th'[p], th[p]) /\ th'[p].pc \in {"sub", "insert"}
                   /\ th'[p].got = << >> /\ th'[p].failed = th[p].failed
<1> DEFINE t == th[p]
<1>1. /\ t \in Threads /\ t.pc = "check" /\ t.got = << >> /\ t.agv \in AGVs
      /\ UNCHANGED <<up, cstarted, connUnsub, tracked, unsubs, subs, calls>>
    BY CallFacts DEF Check, GotOK, Holding, Tracking, fleetVars
<1>2. CASE t.agv \in tracked
    BY <1>1, <1>2, ReturnMove DEF Check
<1>3. CASE t.agv \notin tracked
    <2> DEFINE x == IF NChans = 0 THEN "insert" ELSE "sub"
               u == [t EXCEPT !.pc = x]
    <2>1. th' = [th EXCEPT ![p] = u] /\ x \in {"insert", "sub"}
        BY <1>3 DEF Check
    <2> HIDE DEF x
    <2>2. /\ u \in Threads /\ SameCall(u, t) /\ u.pc = x /\ u.got = << >>
          /\ u.failed = t.failed
        BY <1>1, <2>1 DEF Threads, SameCall
    <2> HIDE DEF u
    <2>3. th'[p] = u /\ \A q \in Procs \ {p} : th'[q] = th[q]
        BY <2>1, Others DEF Base, TypeOK
    <2> QED BY <1>1, <1>3, <2>1, <2>2, <2>3 DEF Only
<1> QED BY <1>2, <1>3

LEMMA SubscribeMove ==
    ASSUME Base, NEW p \in Procs, Subscribe(p)
    PROVE  LET h == [filter |-> NextFilter(th[p]), call |-> th[p].call] IN
           /\ Only(p)
           /\ UNCHANGED <<up, cstarted, connUnsub, tracked, unsubs, calls>>
           /\ th[p].pc = "sub" /\ SameCall(th'[p], th[p])
           /\ subs \subseteq subs'
           /\ \/ /\ th'[p].pc \in {"sub", "insert"} /\ h \in subs'
                 /\ Elems(th'[p].got) = Elems(th[p].got) \cup {h}
                 /\ th'[p].failed = th[p].failed
              \/ /\ th'[p].pc = "rollback" /\ th'[p].got = th[p].got
                 /\ th'[p].failed
<1> DEFINE t == th[p]
           h == [filter |-> NextFilter(t), call |-> t.call]
           g == Append(t.got, h)
           x == IF Len(t.got) + 1 = NChans THEN "insert" ELSE "sub"
           u == [t EXCEPT !.got = g, !.pc = x]
<1>1. /\ t \in Threads /\ t.pc = "sub" /\ t.agv \in AGVs /\ t.got \in Seq(Handles)
      /\ Len(t.got) < NChans /\ t.call \in 1 .. MaxCalls
      /\ UNCHANGED <<up, cstarted, connUnsub, tracked, unsubs, calls>>
    BY CallFacts DEF Subscribe, GotOK, Tracking, fleetVars
<1>2. h \in Handles
    <2>1. Len(t.got) + 1 \in 1 .. NChans
        BY <1>1, Bounds, LenProperties
    <2> QED BY <1>1, <2>1, HandleType DEF NextFilter
<1>3. g \in Seq(Handles) /\ Elems(g) = Elems(t.got) \cup {h}
    BY <1>1, <1>2, ElemsAppend, AppendProperties
<1>4. CASE SubscribeOK(h) /\ th' = [th EXCEPT ![p] = u]
    <2>1. x \in {"sub", "insert"} /\ subs \subseteq subs' /\ h \in subs'
        BY <1>4 DEF SubscribeOK
    <2> HIDE DEF g, x, h
    <2>2. /\ u \in Threads /\ SameCall(u, t) /\ u.pc = x /\ u.got = g
          /\ u.failed = t.failed
        BY <1>1, <1>3, <2>1 DEF Threads, SameCall
    <2> HIDE DEF u
    <2>3. th'[p] = u /\ \A q \in Procs \ {p} : th'[q] = th[q]
        BY <1>4, Others DEF Base, TypeOK
    <2>4. /\ Only(p) /\ SameCall(th'[p], t) /\ th'[p].pc \in {"sub", "insert"}
          /\ Elems(th'[p].got) = Elems(t.got) \cup {h}
          /\ th'[p].failed = t.failed
        BY <1>3, <2>1, <2>2, <2>3 DEF Only
    <2> QED BY <1>1, <2>1, <2>4 DEF h
<1>5. CASE SubscribeFails(h) /\ th' = [th EXCEPT ![p] = AfterFailure(t)]
    <2> DEFINE v == AfterFailure(t)
    <2>1. subs \subseteq subs'
        BY <1>5 DEF SubscribeFails
    <2>2. /\ v \in Threads /\ SameCall(v, t) /\ v.pc = "rollback"
          /\ v.got = t.got /\ v.failed
        BY <1>1 DEF Threads, SameCall, AfterFailure
    <2> HIDE DEF v
    <2>3. th'[p] = v /\ \A q \in Procs \ {p} : th'[q] = th[q]
        BY <1>5, Others DEF Base, TypeOK, v
    <2> HIDE DEF h
    <2>4. Only(p)
        BY <2>2, <2>3 DEF Only
    <2> QED BY <1>1, <2>1, <2>2, <2>3, <2>4
<1> QED BY <1>4, <1>5 DEF Subscribe

LEMMA InsertMove ==
    ASSUME Base, NEW p \in Procs, Insert(p), th[p].op # "restore"
    PROVE  /\ Only(p)
           /\ UNCHANGED <<up, cstarted, connUnsub, subs, calls>>
           /\ th[p].pc = "insert" /\ th[p].agv \in AGVs /\ SameCall(th'[p], th[p])
           /\ th'[p].failed = th[p].failed
           /\ IF th[p].agv \in tracked
              THEN /\ UNCHANGED <<tracked, unsubs>>
                   /\ th'[p].pc = "rollback" /\ th'[p].got = th[p].got
              ELSE /\ tracked' = tracked \cup {th[p].agv}
                   /\ unsubs' = [unsubs EXCEPT ![th[p].agv] = th[p].got]
                   /\ th'[p].pc = "online" /\ th'[p].got = << >>
<1> DEFINE t == th[p]
<1>1. /\ t \in Threads /\ t.pc = "insert" /\ t.agv \in AGVs
      /\ UNCHANGED <<up, cstarted, connUnsub, subs, calls>>
    BY CallFacts DEF Insert, GotOK, Tracking
<1>2. CASE t.agv \in tracked
    <2> DEFINE u == [t EXCEPT !.pc = "rollback"]
    <2>1. th' = [th EXCEPT ![p] = u] /\ UNCHANGED <<tracked, unsubs>>
        BY <1>2 DEF Insert, LostRace
    <2>2. /\ u \in Threads /\ SameCall(u, t) /\ u.pc = "rollback"
          /\ u.got = t.got /\ u.failed = t.failed
        BY <1>1 DEF Threads, SameCall
    <2> HIDE DEF u
    <2>3. th'[p] = u /\ \A q \in Procs \ {p} : th'[q] = th[q]
        BY <2>1, Others DEF Base, TypeOK
    <2> QED BY <1>1, <1>2, <2>1, <2>2, <2>3 DEF Only
<1>3. CASE t.agv \notin tracked
    <2> DEFINE u == [t EXCEPT !.pc = "online", !.got = << >>]
    <2>1. ~LostRace(t) /\ Notifies(t)
        BY <1>3 DEF LostRace, Notifies
    <2>2. /\ th' = [th EXCEPT ![p] = u] /\ tracked' = tracked \cup {t.agv}
          /\ unsubs' = [unsubs EXCEPT ![t.agv] = t.got]
        BY <2>1 DEF Insert
    <2>3. /\ u \in Threads /\ SameCall(u, t) /\ u.pc = "online"
          /\ u.got = << >> /\ u.failed = t.failed
        BY <1>1, EmptySeq DEF Threads, SameCall
    <2> HIDE DEF u
    <2>4. th'[p] = u /\ \A q \in Procs \ {p} : th'[q] = th[q]
        BY <2>2, Others DEF Base, TypeOK
    <2> QED BY <1>1, <1>3, <2>2, <2>3, <2>4 DEF Only
<1> QED BY <1>2, <1>3

\* The steps that cancel a handle.
LEMMA CancelMove ==
    ASSUME Base, NEW p \in Procs, Rollback(p) \/ Unsubscribe(p)
    PROVE  /\ Only(p)
           /\ UNCHANGED <<up, cstarted, connUnsub, tracked, unsubs, calls>>
           /\ th[p].pc \in {"rollback", "unsub"} /\ th'[p].pc = th[p].pc
           /\ SameCall(th'[p], th[p]) /\ Elems(th'[p].got) \subseteq Elems(th[p].got)
           /\ th[p].failed => th'[p].failed
           /\ th[p].agv \in AGVs
           /\ \A h \in subs : h.filter[1] # th[p].agv => h \in subs'
<1> DEFINE t == th[p]
           g == Front(t.got)
<1>1. /\ t \in Threads /\ t.pc \in {"rollback", "unsub"} /\ t.got \in Seq(Handles)
      /\ t.got # << >> /\ t.agv \in AGVs
      /\ UNCHANGED <<up, cstarted, connUnsub, tracked, unsubs, calls>>
    BY CallFacts DEF Rollback, Unsubscribe, CancelOne, fleetVars, GotOK, Tracking,
       Removing
<1>2. g \in Seq(Handles) /\ Elems(t.got) = Elems(g) \cup {t.got[Len(t.got)]}
    BY <1>1, FrontFacts, ElemsFront
<1>3. \A h \in subs : h.filter[1] # t.agv => h \in subs'
    <2> DEFINE n == Len(t.got)
               l == t.got[n]
    <2>1. n \in 1 .. n /\ GotOK(t)
        BY <1>1, CallFacts, FrontFacts
    <2>2. l.filter = <<t.agv, n>>
        BY <2>1 DEF GotOK
    <2>3. PICK H \in Cancelled({l}) : subs' = Cancel(subs, H)
        BY DEF Rollback, Unsubscribe, CancelOne
    <2>4. H \subseteq {l}
        BY <2>3, CancelledFacts
    <2> HIDE DEF l, n
    <2>5. l.filter[1] = t.agv
        BY <2>2
    <2> QED BY <2>3, <2>4, <2>5 DEF Cancel
<1> HIDE DEF g
<1>4. PICK f \in BOOLEAN : th' = [th EXCEPT ![p].got = g, ![p].failed = @ \/ f]
    <2>1. CASE Rollback(p)
        <3>1. t.failed = (t.failed \/ FALSE) /\ th' = [th EXCEPT ![p].got = g]
            BY <1>1, <2>1 DEF Rollback, g, Threads
        <3>2. [t EXCEPT !.got = g] = [t EXCEPT !.got = g, !.failed = @ \/ FALSE]
            BY <1>1, <3>1 DEF Threads
        <3> QED BY <3>1, <3>2 DEF Base, TypeOK
    <2>2. CASE Unsubscribe(p)
        BY <2>2 DEF Unsubscribe, UnsubscribeFails, g, Base, TypeOK
    <2> QED BY <2>1, <2>2
<1> DEFINE u == [t EXCEPT !.got = g, !.failed = @ \/ f]
<1>5. th' = [th EXCEPT ![p] = u]
    BY <1>4
<1>6. /\ u \in Threads /\ SameCall(u, t) /\ u.pc = t.pc /\ u.got = g
      /\ t.failed => u.failed
    BY <1>1, <1>2 DEF Threads, SameCall
<1> HIDE DEF u
<1>7. th'[p] = u /\ \A q \in Procs \ {p} : th'[q] = th[q]
    BY <1>5, Others DEF Base, TypeOK
<1> QED BY <1>1, <1>2, <1>3, <1>6, <1>7 DEF Only

\* The steps after which track or untrack returns.
LEMMA EndMove ==
    ASSUME Base, NEW p \in Procs, th[p].op # "restore",
           RollbackEnd(p) \/ Online(p) \/ Offline(p)
    PROVE  /\ Only(p) /\ Ends(th'[p], th[p])
           /\ UNCHANGED <<up, cstarted, connUnsub, tracked, unsubs, subs, calls>>
           /\ th[p].pc \in {"rollback", "online", "unsub"}
BY CallFacts, ReturnMove DEF RollbackEnd, Online, Offline, fleetVars

LEMMA RemoveMove ==
    ASSUME Base, NEW p \in Procs, Remove(p), th[p].op # "restore"
    PROVE  /\ Only(p)
           /\ UNCHANGED <<up, cstarted, connUnsub, subs, calls>>
           /\ th[p].pc = "remove" /\ th[p].agv \in AGVs
           /\ IF th[p].agv \in tracked
              THEN /\ tracked' = tracked \ {th[p].agv}
                   /\ unsubs' = [unsubs EXCEPT ![th[p].agv] = << >>]
                   /\ SameCall(th'[p], th[p]) /\ th'[p].pc = "unsub"
                   /\ th'[p].got = unsubs[th[p].agv] /\ th'[p].failed = th[p].failed
              ELSE UNCHANGED <<tracked, unsubs>> /\ Ends(th'[p], th[p])
<1> DEFINE t == th[p]
<1>1. /\ t \in Threads /\ t.pc = "remove" /\ t.agv \in AGVs
      /\ UNCHANGED <<up, cstarted, connUnsub, subs, calls>>
    BY CallFacts DEF Remove, GotOK, Removing
<1>2. CASE t.agv \notin tracked
    BY <1>1, <1>2, ReturnMove DEF Remove
<1>3. CASE t.agv \in tracked
    <2> DEFINE g == unsubs[t.agv]
               u == [t EXCEPT !.pc = "unsub", !.got = g]
    <2>1. /\ th' = [th EXCEPT ![p] = u] /\ tracked' = tracked \ {t.agv}
          /\ unsubs' = [unsubs EXCEPT ![t.agv] = << >>]
        BY <1>3 DEF Remove
    <2>2. g \in Seq(Handles)
        BY <1>1 DEF Base, TypeOK
    <2> HIDE DEF g
    <2>3. /\ u \in Threads /\ SameCall(u, t) /\ u.pc = "unsub"
          /\ u.got = g /\ u.failed = t.failed
        BY <1>1, <2>2 DEF Threads, SameCall
    <2> HIDE DEF u
    <2>4. th'[p] = u /\ \A q \in Procs \ {p} : th'[q] = th[q]
        BY <2>1, Others DEF Base, TypeOK
    <2>5. u.got = unsubs[t.agv]
        BY <2>3 DEF g
    <2> QED BY <1>1, <1>3, <2>1, <2>3, <2>4, <2>5 DEF Only
<1> QED BY <1>2, <1>3

\* The steps of Stop.
LEMMA StopMove ==
    ASSUME Base, NEW p \in Procs,
           StopSnapshot(p) \/ StopEnd(p) \/ \E a \in AGVs : StopNext(p, a)
    PROVE  /\ Only(p)
           /\ UNCHANGED <<up, cstarted, tracked, unsubs, calls>>
           /\ th[p].op = "stop" /\ th'[p].op = "stop" /\ th'[p].call = th[p].call
           /\ th[p].pc \in {"stop", "stopNext"} /\ th'[p].got = << >>
           /\ th'[p].pc \in {"stopNext", "remove", "disconnect"}
           /\ th'[p].pc = "disconnect" => th[p].todo = {} /\ th'[p].todo = {}
           /\ \/ StopSnapshot(p) /\ th'[p].todo = tracked
              \/ th[p].pc = "stopNext" /\ ~StopSnapshot(p)
                   /\ \A b \in th[p].todo :
                          b \in th'[p].todo \/ (th'[p].pc = "remove" /\ th'[p].agv = b)
           /\ \A h \in subs : h.filter[1] # None => h \in subs'
<1> DEFINE t == th[p]
<1>1. /\ t \in Threads /\ t.op = "stop" /\ t.pc \in {"stop", "stopNext"}
      /\ t.got = << >>
      /\ UNCHANGED <<up, cstarted, tracked, unsubs, calls>>
    BY CallFacts DEF StopSnapshot, StopEnd, StopNext, fleetVars, PlaceOK, GotOK, Holding
<1>2. CASE StopSnapshot(p)
    <2> DEFINE u == [t EXCEPT !.pc = "stopNext", !.todo = tracked]
    <2>1. th' = [th EXCEPT ![p] = u] /\ UNCHANGED subs
        BY <1>2 DEF StopSnapshot
    <2>2. /\ u \in Threads /\ u.op = t.op /\ u.call = t.call /\ u.pc = "stopNext"
          /\ u.got = t.got /\ u.todo = tracked
        BY <1>1 DEF Threads, Base, TypeOK
    <2> HIDE DEF u
    <2>3. th'[p] = u /\ \A q \in Procs \ {p} : th'[q] = th[q]
        BY <2>1, Others DEF Base, TypeOK
    <2> QED BY <1>1, <1>2, <2>1, <2>2, <2>3 DEF Only
<1>3. CASE StopEnd(p)
    <2> DEFINE u == [t EXCEPT !.pc = "disconnect"]
    <2>1. th' = [th EXCEPT ![p] = u] /\ t.pc = "stopNext" /\ t.todo = {}
        BY <1>3 DEF StopEnd
    <2>2. /\ u \in Threads /\ u.op = t.op /\ u.call = t.call /\ u.pc = "disconnect"
          /\ u.got = t.got /\ u.todo = t.todo
        BY <1>1 DEF Threads
    <2> HIDE DEF u
    <2>3. th'[p] = u /\ \A q \in Procs \ {p} : th'[q] = th[q]
        BY <2>1, Others DEF Base, TypeOK
    <2>4. \A h \in subs : h.filter[1] # None => h \in subs'
        <3>1. connUnsub # None => connUnsub.filter[1] = None
            BY DEF Base, EntriesOK, ConnFilter
        <3>2. PICK H \in Cancelled({connUnsub} \ {None}) : subs' = Cancel(subs, H)
            BY <1>3 DEF StopEnd
        <3>3. H \subseteq {connUnsub} \ {None}
            BY <3>2, CancelledFacts
        <3> QED BY <3>1, <3>2, <3>3 DEF Cancel
    <2>5. ~StopSnapshot(p)
        BY <2>1 DEF StopSnapshot
    <2> QED BY <1>1, <2>1, <2>2, <2>3, <2>4, <2>5 DEF Only
<1>4. ASSUME NEW a \in AGVs, StopNext(p, a)
      PROVE  /\ Only(p) /\ th'[p].op = "stop" /\ th'[p].call = th[p].call
             /\ th'[p].got = << >> /\ th'[p].pc = "remove" /\ t.pc = "stopNext"
             /\ th'[p].todo = t.todo \ {a} /\ th'[p].agv = a /\ UNCHANGED subs
    <2> DEFINE u == [t EXCEPT !.pc = "remove", !.agv = a, !.todo = @ \ {a}]
    <2>1. th' = [th EXCEPT ![p] = u] /\ t.pc = "stopNext" /\ UNCHANGED subs
        BY <1>4 DEF StopNext
    <2>2. /\ u \in Threads /\ u.op = t.op /\ u.call = t.call /\ u.pc = "remove"
          /\ u.got = t.got /\ u.todo = t.todo \ {a} /\ u.agv = a
        BY <1>1 DEF Threads
    <2> HIDE DEF u
    <2>3. th'[p] = u /\ \A q \in Procs \ {p} : th'[q] = th[q]
        BY <2>1, Others DEF Base, TypeOK
    <2> QED BY <1>1, <2>1, <2>2, <2>3 DEF Only
<1>5. CASE \E a \in AGVs : StopNext(p, a)
    <2>1. PICK a \in AGVs : StopNext(p, a)
        BY <1>5
    <2>2. ~StopSnapshot(p)
        BY <1>4, <2>1 DEF StopSnapshot
    <2>3. \A b \in t.todo : b \in th'[p].todo \/ (th'[p].pc = "remove" /\ th'[p].agv = b)
        BY <1>4, <2>1
    <2>4. /\ Only(p) /\ th'[p].op = "stop" /\ th'[p].call = t.call
          /\ th'[p].got = << >> /\ th'[p].pc = "remove" /\ t.pc = "stopNext"
          /\ UNCHANGED subs
        BY <1>4, <2>1
    <2> QED BY <1>1, <2>2, <2>3, <2>4
<1> QED BY <1>2, <1>3, <1>5, SMTT(30)

LEMMA DisconnectMove ==
    ASSUME Base, NEW p \in Procs, Disconnect(p)
    PROVE  /\ Only(p) /\ th'[p] = Idle /\ th[p].pc = "disconnect"
           /\ th[p].op = "stop" /\ ~up' /\ subs' = {}
           /\ UNCHANGED <<cstarted, connUnsub, tracked, unsubs, calls>>
BY CallFacts, IdleType, Others
   DEF Disconnect, fleetVars, Only, PlaceOK, Base, TypeOK

LEMMA BeginMove ==
    ASSUME Base, NEW p \in Procs, NEW t \in Threads, Begin(p, t)
    PROVE  /\ Only(p) /\ th[p] = Idle /\ calls' = calls + 1
           /\ th'[p].op = t.op /\ th'[p].agv = t.agv /\ th'[p].pc = t.pc
           /\ th'[p].got = t.got /\ th'[p].todo = t.todo /\ th'[p].failed = t.failed
           /\ th'[p].call = calls + 1
<1> DEFINE u == [t EXCEPT !.call = calls + 1]
<1>1. th' = [th EXCEPT ![p] = u] /\ th[p] = Idle /\ calls' = calls + 1
    BY DEF Begin
<1>2. /\ u \in Threads /\ u.op = t.op /\ u.agv = t.agv /\ u.pc = t.pc
      /\ u.got = t.got /\ u.todo = t.todo /\ u.failed = t.failed
      /\ u.call = calls + 1
    <2>1. calls + 1 \in 0 .. MaxCalls
        BY NextCall, Bounds DEF Begin
    <2> QED BY <2>1 DEF Threads
<1> HIDE DEF u
<1>3. th'[p] = u /\ \A q \in Procs \ {p} : th'[q] = th[q]
    BY <1>1, Others DEF Base, TypeOK
<1> QED BY <1>1, <1>2, <1>3 DEF Only

\* Without a call of Restore, a step is one of these.
LEMMA StepKinds ==
    ASSUME Base, NEW p \in Procs, Step(p), th[p].op # "restore"
    PROVE  \/ Check(p) \/ Subscribe(p) \/ Insert(p) \/ Rollback(p) \/ Unsubscribe(p)
           \/ RollbackEnd(p) \/ Online(p) \/ Offline(p) \/ Remove(p)
           \/ StopSnapshot(p) \/ StopEnd(p) \/ \E a \in AGVs : StopNext(p, a)
           \/ Disconnect(p)
<1>1. th[p].pc \notin {"snapshot", "start", "restoreNext"}
    BY CallFacts DEF PlaceOK
<1> QED BY <1>1 DEF Step, RestoreSnapshot, RestoreStart, RestoreEnd, RestoreNext

-----------------------------------------------------------------------------
(***************************************************************************)
(* Types: the worker makes no other calls than Track and Untrack.          *)
(***************************************************************************)
JobCalls == th[AutoWorker].op \in {"none", "track", "untrack"}

LEMMA OpKept ==
    ASSUME Base, NEW p \in Procs, Step(p), th[p].op # "restore"
    PROVE  /\ Only(p) /\ th'[p].op \in {th[p].op, "none"}
           /\ th[p].pc # "idle" /\ th'[p].call \in {th[p].call, 0}
<1>1. Idle.op = "none" /\ Idle.call = 0
    BY DEF Idle
<1>2. \/ th'[p] = Idle \/ SameCall(th'[p], th[p])
      \/ th'[p].op = th[p].op /\ th'[p].call = th[p].call
    <2>1. CASE Check(p) \/ Remove(p) \/ RollbackEnd(p) \/ Online(p) \/ Offline(p)
        BY <2>1, CheckMove, RemoveMove, EndMove DEF Ends
    <2>2. CASE Subscribe(p) \/ Insert(p) \/ Rollback(p) \/ Unsubscribe(p)
        BY <2>2, SubscribeMove, InsertMove, CancelMove
    <2>3. CASE \/ StopSnapshot(p) \/ StopEnd(p) \/ Disconnect(p)
               \/ \E a \in AGVs : StopNext(p, a)
        BY <2>3, StopMove, DisconnectMove
    <2> QED BY <2>1, <2>2, <2>3, StepKinds
<1>3. Only(p) /\ th[p].pc # "idle"
    BY StepKinds, CheckMove, SubscribeMove, InsertMove, CancelMove, EndMove,
       RemoveMove, StopMove, DisconnectMove
<1> QED BY <1>1, <1>2, <1>3 DEF SameCall

LEMMA EmptyQueue == << >> \in Seq(Jobs) /\ Len(<< >>) = 0 /\ 0 <= QueueSize
<1>1. QueueSize \in Nat
    BY Worker
<1> QED BY <1>1, EmptySeq

LEMMA AboutAGV ==
    ASSUME Base, NEW p \in Procs, th[p].op \in {"track", "untrack"},
           th[p].pc # "idle"
    PROVE  /\ th[p].agv \in AGVs
           /\ th[p].pc \in Tracking \cup Removing \cup {"online"}
           /\ th[p].op = "track" <=> th[p].pc \in Tracking \cup {"online"}
BY CallFacts DEF PlaceOK, GotOK, Threads, Tracking, Removing

LEMMA JobCallsNext ==
    ASSUME Base, QueueOK, JobCalls, [AutoNext]_allVars PROVE JobCalls'
<1>1. AutoWorker \in Procs
    BY Worker
<1>2. CASE UNCHANGED th
    BY <1>2 DEF JobCalls
<1>3. CASE TakeJob
    <2> DEFINE j == Head(jobs)
               t == [Idle EXCEPT !.op = j.op, !.agv = j.agv,
                                 !.pc = IF j.op = "track" THEN "check" ELSE "remove"]
    <2>1. j \in Jobs /\ Begin(AutoWorker, t)
        BY <1>3, HeadTail DEF TakeJob
    <2>2. t \in Threads /\ t.op = j.op
        BY <2>1, JobCall
    <2>3. j.op \in {"track", "untrack"}
        BY <2>1 DEF Jobs
    <2> HIDE DEF t, j
    <2> QED BY <1>1, <2>1, <2>2, <2>3, BeginMove DEF JobCalls
<1>4. CASE JobStep
    BY <1>1, <1>4, OpKept DEF JobStep, JobCalls
<1>5. ASSUME NEW p \in Callers \ {AutoWorker}, \A q \in Procs \ {p} : th'[q] = th[q]
      PROVE  JobCalls'
    BY <1>1, <1>5 DEF JobCalls
<1>6. ASSUME NEW p \in Callers \ {AutoWorker},
             \/ AutoStop(p) \/ AutoStopped(p) \/ ManualStep(p)
             \/ \E o \in Calls, a \in AGVs : ManualCall(p, o, a)
      PROVE  \A q \in Procs \ {p} : th'[q] = th[q]
    <2>1. p \in Procs
        BY DEF Procs
    <2>2. \/ \E u : th' = [th EXCEPT ![p] = u]
          \/ Step(p)
        BY <1>6, ZenonT(60) DEF AutoStop, CallStop, AutoStopped, ManualStep, ManualCall, Call,
           Begin, Step
    <2>3. ASSUME Step(p) PROVE \E u : th' = [th EXCEPT ![p] = u]
        BY <2>3 DEF Step, Check, Subscribe, Insert, Rollback, RollbackEnd, Online,
           Remove, Unsubscribe, Offline, StopSnapshot, StopEnd, Disconnect,
           RestoreSnapshot, RestoreStart, RestoreEnd, StopNext, RestoreNext, Return
    <2> QED BY <2>1, <2>2, <2>3 DEF Base, TypeOK
<1>7. CASE \/ \E a \in AGVs, o \in {"track", "untrack"} : Schedule(a, o)
           \/ WorkerExit \/ AutoStart \/ StartFails \/ UNCHANGED allVars
    BY <1>2, <1>7 DEF Schedule, WorkerExit, AutoStart, Start, StartFails, allVars, vars
<1> QED BY <1>3, <1>4, <1>5, <1>6, <1>7 DEF AutoNext

LEMMA QueueNext ==
    ASSUME Base, QueueOK, JobCalls, [AutoNext]_allVars PROVE QueueOK'
<1>1. CASE UNCHANGED <<queueVars, seen>>
    BY <1>1 DEF queueVars, seen, QueueOK
<1>2. ASSUME NEW a \in AGVs, NEW o \in {"track", "untrack"}, Schedule(a, o)
      PROVE  QueueOK'
    <2> DEFINE j == [agv |-> a, op |-> o]
    <2>1. j \in Jobs
        BY DEF Jobs
    <2>2. Append(jobs, j) \in Seq(Jobs) /\ Len(Append(jobs, j)) = Len(jobs) + 1
            /\ Len(jobs) \in Nat
        BY <2>1, AppendProperties, LenProperties DEF QueueOK
    <2>3. jobs' \in Seq(Jobs) /\ Len(jobs') <= QueueSize
        BY <1>2, <2>2, Worker DEF Schedule, HasRoom, QueueOK
    <2> QED BY <1>2, <2>3 DEF Schedule, Overflow, QueueOK
<1>3. CASE TakeJob
    <2>1. Tail(jobs) \in Seq(Jobs) /\ Len(Tail(jobs)) <= QueueSize
        BY <1>3, HeadTail, Worker DEF TakeJob, QueueOK
    <2> QED BY <1>3, <2>1 DEF TakeJob, QueueOK, Races
<1>4. CASE JobStep
    <2>1. th[AutoWorker].op # "restore" /\ Step(AutoWorker)
        BY <1>4 DEF JobStep, JobCalls
    <2>2. th[AutoWorker].pc # "idle"
        BY <2>1, Worker, OpKept
    <2>3. th[AutoWorker].failed => th[AutoWorker].agv \in AGVs
        <3>1. th[AutoWorker].op = "none" => th[AutoWorker].pc = "idle"
            BY Worker, CallFacts DEF PlaceOK, Threads, Tracking, Removing
        <3> QED BY <2>2, <3>1, Worker, AboutAGV DEF JobCalls
    <2> QED BY <1>4, <2>3 DEF JobStep, QueueOK, queueVars, Races
<1>5. CASE WorkerExit
    BY <1>5 DEF WorkerExit, QueueOK, seen
<1>6. CASE AutoStart
    BY <1>6, EmptyQueue DEF AutoStart, QueueOK
<1>7. ASSUME NEW p \in Callers, AutoStopped(p) PROVE QueueOK'
    BY <1>7, EmptyQueue DEF AutoStopped, QueueOK, seen
<1>8. ASSUME NEW p \in Callers, AutoStop(p) PROVE QueueOK'
    BY <1>8 DEF AutoStop, QueueOK, seen
<1>9. ASSUME NEW p \in Callers, NEW a \in AGVs, NEW o, ManualCall(p, o, a)
      PROVE  QueueOK'
    BY <1>9 DEF ManualCall, QueueOK, queueVars, Races
<1>10. CASE UNCHANGED allVars
    BY <1>1, <1>10 DEF allVars
<1>11. ASSUME NEW p \in Callers, ManualStep(p) PROVE QueueOK'
    BY <1>11 DEF ManualStep, QueueOK, queueVars, Races
<1> QED BY <1>1, <1>2, <1>3, <1>4, <1>5, <1>6, <1>7, <1>8, <1>9, <1>10,
           <1>11
        DEF AutoNext

AutoBase == Base /\ QueueOK /\ JobCalls

LEMMA AutoBaseInit == AutoInit => AutoBase
<1> SUFFICES ASSUME AutoInit PROVE AutoBase
    OBVIOUS
<1>1. Base
    BY BaseInit DEF AutoInit
<1>2. QueueOK
    BY EmptyQueue DEF AutoInit, QueueOK
<1>3. JobCalls
    BY Worker DEF AutoInit, Init, JobCalls, Idle
<1> QED BY <1>1, <1>2, <1>3 DEF AutoBase

LEMMA AutoCorrect == AutoSpec => []AutoBase
<1>1. AutoInit => AutoBase
    BY AutoBaseInit
<1>2. AutoBase /\ [AutoNext]_allVars => AutoBase'
    BY AutoBaseNext, QueueNext, JobCallsNext DEF AutoBase
<1> QED BY <1>1, <1>2, PTL DEF AutoSpec

\* Types, for every fleet, queue and number of platform goroutines: the queue
\* never holds more jobs than the channel has room for, and the worker reports
\* errors about AGVs of the fleet only.
THEOREM AutoTypeCorrect == AutoSpec => []AutoTypeOK
<1>1. AutoBase => AutoTypeOK
    BY DEF AutoBase, Base, QueueOK, AutoTypeOK
<1> QED BY <1>1, AutoCorrect, PTL

-----------------------------------------------------------------------------
(***************************************************************************)
(* The hooks, with any number of platform goroutines.                      *)
(***************************************************************************)
LEMMA AutoHooksNext ==
    ASSUME IsFiniteSet(Procs), AutoBase, AutoBase', HooksAddUp, NoRestore,
           [AutoNext]_allVars
    PROVE  HooksAddUp' /\ NoRestore'
<1>1. Base /\ Base' /\ QueueOK /\ AutoWorker \in Procs
    BY Worker DEF AutoBase
<1>2. CASE TakeJob
    <2> DEFINE j == Head(jobs)
               t == [Idle EXCEPT !.op = j.op, !.agv = j.agv,
                                 !.pc = IF j.op = "track" THEN "check" ELSE "remove"]
    <2>1. j \in Jobs /\ Begin(AutoWorker, t) /\ UNCHANGED <<hooks, tracked>>
        BY <1>1, <1>2, HeadTail DEF TakeJob, fleetVars, ghosts
    <2>2. t \in Threads /\ t.op = j.op
            /\ t.pc = IF j.op = "track" THEN "check" ELSE "remove"
        BY <2>1, JobCall
    <2>3. j.op \in {"track", "untrack"}
        BY <2>1 DEF Jobs
    <2> HIDE DEF t, j
    <2> QED BY <1>1, <2>1, <2>2, <2>3, BeginHooks
<1>3. CASE JobStep
    BY <1>1, <1>3, StepHooks DEF JobStep
<1>4. ASSUME NEW p \in Callers \ {AutoWorker},
             \/ AutoStop(p) \/ AutoStopped(p) \/ ManualStep(p)
             \/ \E o \in Calls, a \in AGVs : ManualCall(p, o, a)
      PROVE  HooksAddUp' /\ NoRestore'
    <2>1. p \in Procs
        BY DEF Procs
    <2>2. \/ Step(p) \/ CallStop(p)
          \/ \E o \in Calls, a \in AGVs : Call(p, o, a)
        BY <1>4 DEF AutoStop, AutoStopped, ManualStep, ManualCall, Step
    <2> QED BY <1>1, <2>1, <2>2, StepHooks, CallHooks
<1>5. CASE \/ \E a \in AGVs, o \in {"track", "untrack"} : Schedule(a, o)
           \/ WorkerExit \/ AutoStart \/ StartFails \/ UNCHANGED allVars
    BY <1>5, SameHooks DEF Schedule, WorkerExit, AutoStart, Start, StartFails,
       allVars, vars, fleetVars, ghosts
<1> QED BY <1>2, <1>3, <1>4, <1>5 DEF AutoNext

\* OnAGVOnline and OnAGVOffline with auto-track: however the jobs, the calls of
\* the platform and the failures of the broker interleave, the hooks fired agree
\* with the map as soon as no call is running.
THEOREM AutoHooksMatchMap ==
    ASSUME IsFiniteSet(Callers), IsFiniteSet(Restorers)
    PROVE  AutoSpec => []HooksAgree
<1> DEFINE Inv == HooksAddUp /\ NoRestore
<1>1. IsFiniteSet(Procs)
    BY FS_Union DEF Procs
<1>2. AutoInit => Inv
    BY <1>1, HooksInit DEF AutoInit
<1>3. AutoBase /\ AutoBase' /\ Inv /\ [AutoNext]_allVars => Inv'
    BY <1>1, AutoHooksNext
<1>4. AutoBase /\ Inv => HooksAgree
    BY AddUpAgree DEF AutoBase
<1> HIDE DEF Inv
<1> QED BY <1>2, <1>3, <1>4, AutoCorrect, PTL DEF AutoSpec

-----------------------------------------------------------------------------
(***************************************************************************)
(* One platform goroutine c beside the worker.                             *)
(***************************************************************************)
Pair(c) == Callers = {c, AutoWorker} /\ c # AutoWorker /\ Restorers = {}

\* Where the client is, by what the platform is doing.  Between the end of the
\* worker and the disconnection, c alone empties the map.
PhaseOK(c) ==
    LET t == th[c]
        w == th[AutoWorker]
    IN
    /\ t.op # "restore"
    /\ ~alive => w = Idle
    /\ ~up => ~cstarted /\ ~alive /\ tracked = {} /\ t = Idle
    /\ t.op = "stop" <=> up /\ ~cstarted
    /\ t.op = "stop" /\ t.pc # "stop" =>
           /\ ~alive
           /\ \A a \in tracked : a \in t.todo \/ (t.pc = "remove" /\ t.agv = a)
    /\ t.pc = "disconnect" => t.todo = {}

\* How far the worker is with what was last heard of an AGV.
About(a) == {i \in 1 .. Len(jobs) : jobs[i].agv = a}
Settled(a) == latest[a] # "none" => (a \in tracked <=> latest[a] = "track")

HeardOK(a) ==
    LET w == th[AutoWorker] IN
    a \notin reported =>
        /\ \A i \in About(a) : (\A k \in About(a) : k <= i) => jobs[i].op = latest[a]
        /\ About(a) = {} =>
               IF w.pc # "idle" /\ w.agv = a THEN w.op = latest[a] ELSE Settled(a)

WorkerOK ==
    LET w == th[AutoWorker] IN
    w.pc # "idle" /\ w.agv \notin manual =>
        /\ w.pc = "online" => w.agv \in tracked
        /\ w.pc \in {"sub", "insert", "unsub"} => w.agv \notin tracked
        /\ w.pc = "rollback" => w.failed

LatestOK(c) ==
    /\ th[c].op \in {"track", "untrack"} => th[c].agv \in manual
    /\ cstarted => WorkerOK /\ \A a \in AGVs \ manual : HeardOK(a)

-----------------------------------------------------------------------------
(***************************************************************************)
(* The phases of Start and Stop.                                           *)
(***************************************************************************)
LEMMA PairFacts ==
    ASSUME NEW c, Pair(c), AutoBase
    PROVE  /\ Procs = {c, AutoWorker} /\ c \in Procs /\ AutoWorker \in Procs
           /\ c # AutoWorker /\ Callers \ {AutoWorker} = {c}
           /\ th[c] \in Threads /\ th[AutoWorker] \in Threads
           /\ th[AutoWorker].op \in {"none", "track", "untrack"}
           /\ th[c].op = "none" => th[c].pc = "idle"
           /\ Only(c) => th'[AutoWorker] = th[AutoWorker]
           /\ Only(AutoWorker) => th'[c] = th[c]
<1>1. /\ Procs = {c, AutoWorker} /\ c # AutoWorker /\ Callers \ {AutoWorker} = {c}
    BY DEF Pair, Procs
<1>2. th[c].op = "none" => th[c].pc = "idle"
    BY <1>1, CallFacts DEF AutoBase, PlaceOK, Threads, Tracking, Removing
<1> QED BY <1>1, <1>2, CallFacts DEF AutoBase, JobCalls, Only

LEMMA StepKeeps ==
    ASSUME Base, NEW p \in Procs, Step(p), th[p].op # "restore"
    PROVE  UNCHANGED <<cstarted, calls>> /\ (~Disconnect(p) => UNCHANGED up)
<1>1. CASE Check(p) \/ Subscribe(p) \/ Insert(p) \/ Rollback(p) \/ Unsubscribe(p)
    BY <1>1, CheckMove, SubscribeMove, InsertMove, CancelMove
<1>2. CASE \/ RollbackEnd(p) \/ Online(p) \/ Offline(p) \/ Remove(p)
    BY <1>2, EndMove, RemoveMove
<1>3. CASE \/ StopSnapshot(p) \/ StopEnd(p) \/ Disconnect(p)
           \/ \E a \in AGVs : StopNext(p, a)
    BY <1>3, StopMove, DisconnectMove
<1> QED BY <1>1, <1>2, <1>3, StepKinds

\* Steps of the calls of Track and Untrack.
LEMMA PhaseTrack ==
    ASSUME NEW c, Pair(c), AutoBase, AutoBase', PhaseOK(c), Step(c),
           UNCHANGED alive, th[c].op # "stop"
    PROVE  PhaseOK(c)'
<1>1. /\ c \in Procs /\ Base /\ Base' /\ th[c].op # "restore"
    BY PairFacts DEF AutoBase, PhaseOK
<1>2. /\ Only(c) /\ th'[c].op \in {th[c].op, "none"} /\ th[c].pc # "idle"
    BY <1>1, OpKept
<1>3. UNCHANGED <<cstarted, up>>
    BY <1>1, StepKeeps, DisconnectMove
<1>4. th'[c].pc # "disconnect" /\ th'[c].op \notin {"stop", "restore"}
    BY <1>1, <1>2, CallFacts DEF Base, CallsOK, CallOK, PlaceOK
<1>5. th'[AutoWorker] = th[AutoWorker]
    BY <1>2, PairFacts
<1>6. up
    BY <1>2 DEF PhaseOK, Idle
<1> QED BY <1>3, <1>4, <1>5, <1>6 DEF PhaseOK

\* Steps of the calls of Stop.
LEMMA PhaseStop ==
    ASSUME NEW c, Pair(c), AutoBase, AutoBase', PhaseOK(c), Step(c),
           UNCHANGED alive, th[c].op = "stop", StopSnapshot(c) => ~alive
    PROVE  PhaseOK(c)'
<1> DEFINE t == th[c]
           u == th'[c]
<1>1. /\ c \in Procs /\ Base /\ Base' /\ t.op # "restore" /\ up /\ ~cstarted
      /\ (t.pc # "stop" => ~alive)
      /\ (t.pc # "stop" =>
            \A a \in tracked : a \in t.todo \/ (t.pc = "remove" /\ t.agv = a))
      /\ (t.pc = "disconnect" => t.todo = {}) /\ (~alive => th[AutoWorker] = Idle)
    BY PairFacts DEF AutoBase, PhaseOK
<1>2. Only(c) /\ UNCHANGED cstarted /\ th'[AutoWorker] = th[AutoWorker]
    BY <1>1, OpKept, StepKeeps, PairFacts
<1>3. CASE ~Disconnect(c)
    <2>1. UNCHANGED up
        BY <1>1, <1>3, StepKeeps
    <2>2. ASSUME u.op = "stop", ~alive,
                 \A a \in tracked' : a \in u.todo \/ (u.pc = "remove" /\ u.agv = a),
                 u.pc = "disconnect" => u.todo = {}
          PROVE  PhaseOK(c)'
        BY <1>1, <1>2, <2>1, <2>2 DEF PhaseOK
    <2>3. CASE Ends(u, t) /\ t.pc # "stop" /\ tracked' = tracked
                 /\ (t.pc = "remove" => t.agv \notin tracked)
        <3>1. u.op = "stop" /\ u.pc = "stopNext" /\ u.todo = t.todo
            BY <2>3 DEF Ends, SameCall
        <3>2. \A a \in tracked' : a \in u.todo
            BY <1>1, <2>3, <3>1
        <3> QED BY <1>1, <2>2, <2>3, <3>1, <3>2
    <2>4. CASE Unsubscribe(c)
        <3>1. /\ t.pc = "unsub" /\ u.pc = "unsub" /\ u.todo = t.todo /\ u.op = "stop"
              /\ tracked' = tracked
            BY <1>1, <2>4, CancelMove DEF SameCall, Unsubscribe
        <3> QED BY <1>1, <2>2, <3>1
    <2>5. CASE Offline(c)
        BY <1>1, <2>3, <2>5, EndMove DEF Offline
    <2>6. CASE Remove(c)
        <3>1. CASE t.agv \notin tracked
            BY <1>1, <2>3, <2>6, <3>1, RemoveMove
        <3>2. CASE t.agv \in tracked
            <4>1. /\ t.pc = "remove" /\ u.pc = "unsub" /\ u.todo = t.todo
                  /\ u.op = "stop" /\ tracked' = tracked \ {t.agv}
                BY <1>1, <2>6, <3>2, RemoveMove DEF SameCall
            <4> QED BY <1>1, <2>2, <4>1
        <3> QED BY <3>1, <3>2
    <2>7. CASE StopSnapshot(c) \/ StopEnd(c) \/ \E a \in AGVs : StopNext(c, a)
        <3>1. /\ u.op = "stop" /\ tracked' = tracked
              /\ (u.pc = "disconnect" => u.todo = {})
              /\ \/ ~alive /\ u.todo = tracked
                 \/ t.pc = "stopNext" /\
                      \A b \in t.todo : b \in u.todo \/ (u.pc = "remove" /\ u.agv = b)
            BY <1>1, <2>7, StopMove
        <3>2. ~alive
            BY <1>1, <3>1
        <3>3. \A a \in tracked' : a \in u.todo \/ (u.pc = "remove" /\ u.agv = a)
            BY <1>1, <3>1
        <3> QED BY <2>2, <3>1, <3>2, <3>3
    <2>8. t.pc \notin {"check", "sub", "insert", "rollback", "online"}
        BY <1>1, CallFacts DEF PlaceOK, Tracking
    <2>9. ~Check(c) /\ ~Subscribe(c) /\ ~Insert(c) /\ ~Rollback(c) /\ ~RollbackEnd(c)
            /\ ~Online(c)
        BY <2>8 DEF Check, Subscribe, Insert, Rollback, RollbackEnd, Online
    <2> QED BY <1>1, <1>3, <2>4, <2>5, <2>6, <2>7, <2>9, StepKinds
<1>4. CASE Disconnect(c)
    <2>1. /\ u = Idle /\ t.pc = "disconnect" /\ ~up' /\ tracked' = tracked
        BY <1>1, <1>4, DisconnectMove
    <2>2. tracked = {} /\ ~alive
        BY <1>1, <2>1
    <2> QED BY <1>1, <1>2, <2>1, <2>2 DEF PhaseOK, Idle
<1> QED BY <1>3, <1>4

\* Steps of the worker: Stop waits for it before it looks at the map.
LEMMA PhaseWorker ==
    ASSUME NEW c, Pair(c), AutoBase, AutoBase', PhaseOK(c),
           TakeJob \/ JobStep \/ WorkerExit
    PROVE  PhaseOK(c)'
<1>1. CASE WorkerExit
    BY <1>1 DEF WorkerExit, vars, PhaseOK, fleetVars, ghosts
<1>2. CASE TakeJob \/ JobStep
    <2>1. alive /\ UNCHANGED <<up, cstarted, alive>> /\ th'[c] = th[c]
        <3>1. CASE TakeJob
            BY <3>1, PairFacts DEF TakeJob, Begin, AutoBase, Base, TypeOK
        <3>2. CASE JobStep
            <4>1. Step(AutoWorker) /\ th[AutoWorker].op \notin {"restore", "stop"}
                BY <3>2, PairFacts DEF JobStep
            <4>2. /\ Only(AutoWorker) /\ UNCHANGED <<cstarted, up>>
                  /\ th[AutoWorker].pc # "idle"
                BY <4>1, PairFacts, OpKept, StepKeeps, DisconnectMove DEF AutoBase
            <4> QED BY <3>2, <4>2, PairFacts DEF JobStep, queueVars, PhaseOK, Idle
        <3> QED BY <1>2, <3>1, <3>2
    <2> QED BY <2>1 DEF PhaseOK
<1> QED BY <1>1, <1>2

LEMMA PhaseNext ==
    ASSUME NEW c, Pair(c), AutoBase, AutoBase', PhaseOK(c), [AutoNext]_allVars
    PROVE  PhaseOK(c)'
<1>1. CASE TakeJob \/ JobStep \/ WorkerExit
    BY <1>1, PhaseWorker
<1>2. CASE ManualStep(c) \/ AutoStopped(c)
    <2>1. Step(c) /\ UNCHANGED alive /\ (StopSnapshot(c) => ~alive)
        BY <1>2 DEF ManualStep, AutoStopped, Step, queueVars, StopSnapshot, WorkerGone
    <2> QED BY <2>1, PhaseTrack, PhaseStop
<1>3. CASE AutoStop(c)
    <2> DEFINE t == [Idle EXCEPT !.op = "stop", !.pc = "stop"]
    <2>1. /\ Begin(c, t) /\ cstarted /\ ~cstarted' /\ UNCHANGED <<up, tracked, alive>>
        BY <1>3 DEF AutoStop, CallStop, fleetVars
    <2>2. t \in Threads /\ t.op = "stop" /\ t.pc = "stop"
        BY IdleType DEF Threads
    <2> HIDE DEF t
    <2>3. th'[c].op = "stop" /\ th'[c].pc = "stop" /\ th'[AutoWorker] = th[AutoWorker]
        BY <2>1, <2>2, PairFacts, BeginMove DEF AutoBase
    <2> QED BY <2>1, <2>3 DEF PhaseOK
<1>4. ASSUME NEW o \in Calls, NEW a \in AGVs, ManualCall(c, o, a)
      PROVE  PhaseOK(c)'
    <2> DEFINE x == IF o = "track" THEN "check" ELSE "remove"
               t == [Idle EXCEPT !.op = o, !.agv = a, !.pc = x]
    <2>1. /\ Begin(c, t) /\ o \in {"track", "untrack"} /\ x \in {"check", "remove"}
          /\ cstarted /\ UNCHANGED <<up, cstarted, tracked, alive>>
        BY <1>4 DEF ManualCall, Call, fleetVars, queueVars
    <2> HIDE DEF x
    <2>2. t \in Threads /\ t.op = o /\ t.pc = x
        BY <2>1, IdleType DEF Threads
    <2> HIDE DEF t
    <2>3. th'[c].op = o /\ th'[c].pc = x /\ th'[AutoWorker] = th[AutoWorker]
        BY <2>1, <2>2, PairFacts, BeginMove DEF AutoBase
    <2> QED BY <2>1, <2>3 DEF PhaseOK
<1>5. CASE AutoStart
    BY <1>5 DEF AutoStart, Start, PhaseOK, Idle
<1>6. CASE \/ UNCHANGED allVars
           \/ StartFails /\ UNCHANGED <<queueVars, seen>>
           \/ \E a \in AGVs, o \in {"track", "untrack"} : Schedule(a, o)
    <2>1. UNCHANGED <<up, cstarted, alive, tracked, th>>
        BY <1>6 DEF Schedule, StartFails, allVars, vars, fleetVars, queueVars
    <2> QED BY <2>1 DEF PhaseOK
<1> QED BY <1>1, <1>2, <1>3, <1>4, <1>5, <1>6, PairFacts DEF AutoNext

-----------------------------------------------------------------------------
\* The calls of the platform and of the worker, with what they have.
PairBase(c) == AutoBase /\ PhaseOK(c)

LEMMA PairBaseSpec == ASSUME NEW c, Pair(c) PROVE AutoSpec => []PairBase(c)
<1>1. AutoInit => PairBase(c)
    <2>1. AutoInit => PhaseOK(c)
        BY PairFacts, AutoBaseInit DEF AutoInit, Init, PhaseOK, Idle
    <2> QED BY <2>1, AutoBaseInit DEF PairBase
<1>2. PairBase(c) /\ [AutoNext]_allVars => PairBase(c)'
    <2>1. AutoBase /\ [AutoNext]_allVars => AutoBase'
        BY AutoBaseNext, QueueNext, JobCallsNext DEF AutoBase
    <2> QED BY <2>1, PhaseNext DEF PairBase
<1> QED BY <1>1, <1>2, PTL DEF AutoSpec

\* Stop "untracks all AGVs" with the auto-track worker running: the worker may
\* be in the middle of tracking an AGV when Stop is called, whatever it has
\* reached and whatever jobs it finds afterwards; once Stop has returned,
\* nothing is tracked.
THEOREM StopUntracksAllOfTheWorker ==
    ASSUME NEW c, Pair(c) PROVE AutoSpec => []StopUntracksAll
<1>1. PairBase(c) => StopUntracksAll
    <2> SUFFICES ASSUME PairBase(c), ~cstarted, \A p \in Procs : th[p] = Idle
                 PROVE  tracked = {}
        BY DEF StopUntracksAll
    <2>1. th[c].op = "none"
        BY PairFacts DEF PairBase, Idle
    <2> QED BY <2>1 DEF PairBase, PhaseOK
<1> QED BY <1>1, PairBaseSpec, PTL

-----------------------------------------------------------------------------
(***************************************************************************)
(* Subscriptions.  A call that cancels a handle unsubscribes its filter,   *)
(* so an AGV keeps its subscriptions if no other call is at work on it.    *)
(***************************************************************************)
Busy == {"sub", "insert", "rollback", "unsub"}

AtMostOne(a) ==
    \A p, q \in Procs : p # q => ~(AtWork(p, a) /\ AtWork(q, a))

\* What the entry of an AGV has is subscribed, and so is what the call at work
\* on it has acquired; while it acquires or cancels, the AGV is not tracked.
Sound(a) ==
    /\ AtMostOne(a)
    /\ a \in tracked => Elems(unsubs[a]) \subseteq subs
    /\ \A p \in Procs : th[p].agv = a /\ th[p].pc \in Busy =>
           /\ a \notin tracked
           /\ th[p].pc \in {"sub", "insert"} => Elems(th[p].got) \subseteq subs

UncontestedOK == \A a \in AGVs \ raced : Sound(a)

LEMMA BusyAtWork ==
    ASSUME NEW p, NEW a, th[p].agv = a, th[p].pc \in Busy PROVE AtWork(p, a)
BY DEF Busy, AtWork

\* The filters of the entries and of the calls.
LEMMA FiltersOf ==
    ASSUME Base, NEW a \in AGVs
    PROVE  /\ a # None
           /\ a \in tracked => \A h \in Elems(unsubs[a]) : h.filter[1] = a
           /\ \A p \in Procs : th[p].agv = a =>
                  \A h \in Elems(th[p].got) : h.filter[1] = a
BY CallFacts, ConstantsAssumption DEF Base, EntriesOK, GotOK, Elems

\* A step of goroutine p that enters no handles for a and cancels none of a.
LEMMA SoundKept ==
    ASSUME Base, NEW p \in Procs, NEW a \in AGVs, Sound(a), AtMostOne(a)', Only(p),
           a \in tracked' => a \in tracked /\ unsubs'[a] = unsubs[a],
           \A h \in subs : h.filter[1] = a => h \in subs',
           th'[p].agv = a /\ th'[p].pc \in Busy =>
               /\ a \notin tracked'
               /\ th'[p].pc \in {"sub", "insert"} => Elems(th'[p].got) \subseteq subs'
    PROVE  Sound(a)'
<1>1. \A q \in Procs \ {p} : th'[q] = th[q]
    BY DEF Only
<1>2. a \in tracked' => Elems(unsubs'[a]) \subseteq subs'
    BY FiltersOf DEF Sound
<1>3. ASSUME NEW q \in Procs \ {p}, th'[q].agv = a, th'[q].pc \in Busy
      PROVE  /\ a \notin tracked'
             /\ th'[q].pc \in {"sub", "insert"} => Elems(th'[q].got) \subseteq subs'
    <2>1. th[q] = th'[q] /\ a \notin tracked
        BY <1>1, <1>3 DEF Sound
    <2>2. th[q].pc \in {"sub", "insert"} =>
              \A h \in Elems(th[q].got) : h \in subs /\ h.filter[1] = a
        BY <1>3, <2>1, FiltersOf DEF Sound
    <2> QED BY <2>1, <2>2
<1> QED BY <1>2, <1>3 DEF Sound

LEMMA EndsIdle ==
    ASSUME NEW p, NEW t, Ends(th'[p], t) PROVE th'[p].pc \notin Busy
BY DEF Ends, Busy, Idle

LEMMA SoundStep ==
    ASSUME Base, Base', NEW p \in Procs, Step(p), ~Disconnect(p),
           th[p].op # "restore", NEW a \in AGVs, Sound(a), AtMostOne(a)'
    PROVE  Sound(a)'
<1> DEFINE t == th[p]
           u == th'[p]
<1>1. CASE Check(p)
    <2>1. CASE t.agv \in tracked
        BY <1>1, <2>1, CheckMove, EndsIdle, SoundKept
    <2>2. CASE t.agv \notin tracked
        BY <1>1, <2>2, CheckMove, ElemsEmpty, SoundKept DEF SameCall
    <2> QED BY <2>1, <2>2
<1>2. CASE Subscribe(p)
    <2>1. u.agv = t.agv /\ t.pc \in Busy /\ t.pc = "sub" /\ subs \subseteq subs'
            /\ Only(p) /\ UNCHANGED <<tracked, unsubs>>
        BY <1>2, SubscribeMove DEF SameCall, Busy
    <2>2. ASSUME u.agv = a
          PROVE  /\ a \notin tracked'
                 /\ u.pc \in {"sub", "insert"} => Elems(u.got) \subseteq subs'
        <3>1. a \notin tracked /\ Elems(t.got) \subseteq subs
            BY <2>1, <2>2 DEF Sound
        <3> QED BY <1>2, <2>1, <3>1, SubscribeMove
    <2> QED BY <2>1, <2>2, SoundKept
<1>3. CASE Insert(p) /\ t.agv \in tracked
    <2>1. t.pc \in Busy /\ t.pc = "insert" /\ t.agv # a
        BY <1>3, InsertMove DEF Sound, Busy
    <2> QED BY <1>3, <2>1, InsertMove, SoundKept DEF SameCall
<1>4. CASE Insert(p) /\ t.agv \notin tracked
    <2>1. /\ Only(p) /\ UNCHANGED subs /\ t.pc = "insert" /\ u.agv = t.agv
          /\ tracked' = tracked \cup {t.agv} /\ t.agv \in AGVs
          /\ unsubs' = [unsubs EXCEPT ![t.agv] = t.got] /\ u.pc = "online"
          /\ unsubs \in [AGVs -> Seq(Handles)]
        BY <1>4, InsertMove DEF SameCall, Base, TypeOK
    <2>2. CASE t.agv # a
        BY <2>1, <2>2, SoundKept
    <2>3. CASE t.agv = a
        <3>1. Elems(unsubs'[a]) \subseteq subs'
            BY <2>1, <2>3 DEF Sound, Busy
        <3>2. ASSUME NEW q \in Procs, th'[q].agv = a, th'[q].pc \in Busy PROVE FALSE
            <4>1. q # p /\ th'[q] = th[q]
                BY <2>1, <3>2 DEF Busy, Only
            <4>2. AtWork(q, a) /\ AtWork(p, a)
                BY <2>1, <2>3, <3>2, <4>1, BusyAtWork DEF Busy
            <4> QED BY <4>1, <4>2 DEF Sound, AtMostOne
        <3> QED BY <3>1, <3>2 DEF Sound
    <2> QED BY <2>2, <2>3
<1>5. CASE Rollback(p) \/ Unsubscribe(p)
    <2>1. /\ Only(p) /\ UNCHANGED <<tracked, unsubs>> /\ u.agv = t.agv
          /\ t.pc \in {"rollback", "unsub"} /\ u.pc = t.pc
          /\ \A h \in subs : h.filter[1] # t.agv => h \in subs'
        BY <1>5, CancelMove DEF SameCall
    <2>2. CASE t.agv # a
        BY <2>1, <2>2, SoundKept
    <2>3. CASE t.agv = a
        <3>1. a \notin tracked'
            BY <2>1, <2>3 DEF Sound, Busy
        <3>2. ASSUME NEW q \in Procs, th'[q].agv = a, th'[q].pc \in {"sub", "insert"}
              PROVE  FALSE
            <4>1. q # p /\ th'[q] = th[q]
                BY <2>1, <3>2 DEF Only
            <4>2. AtWork(q, a) /\ AtWork(p, a)
                BY <2>1, <2>3, <3>2, <4>1, BusyAtWork DEF Busy
            <4> QED BY <4>1, <4>2 DEF Sound, AtMostOne
        <3> QED BY <3>1, <3>2 DEF Sound
    <2> QED BY <2>2, <2>3
<1>6. CASE RollbackEnd(p) \/ Online(p) \/ Offline(p)
    BY <1>6, EndMove, EndsIdle, SoundKept
<1>7. CASE Remove(p) /\ t.agv \notin tracked
    BY <1>7, RemoveMove, EndsIdle, SoundKept
<1>8. CASE Remove(p) /\ t.agv \in tracked
    <2>1. /\ Only(p) /\ UNCHANGED subs /\ u.agv = t.agv /\ u.pc = "unsub"
          /\ tracked' = tracked \ {t.agv} /\ t.agv \in AGVs
          /\ unsubs' = [unsubs EXCEPT ![t.agv] = << >>]
          /\ unsubs \in [AGVs -> Seq(Handles)]
        BY <1>8, RemoveMove DEF SameCall, Base, TypeOK
    <2> QED BY <2>1, SoundKept
<1>9. CASE StopSnapshot(p) \/ StopEnd(p) \/ \E b \in AGVs : StopNext(p, b)
    <2>1. /\ Only(p) /\ UNCHANGED <<tracked, unsubs>> /\ u.pc \notin Busy
          /\ \A h \in subs : h.filter[1] # None => h \in subs'
        BY <1>9, StopMove DEF Busy
    <2> QED BY <2>1, FiltersOf, SoundKept
<1> QED BY <1>1, <1>2, <1>3, <1>4, <1>5, <1>6, <1>7, <1>8, <1>9, StepKinds

\* What the history says: an AGV that leaves it, or was not in it, has at most
\* one call at work; one that leaves it has none and is not tracked.
LEMMA RacesFacts ==
    ASSUME Races, NEW a \in AGVs \ raced'
    PROVE  /\ AtMostOne(a)'
           /\ a \in raced => Sound(a)'
<1>1. AtMostOne(a)'
    BY DEF Races, AtMostOne
<1>2. ASSUME a \in raced PROVE Sound(a)'
    <2>1. a \notin tracked' /\ \A p \in Procs : ~AtWork(p, a)'
        BY <1>2 DEF Races
    <2>2. \A p \in Procs : ~(th'[p].agv = a /\ th'[p].pc \in Busy)
        BY <2>1 DEF AtWork, Busy
    <2> QED BY <1>1, <2>1, <2>2 DEF Sound
<1> QED BY <1>1, <1>2

\* A call that begins.
LEMMA SoundBegin ==
    ASSUME Base, NEW p \in Procs, NEW t \in Threads, Begin(p, t), t.pc \notin Busy,
           UNCHANGED <<tracked, unsubs, subs>>, NEW a \in AGVs, Sound(a), AtMostOne(a)'
    PROVE  Sound(a)'
BY BeginMove, SoundKept

LEMMA UncontestedNext ==
    ASSUME NEW c, Pair(c), PairBase(c), PairBase(c)', UncontestedOK, [AutoNext]_allVars
    PROVE  UncontestedOK'
<1>1. /\ Base /\ Base' /\ QueueOK /\ Procs = {c, AutoWorker}
      /\ AutoWorker \in Procs /\ c \in Procs
    BY PairFacts DEF PairBase, AutoBase
<1>2. \A p \in Procs : th[p].op # "restore"
    BY <1>1, PairFacts DEF PairBase, PhaseOK
<1>3. ASSUME NEW p \in Procs, Step(p), NEW a \in AGVs, Sound(a), AtMostOne(a)'
      PROVE  Sound(a)'
    <2>1. CASE ~Disconnect(p)
        BY <1>1, <1>2, <1>3, <2>1, SoundStep
    <2>2. CASE Disconnect(p)
        <3>1. tracked' = tracked /\ th[p].pc = "disconnect" /\ th[p].op = "stop"
                /\ th'[p] = Idle /\ \A q \in Procs \ {p} : th'[q] = th[q]
            BY <1>1, <2>2, DisconnectMove DEF Only
        <3>2. p = c
            BY <1>1, <3>1, PairFacts DEF PairBase
        <3>3. tracked = {} /\ th[AutoWorker] = Idle
            BY <3>1, <3>2 DEF PairBase, PhaseOK
        <3>4. tracked' = {} /\ \A q \in Procs : th'[q].pc = "idle"
            BY <1>1, <3>1, <3>2, <3>3 DEF Idle
        <3> QED BY <1>3, <3>4 DEF Sound, Busy
    <2> QED BY <2>1, <2>2
<1>4. ASSUME NEW p \in Procs, Step(p), Races PROVE UncontestedOK'
    BY <1>3, <1>4, RacesFacts DEF UncontestedOK
<1>5. ASSUME NEW p \in Procs, NEW t \in Threads, Begin(p, t), t.pc \notin Busy, Races,
             UNCHANGED <<tracked, unsubs, subs>>
      PROVE  UncontestedOK'
    BY <1>1, <1>5, SoundBegin, RacesFacts DEF UncontestedOK
<1>6. CASE TakeJob
    <2> DEFINE j == Head(jobs)
               t == [Idle EXCEPT !.op = j.op, !.agv = j.agv,
                                 !.pc = IF j.op = "track" THEN "check" ELSE "remove"]
    <2>1. j \in Jobs /\ Begin(AutoWorker, t) /\ UNCHANGED <<tracked, unsubs, subs>>
            /\ Races
        BY <1>1, <1>6, HeadTail DEF TakeJob, fleetVars
    <2>2. t \in Threads /\ t.pc = IF j.op = "track" THEN "check" ELSE "remove"
        BY <2>1, JobCall
    <2> HIDE DEF t, j
    <2>3. t.pc \notin Busy
        BY <2>2 DEF Busy
    <2> QED BY <1>1, <1>5, <2>1, <2>2, <2>3
<1>7. ASSUME NEW o \in Calls, NEW a \in AGVs, ManualCall(c, o, a)
      PROVE  UncontestedOK'
    <2> DEFINE x == IF o = "track" THEN "check" ELSE "remove"
               t == [Idle EXCEPT !.op = o, !.agv = a, !.pc = x]
    <2>1. /\ Begin(c, t) /\ o \in {"track", "untrack"} /\ x \in {"check", "remove"}
          /\ UNCHANGED <<tracked, unsubs, subs>> /\ Races
        BY <1>7 DEF ManualCall, Call, fleetVars
    <2> HIDE DEF x
    <2>2. t \in Threads /\ t.pc = x
        BY <2>1, IdleType DEF Threads
    <2> HIDE DEF t
    <2>3. t.pc \notin Busy
        BY <2>1, <2>2 DEF Busy
    <2> QED BY <1>1, <1>5, <2>1, <2>2, <2>3
<1>8. CASE AutoStop(c)
    <2> DEFINE t == [Idle EXCEPT !.op = "stop", !.pc = "stop"]
    <2>1. Begin(c, t) /\ UNCHANGED <<tracked, unsubs, subs, raced>>
        BY <1>8 DEF AutoStop, CallStop, fleetVars, seen
    <2>2. t \in Threads /\ t.pc = "stop" /\ t.agv = None /\ t.pc \notin Busy
        BY IdleType DEF Threads, Idle, Busy
    <2> HIDE DEF t
    <2>3. Only(c) /\ th'[c].agv = None
        BY <1>1, <2>1, <2>2, BeginMove
    <2>4. ASSUME NEW a \in AGVs, AtMostOne(a) PROVE AtMostOne(a)'
        <3>1. ~AtWork(c, a)' /\ \A q \in Procs \ {c} : AtWork(q, a)' = AtWork(q, a)
            BY <1>1, <2>3, FiltersOf DEF AtWork, Only
        <3> QED BY <2>4, <3>1 DEF AtMostOne
    <2> QED BY <1>1, <2>1, <2>2, <2>4, SoundBegin DEF UncontestedOK, Sound
<1>9. CASE AutoStopped(c)
    <2>1. StopSnapshot(c) /\ UNCHANGED raced /\ Step(c)
        BY <1>9 DEF AutoStopped, seen, Step
    <2>2. Only(c) /\ th'[c].pc = "stopNext"
        BY <1>1, <2>1, StopMove DEF StopSnapshot, Base, TypeOK
    <2>3. ASSUME NEW a \in AGVs, AtMostOne(a) PROVE AtMostOne(a)'
        <3>1. ~AtWork(c, a)' /\ \A q \in Procs \ {c} : AtWork(q, a)' = AtWork(q, a)
            BY <2>2 DEF AtWork, Only
        <3> QED BY <2>3, <3>1 DEF AtMostOne
    <2> QED BY <1>1, <1>3, <2>1, <2>3 DEF UncontestedOK, Sound
<1>10. CASE AutoStart \/ StartFails
    <2>1. ~up /\ UNCHANGED <<tracked, th>>
        BY <1>10 DEF AutoStart, Start, StartFails
    <2>2. tracked = {} /\ \A p \in Procs : th[p] = Idle
        BY <1>1, <2>1 DEF PairBase, PhaseOK
    <2>3. tracked' = {} /\ \A p \in Procs : th'[p].pc = "idle" /\ th'[p].agv = None
        BY <2>1, <2>2 DEF Idle
    <2>4. \A a \in AGVs : Sound(a)'
        BY <1>1, <2>3, FiltersOf DEF Sound, AtMostOne, AtWork, Busy
    <2> QED BY <2>4 DEF UncontestedOK
<1>11. CASE \/ UNCHANGED allVars \/ WorkerExit
            \/ \E a \in AGVs, o \in {"track", "untrack"} : Schedule(a, o)
    <2>1. UNCHANGED <<th, tracked, unsubs, subs, raced>>
        BY <1>11 DEF Schedule, WorkerExit, allVars, vars, fleetVars, seen
    <2> QED BY <2>1 DEF UncontestedOK, Sound, AtMostOne, AtWork
<1> QED BY <1>1, <1>4, <1>6, <1>7, <1>8, <1>9, <1>10, <1>11, PairFacts
        DEF AutoNext, JobStep, ManualStep, PairBase

\* Track "subscribes per-AGV channels" with the auto-track worker running, for
\* every AGV that no two calls were at work on at once, whatever they do to the
\* others: calls may fail half-way and roll back, a broker call that reports an
\* error may have succeeded, and Stop may find the worker anywhere in a job.
THEOREM AutoTrackedAreSubscribed ==
    ASSUME NEW c, Pair(c)
    PROVE  AutoSpec => []UncontestedSubscribed
<1>1. AutoInit => UncontestedOK
    <2> SUFFICES ASSUME AutoInit PROVE UncontestedOK
        OBVIOUS
    <2>1. tracked = {} /\ \A p \in Procs : th[p].pc = "idle" /\ th[p].agv = None
        BY DEF AutoInit, Init, Idle
    <2> QED BY <2>1, ConstantsAssumption
            DEF UncontestedOK, Sound, AtMostOne, AtWork, Busy
<1>2. PairBase(c) /\ PairBase(c)' /\ UncontestedOK /\ [AutoNext]_allVars =>
          UncontestedOK'
    BY UncontestedNext
<1>3. PairBase(c) /\ UncontestedOK => UncontestedSubscribed
    <2> SUFFICES ASSUME PairBase(c), UncontestedOK, NEW a \in tracked \ raced,
                        NEW i \in 1 .. NChans
                 PROVE  Subscribed(<<a, i>>)
        BY DEF UncontestedSubscribed
    <2>1. /\ unsubs[a][i].filter = <<a, i>> /\ unsubs[a][i] \in Elems(unsubs[a])
          /\ a \in AGVs
        BY Bounds DEF PairBase, AutoBase, Base, EntriesOK, Elems, TypeOK
    <2>2. unsubs[a][i] \in subs
        BY <2>1 DEF UncontestedOK, Sound
    <2> QED BY <2>1, <2>2 DEF Subscribed
<1> QED BY <1>1, <1>2, <1>3, PairBaseSpec, PTL DEF AutoSpec

-----------------------------------------------------------------------------
(***************************************************************************)
(* The newest connection state.                                            *)
(***************************************************************************)
\* A call of Track or Untrack is about one AGV.
LEMMA TrackMove ==
    ASSUME Base, Base', NEW p \in Procs, Step(p), th[p].op \in {"track", "untrack"}
    PROVE  /\ Only(p) /\ th[p].pc # "idle" /\ th[p].agv \in AGVs
           /\ th'[p] = Idle \/ SameCall(th'[p], th[p])
           /\ \A a \in AGVs : a # th[p].agv => (a \in tracked' <=> a \in tracked)
<1> DEFINE t == th[p]
           u == th'[p]
<1>1. t.op # "restore" /\ t.op # "stop" /\ t.pc \notin {"stop", "stopNext", "disconnect"}
    BY CallFacts DEF PlaceOK
<1>2. ~StopSnapshot(p) /\ ~StopEnd(p) /\ ~Disconnect(p) /\ \A a \in AGVs : ~StopNext(p, a)
    BY <1>1 DEF StopSnapshot, StopEnd, Disconnect, StopNext
<1>3. Only(p) /\ t.pc # "idle"
    BY <1>1, OpKept
<1>4. t.agv \in AGVs
    BY <1>3, AboutAGV
<1>5. (Ends(u, t) \/ SameCall(u, t)) /\ \A a \in AGVs : a # t.agv => (a \in tracked' <=> a \in tracked)
    <2>1. CASE Check(p) \/ RollbackEnd(p) \/ Online(p) \/ Offline(p)
        BY <1>1, <2>1, CheckMove, EndMove
    <2>2. CASE Subscribe(p) \/ Rollback(p) \/ Unsubscribe(p)
        BY <2>2, SubscribeMove, CancelMove
    <2>3. CASE Insert(p)
        BY <1>1, <2>3, InsertMove
    <2>4. CASE Remove(p)
        BY <1>1, <2>4, RemoveMove
    <2> QED BY <1>1, <1>2, <2>1, <2>2, <2>3, <2>4, StepKinds
<1> QED BY <1>1, <1>3, <1>4, <1>5 DEF Ends

\* A job about an AGV the platform leaves alone: it goes on as it should, or
\* ends with an error or with the AGV as the job wants it.
WorkerAt(w) ==
    /\ w.pc = "online" => w.agv \in tracked
    /\ w.pc \in {"sub", "insert", "unsub"} => w.agv \notin tracked
    /\ w.pc = "rollback" => w.failed

LEMMA JobMove ==
    ASSUME Base, Base', NEW p \in Procs, Step(p), th[p].op \in {"track", "untrack"},
           WorkerAt(th[p])
    PROVE  \/ /\ th'[p] = Idle
              /\ th[p].failed \/ (th[p].agv \in tracked' <=> th[p].op = "track")
           \/ SameCall(th'[p], th[p]) /\ WorkerAt(th[p])'
<1> DEFINE t == th[p]
           u == th'[p]
<1>1. /\ t.op \notin {"restore", "stop"} /\ t.agv \in AGVs
      /\ t.op = "track" <=> t.pc \in Tracking \cup {"online"}
    BY TrackMove, AboutAGV
<1>2. ~StopSnapshot(p) /\ ~StopEnd(p) /\ ~Disconnect(p) /\ \A a \in AGVs : ~StopNext(p, a)
    BY <1>1, CallFacts DEF PlaceOK, StopSnapshot, StopEnd, Disconnect, StopNext
<1>3. CASE Check(p)
    BY <1>1, <1>3, CheckMove DEF Ends, SameCall, WorkerAt, Tracking
<1>4. CASE Subscribe(p)
    <2>1. /\ SameCall(u, t) /\ t.pc = "sub" /\ tracked' = tracked
          /\ u.pc \in {"sub", "insert"} \/ (u.pc = "rollback" /\ u.failed)
        BY <1>4, SubscribeMove
    <2> QED BY <2>1 DEF SameCall, WorkerAt
<1>5. CASE Insert(p)
    <2>1. t.agv \notin tracked
        BY <1>5 DEF WorkerAt, Insert
    <2>2. tracked' = tracked \cup {t.agv} /\ u.pc = "online" /\ SameCall(u, t)
        BY <1>1, <1>5, <2>1, InsertMove
    <2> QED BY <2>2 DEF SameCall, WorkerAt
<1>6. CASE Rollback(p) \/ Unsubscribe(p)
    BY <1>6, CancelMove DEF SameCall, WorkerAt
<1>7. CASE RollbackEnd(p)
    BY <1>1, <1>7, EndMove DEF Ends, WorkerAt, RollbackEnd
<1>8. CASE Online(p)
    BY <1>1, <1>8, EndMove DEF Ends, WorkerAt, Online
<1>9. CASE Offline(p)
    BY <1>1, <1>9, EndMove DEF Ends, WorkerAt, Offline, Tracking
<1>10. CASE Remove(p)
    BY <1>1, <1>10, RemoveMove DEF Ends, SameCall, WorkerAt, Tracking
<1> QED BY <1>1, <1>2, <1>3, <1>4, <1>5, <1>6, <1>7, <1>8, <1>9, <1>10, StepKinds

\* Steps of the platform's calls do not touch the other AGVs.
LEMMA LatestPlatform ==
    ASSUME NEW c, Pair(c), PairBase(c), PairBase(c)', LatestOK(c), Step(c),
           UNCHANGED <<latest, reported, manual>>,
           th[c].op # "stop" => UNCHANGED jobs
    PROVE  LatestOK(c)'
<1>1. Base /\ Base' /\ c \in Procs /\ th[c].op # "restore"
    BY PairFacts DEF PairBase, AutoBase, PhaseOK
<1>2. UNCHANGED cstarted /\ th[c].pc # "idle" /\ th'[c].op \in {th[c].op, "none"}
    BY <1>1, StepKeeps, OpKept
<1>3. CASE th[c].op = "stop"
    BY <1>2, <1>3 DEF LatestOK, PairBase, PhaseOK
<1>4. CASE th[c].op # "stop"
    <2>1. th[c].op \in {"track", "untrack"}
        BY <1>1, <1>2, <1>4, PairFacts DEF PairBase, Threads
    <2>2. /\ th'[AutoWorker] = th[AutoWorker] /\ th[c].agv \in manual
          /\ th'[c] = Idle \/ th'[c].agv = th[c].agv
          /\ \A a \in AGVs : a # th[c].agv => (a \in tracked' <=> a \in tracked)
        BY <1>1, <2>1, TrackMove, PairFacts DEF PairBase, LatestOK, SameCall
    <2>3. th'[c].op \in {"track", "untrack"} => th'[c].agv \in manual'
        BY <2>2 DEF Idle
    <2>4. WorkerOK => WorkerOK'
        <3>1. th[AutoWorker].pc # "idle" => th[AutoWorker].agv \in AGVs
            BY <1>1, PairFacts, AboutAGV, CallFacts
               DEF PairBase, PlaceOK, Tracking, Removing, Threads
        <3> QED BY <2>2, <3>1 DEF WorkerOK
    <2>5. ASSUME NEW a \in AGVs \ manual, HeardOK(a) PROVE HeardOK(a)'
        <3>1. UNCHANGED jobs /\ (a \in tracked' <=> a \in tracked)
            BY <1>4, <2>2
        <3> QED BY <2>2, <2>5, <3>1 DEF HeardOK, About, Settled
    <2> QED BY <1>2, <2>3, <2>4, <2>5 DEF LatestOK
<1> QED BY <1>3, <1>4

\* Steps of a job.
LEMMA LatestJob ==
    ASSUME NEW c, Pair(c), PairBase(c), PairBase(c)', LatestOK(c), JobStep
    PROVE  LatestOK(c)'
<1> DEFINE w == th[AutoWorker]
           u == th'[AutoWorker]
<1>1. /\ Base /\ Base' /\ AutoWorker \in Procs /\ Step(AutoWorker)
      /\ w.op \in {"none", "track", "untrack"}
      /\ UNCHANGED <<jobs, latest, manual>>
    BY PairFacts DEF PairBase, AutoBase, JobStep, queueVars
<1>2. /\ UNCHANGED cstarted /\ w.pc # "idle" /\ w.op \in {"track", "untrack"}
    <2>1. UNCHANGED cstarted /\ w.pc # "idle"
        BY <1>1, StepKeeps, OpKept
    <2>2. w.op = "none" => w.pc = "idle"
        BY <1>1, CallFacts DEF PlaceOK, Threads, Tracking, Removing
    <2> QED BY <1>1, <2>1, <2>2
<1>3. /\ th'[c] = th[c] /\ w.agv \in AGVs
      /\ u = Idle \/ SameCall(u, w)
      /\ \A a \in AGVs : a # w.agv => (a \in tracked' <=> a \in tracked)
    BY <1>1, <1>2, TrackMove, PairFacts DEF PairBase
<1>4. ASSUME WorkerOK, w.agv \notin manual
      PROVE  \/ u = Idle /\ (w.failed \/ (w.agv \in tracked' <=> w.op = "track"))
             \/ SameCall(u, w) /\ WorkerAt(w)'
    BY <1>1, <1>2, <1>4, JobMove DEF WorkerOK, WorkerAt
<1>5. ASSUME WorkerOK PROVE WorkerOK'
    <2>1. CASE u = Idle
        BY <2>1 DEF WorkerOK, Idle
    <2>2. CASE SameCall(u, w) /\ u # Idle /\ w.agv \notin manual
        BY <1>4, <1>5, <2>2 DEF WorkerOK, WorkerAt
    <2>3. CASE SameCall(u, w) /\ w.agv \in manual
        BY <1>1, <2>3 DEF WorkerOK, SameCall
    <2> QED BY <1>3, <2>1, <2>2, <2>3
<1>6. ASSUME WorkerOK, NEW a \in AGVs \ manual, HeardOK(a) PROVE HeardOK(a)'
    <2> SUFFICES ASSUME a \notin reported' PROVE HeardOK(a)'
        BY DEF HeardOK
    <2>1. a \notin reported
        BY DEF JobStep
    <2>2. About(a)' = About(a)
        BY <1>1 DEF About
    <2>3. \A i \in About(a)' : (\A k \in About(a)' : k <= i) => jobs'[i].op = latest'[a]
        BY <1>1, <1>6, <2>1, <2>2 DEF HeardOK
    <2>4. ASSUME About(a) = {}, a # w.agv
          PROVE  ~(u.pc # "idle" /\ u.agv = a) /\ Settled(a)'
        <3>1. Settled(a)
            BY <1>6, <2>1, <2>4 DEF HeardOK
        <3>2. u = Idle \/ u.agv = w.agv
            BY <1>3 DEF SameCall
        <3> QED BY <1>1, <1>3, <2>4, <3>1, <3>2 DEF Settled, Idle
    <2>5. ASSUME About(a) = {}, a = w.agv
          PROVE  IF u.pc # "idle" /\ u.agv = a THEN u.op = latest'[a] ELSE Settled(a)'
        <3>1. w.op = latest[a]
            BY <1>2, <1>6, <2>1, <2>5 DEF HeardOK
        <3>2. CASE u = Idle
            <4>1. ~w.failed
                BY <2>5, <3>2 DEF JobStep, About
            <4>2. w.agv \in tracked' <=> w.op = "track"
                <5>1. \/ w.failed \/ (w.agv \in tracked' <=> w.op = "track")
                      \/ SameCall(u, w)
                    BY <1>4, <1>6, <2>5
                <5>2. ~SameCall(u, w)
                    BY <1>2, <3>2 DEF SameCall, Idle
                <5> QED BY <4>1, <5>1, <5>2
            <4> QED BY <1>1, <2>5, <3>1, <3>2, <4>2 DEF Settled, Idle
        <3>3. CASE u # Idle
            <4>1. SameCall(u, w) /\ u.pc # "idle"
                BY <1>1, <1>3, <3>3 DEF Base, CallsOK, CallOK
            <4> QED BY <1>1, <2>5, <3>1, <4>1 DEF SameCall
        <3> QED BY <3>2, <3>3
    <2> QED BY <2>2, <2>3, <2>4, <2>5 DEF HeardOK
<1> QED BY <1>1, <1>2, <1>3, <1>5, <1>6 DEF LatestOK

\* The worker takes the oldest job.
LEMMA LatestTake ==
    ASSUME NEW c, Pair(c), PairBase(c), PairBase(c)', LatestOK(c), TakeJob
    PROVE  LatestOK(c)'
<1> DEFINE j == Head(jobs)
           t == [Idle EXCEPT !.op = j.op, !.agv = j.agv,
                             !.pc = IF j.op = "track" THEN "check" ELSE "remove"]
           u == th'[AutoWorker]
           n == Len(jobs)
<1>1. /\ Base /\ QueueOK /\ AutoWorker \in Procs /\ j \in Jobs
      /\ Begin(AutoWorker, t) /\ jobs' = Tail(jobs) /\ jobs # << >>
      /\ UNCHANGED <<cstarted, tracked, latest, reported, manual>>
    BY PairFacts, HeadTail DEF PairBase, AutoBase, TakeJob, fleetVars, seen
<1>2. /\ n \in Nat \ {0} /\ Len(jobs') = n - 1 /\ j = jobs[1]
      /\ \A i \in 1 .. n - 1 : jobs'[i] = jobs[i + 1]
    BY <1>1, HeadTail
<1>3. /\ t \in Threads /\ t.op = j.op /\ t.agv = j.agv
      /\ t.pc = IF j.op = "track" THEN "check" ELSE "remove"
    BY <1>1, JobCall
<1> HIDE DEF t, j
<1>4. /\ u.op = j.op /\ u.agv = j.agv /\ u.pc \in {"check", "remove"}
      /\ th[AutoWorker].pc = "idle" /\ th'[c] = th[c]
    BY <1>1, <1>3, PairFacts, BeginMove DEF PairBase, Idle
<1>5. WorkerOK'
    BY <1>4 DEF WorkerOK
<1> HIDE DEF n
<1>6. ASSUME NEW a \in AGVs, HeardOK(a) PROVE HeardOK(a)'
    <2> SUFFICES ASSUME a \notin reported PROVE HeardOK(a)'
        BY <1>1 DEF HeardOK
    <2>1. \A i \in About(a)' : i + 1 \in About(a) /\ jobs'[i] = jobs[i + 1] /\ i \in Nat
        BY <1>2 DEF About, n
    <2>2. \A i \in About(a) : i = 1 \/ i - 1 \in About(a)'
        <3> SUFFICES ASSUME NEW i \in 1 .. n, jobs[i].agv = a, i # 1
                     PROVE  i - 1 \in 1 .. Len(jobs') /\ jobs'[i - 1].agv = a
            BY DEF About, n
        <3>1. i - 1 \in 1 .. n - 1 /\ (i - 1) + 1 = i
            BY <1>2
        <3> QED BY <1>2, <3>1
    <2>3. About(a) \subseteq Nat
        BY <1>2 DEF About, n
    <2>4. ASSUME NEW i \in About(a)', \A k \in About(a)' : k <= i
          PROVE  jobs'[i].op = latest[a]
        <3>1. \A k \in About(a) : k <= i + 1
            <4> SUFFICES ASSUME NEW k \in About(a) PROVE k <= i + 1
                OBVIOUS
            <4>1. k \in Nat /\ i \in Nat /\ (k = 1 \/ k - 1 <= i)
                BY <2>1, <2>2, <2>3, <2>4
            <4> QED BY <4>1
        <3>2. i + 1 \in About(a)
            BY <2>1
        <3>3. jobs[i + 1].op = latest[a]
            BY <1>6, <3>1, <3>2 DEF HeardOK
        <3> QED BY <2>1, <3>3
    <2>5. ASSUME About(a)' = {}, j.agv = a PROVE j.op = latest[a]
        <3>1. 1 \in About(a)
            BY <1>2, <2>5 DEF About, n
        <3>2. \A k \in About(a) : k <= 1
            BY <2>2, <2>3, <2>5
        <3> QED BY <1>2, <1>6, <3>1, <3>2 DEF HeardOK
    <2>6. ASSUME About(a)' = {}, j.agv # a PROVE Settled(a)'
        <3>1. About(a) = {}
            <4>1. 1 \notin About(a)
                BY <1>2, <2>6 DEF About
            <4> QED BY <2>2, <2>6, <4>1
        <3>2. Settled(a)
            BY <1>4, <1>6, <3>1 DEF HeardOK
        <3> QED BY <1>1, <3>2 DEF Settled
    <2> QED BY <1>1, <1>4, <2>4, <2>5, <2>6 DEF HeardOK
<1> QED BY <1>1, <1>4, <1>5, <1>6 DEF LatestOK

\* A connection state arrives.
LEMMA LatestSchedule ==
    ASSUME NEW c, Pair(c), PairBase(c), PairBase(c)', LatestOK(c),
           NEW a \in AGVs, NEW o \in {"track", "untrack"}, Schedule(a, o)
    PROVE  LatestOK(c)'
<1> DEFINE j == [agv |-> a, op |-> o]
           n == Len(jobs)
<1>1. /\ UNCHANGED <<cstarted, tracked, th, manual>> /\ latest' = [latest EXCEPT ![a] = o]
      /\ latest \in [AGVs -> {"none", "track", "untrack"}]
      /\ jobs \in Seq(Jobs) /\ n \in Nat /\ j \in Jobs /\ j.agv = a /\ j.op = o
    <2>1. jobs \in Seq(Jobs) /\ latest \in [AGVs -> {"none", "track", "untrack"}]
        BY DEF PairBase, AutoBase, QueueOK
    <2> QED BY <2>1, LenProperties DEF Schedule, vars, fleetVars, Jobs
<1>2. \/ jobs' = Append(jobs, j) /\ reported' = reported \ {a}
      \/ jobs' = jobs /\ reported' = reported \cup {a}
    BY DEF Schedule, Overflow
<1>3. WorkerOK => WorkerOK'
    BY <1>1 DEF WorkerOK
<1> HIDE DEF j
<1>4. CASE jobs' = Append(jobs, j) /\ reported' = reported \ {a}
    <2>1. /\ Len(jobs') = n + 1 /\ jobs'[n + 1] = j
          /\ \A i \in 1 .. n : jobs'[i] = jobs[i]
        BY <1>1, <1>4, AppendProperties
    <2> HIDE DEF n
    <2>2. HeardOK(a)'
        <3>1. n + 1 \in About(a)'
            BY <1>1, <2>1 DEF About
        <3>2. ASSUME NEW i \in About(a)', n + 1 <= i PROVE i = n + 1
            BY <1>1, <2>1, <3>2 DEF About
        <3>3. latest'[a] = o /\ jobs'[n + 1].op = o
            BY <1>1, <2>1
        <3> QED BY <3>1, <3>2, <3>3 DEF HeardOK
    <2>3. ASSUME NEW b \in AGVs, b # a, HeardOK(b) PROVE HeardOK(b)'
        <3>1. About(b)' = About(b)
            <4>1. \A i : i \in 1 .. n + 1 /\ jobs'[i].agv = b <=>
                         i \in 1 .. n /\ jobs[i].agv = b
                BY <1>1, <2>1, <2>3
            <4> QED BY <2>1, <4>1 DEF About, n
        <3>2. \A i \in About(b) : jobs'[i] = jobs[i]
            BY <2>1 DEF About, n
        <3>3. latest'[b] = latest[b] /\ (b \in reported' <=> b \in reported)
            BY <1>1, <1>4, <2>3
        <3>4. Settled(b)' <=> Settled(b)
            BY <1>1, <3>3 DEF Settled
        <3> QED BY <1>1, <2>3, <3>1, <3>2, <3>3, <3>4 DEF HeardOK
    <2> QED BY <1>1, <1>3, <2>2, <2>3 DEF LatestOK
<1>5. CASE jobs' = jobs /\ reported' = reported \cup {a}
    <2>1. HeardOK(a)'
        BY <1>5 DEF HeardOK
    <2>2. ASSUME NEW b \in AGVs, b # a, HeardOK(b) PROVE HeardOK(b)'
        <3>1. latest'[b] = latest[b] /\ (b \in reported' <=> b \in reported)
            BY <1>1, <1>5, <2>2
        <3>2. (Settled(b)' <=> Settled(b)) /\ About(b)' = About(b)
            BY <1>1, <1>5, <3>1 DEF Settled, About
        <3> QED BY <1>1, <1>5, <2>2, <3>1, <3>2 DEF HeardOK
    <2> QED BY <1>1, <1>3, <2>1, <2>2 DEF LatestOK
<1> QED BY <1>2, <1>4, <1>5

LEMMA LatestNext ==
    ASSUME NEW c, Pair(c), PairBase(c), PairBase(c)', LatestOK(c), [AutoNext]_allVars
    PROVE  LatestOK(c)'
<1>1. CASE ManualStep(c)
    BY <1>1, LatestPlatform DEF ManualStep, queueVars, seen
<1>2. CASE AutoStopped(c)
    <2>1. th[c].op = "stop"
        BY <1>2, PairFacts, StopMove DEF AutoStopped, PairBase, AutoBase
    <2> QED BY <1>2, <2>1, LatestPlatform DEF AutoStopped, Step, seen
<1>3. CASE AutoStop(c)
    <2> DEFINE t == [Idle EXCEPT !.op = "stop", !.pc = "stop"]
    <2>1. Begin(c, t) /\ ~cstarted'
        BY <1>3 DEF AutoStop, CallStop
    <2>2. t \in Threads /\ t.op = "stop"
        BY IdleType DEF Threads
    <2> HIDE DEF t
    <2>3. th'[c].op = "stop"
        BY <2>1, <2>2, PairFacts, BeginMove DEF PairBase, AutoBase
    <2> QED BY <2>1, <2>3 DEF LatestOK
<1>4. ASSUME NEW o \in Calls, NEW a \in AGVs, ManualCall(c, o, a)
      PROVE  LatestOK(c)'
    <2> DEFINE x == IF o = "track" THEN "check" ELSE "remove"
               t == [Idle EXCEPT !.op = o, !.agv = a, !.pc = x]
    <2>1. /\ Begin(c, t) /\ o \in {"track", "untrack"} /\ x \in {"check", "remove"}
          /\ manual' = manual \cup {a}
          /\ UNCHANGED <<cstarted, tracked, jobs, latest, reported>>
        BY <1>4 DEF ManualCall, Call, fleetVars, queueVars
    <2> HIDE DEF x
    <2>2. t \in Threads /\ t.agv = a
        BY <2>1, IdleType DEF Threads
    <2> HIDE DEF t
    <2>3. th'[c].agv = a /\ th'[AutoWorker] = th[AutoWorker]
        BY <2>1, <2>2, PairFacts, BeginMove DEF PairBase, AutoBase
    <2>4. \A b \in AGVs : HeardOK(b) => HeardOK(b)'
        BY <2>1, <2>3 DEF HeardOK, About, Settled
    <2>5. WorkerOK => WorkerOK'
        BY <2>1, <2>3 DEF WorkerOK
    <2> QED BY <2>1, <2>3, <2>4, <2>5 DEF LatestOK
<1>5. CASE AutoStart
    <2>1. /\ ~up /\ jobs' = << >> /\ latest' = [a \in AGVs |-> "none"]
          /\ UNCHANGED th
        BY <1>5 DEF AutoStart, Start
    <2>2. th'[c] = Idle /\ th'[AutoWorker] = Idle
        BY <2>1 DEF PairBase, PhaseOK
    <2>3. \A a \in AGVs : About(a)' = {}
        BY <2>1, EmptySeq DEF About
    <2>4. \A a \in AGVs : HeardOK(a)'
        BY <2>1, <2>2, <2>3 DEF HeardOK, Settled, Idle
    <2> QED BY <2>2, <2>4 DEF LatestOK, WorkerOK, Idle
<1>6. CASE UNCHANGED allVars \/ WorkerExit \/ (StartFails /\ UNCHANGED <<queueVars, seen>>)
    <2>1. UNCHANGED <<cstarted, tracked, th, jobs, latest, reported, manual>>
        BY <1>6 DEF WorkerExit, StartFails, allVars, vars, fleetVars, queueVars, seen
    <2>2. \A b \in AGVs : HeardOK(b) => HeardOK(b)'
        BY <2>1 DEF HeardOK, About, Settled
    <2> QED BY <2>1, <2>2 DEF LatestOK, WorkerOK
<1> QED BY <1>1, <1>2, <1>3, <1>4, <1>5, <1>6, PairFacts, LatestJob, LatestTake,
           LatestSchedule DEF AutoNext, PairBase

\* AutoTrackFromConnection, "connection state should drive Track/Untrack": for
\* every AGV the platform leaves to the worker, whatever the platform does to
\* the others, however full the queue and whatever calls fail, the newest
\* connection state decides when the jobs are done, or was reported.
THEOREM NewestStateDecides ==
    ASSUME NEW c, Pair(c) PROVE AutoSpec => []LatestStateWins
<1>1. AutoInit => LatestOK(c)
    <2> SUFFICES ASSUME AutoInit PROVE LatestOK(c)
        OBVIOUS
    <2>1. c \in Procs
        BY PairFacts, AutoBaseInit
    <2> QED BY <2>1 DEF AutoInit, Init, LatestOK, Idle
<1>2. PairBase(c) /\ PairBase(c)' /\ LatestOK(c) /\ [AutoNext]_allVars => LatestOK(c)'
    BY LatestNext
<1>3. PairBase(c) /\ LatestOK(c) => LatestStateWins
    <2> SUFFICES ASSUME PairBase(c), LatestOK(c), Quiet, jobs = << >>,
                        NEW a \in AGVs \ (manual \cup reported)
                 PROVE  Settled(a)
        BY DEF LatestStateWins, Settled
    <2>1. About(a) = {}
        BY EmptySeq DEF About
    <2>2. th[AutoWorker] = Idle /\ HeardOK(a)
        BY PairFacts DEF PairBase, Quiet, LatestOK
    <2> QED BY <2>1, <2>2 DEF HeardOK, Idle
<1> QED BY <1>1, <1>2, <1>3, PairBaseSpec, PTL DEF AutoSpec
=============================================================================
