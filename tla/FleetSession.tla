---------------------------- MODULE FleetSession ----------------------------
(***************************************************************************)
(* The fleet session (internal/session/fleet.go) as the client drives it   *)
(* (client.go: Track, Untrack, Start, Stop, handleReconnect).              *)
(*                                                                         *)
(* FleetSession keeps which AGVs are tracked and, for each, the handles    *)
(* that cancel its subscriptions.  Its mutex protects that map, but Track  *)
(* and Untrack talk to the broker with the mutex released, so calls from   *)
(* platform goroutines, the auto-track worker and the reconnect callback   *)
(* interleave.                                                             *)
(*                                                                         *)
(* Data.  A filter is an AGV with the index of one of the channels that    *)
(* Options turns on, or the connection wildcard.  A subscription is a      *)
(* filter with the number of the call that made it.                        *)
(*                                                                         *)
(* Atomicity.  A section under f.mu is one step; it may unsubscribe or     *)
(* subscribe, which commutes with the unlocked broker calls of others.     *)
(* Every unlocked Subscribe, Unsubscribe and hook call is a step.          *)
(***************************************************************************)
EXTENDS Integers, Sequences

CONSTANTS
    AGVs,
    NChans,         \* how many channels Options subscribes per AGV
    Callers,        \* goroutines that call Track, Untrack and Stop
    Restorers,      \* goroutines in which paho runs the reconnect callback
    Calls,          \* the calls the callers make: "track", "untrack", "stop"
    Faults,         \* "reject": Subscribe may fail; "timeout": it may fail
                    \* although the broker has subscribed; "unsub": the
                    \* same for Unsubscribe, either way
    MaxCalls, MaxReconnects,    \* bounds
    None

Procs   == Callers \cup Restorers
ConnFilter == <<None, 0>>
Filters == (AGVs \X (1 .. NChans)) \cup {ConnFilter}
Handles == [filter : Filters, call : 1 .. MaxCalls]

ASSUME ConstantsAssumption ==
    /\ None \notin AGVs /\ None \notin Handles
    /\ NChans \in Nat /\ MaxCalls \in Nat /\ MaxReconnects \in Nat
    /\ Calls \subseteq {"track", "untrack", "stop"}
    /\ Faults \subseteq {"reject", "timeout", "unsub"}

VARIABLES
    up,         \* the transport is running
    cstarted,   \* Client.started
    fstarted,   \* FleetSession.started
    connUnsub,  \* FleetSession.connUnsub
    tracked,    \* the keys of FleetSession.tracked
    unsubs,     \* unsubs[a]: the handles in the entry of a
    subs,       \* the subscriptions at the broker
    th,         \* th[p]: the call goroutine p is in
    calls,      \* calls made so far
    reconnects, \* reconnects so far
    due,        \* reconnect callbacks that have not begun
    hooks,      \* hooks[a]: online hooks minus offline hooks fired for a
    want,       \* history: want[a]: the last call about a that succeeded
    restoreOK   \* history: the last Restore succeeded

fleetVars == <<fstarted, connUnsub, tracked, unsubs>>
ghosts    == <<hooks, want, restoreOK>>
vars == <<up, cstarted, fleetVars, subs, th, calls, reconnects, due, ghosts>>

Idle == [pc |-> "idle", op |-> "none", agv |-> None, got |-> << >>,
         todo |-> {}, call |-> 0, failed |-> FALSE]

Threads ==
    [pc : {"idle", "check", "sub", "insert", "rollback", "online",
           "remove", "unsub", "stop", "stopNext", "disconnect",
           "snapshot", "start", "restoreNext"},
     op : {"none", "track", "untrack", "stop", "restore"},
     agv : AGVs \cup {None},
     got : Seq(Handles),            \* handles acquired, or to be cancelled
     todo : SUBSET AGVs,            \* AGVs Stop or Restore has left
     call : 0 .. MaxCalls,
     failed : BOOLEAN]

TypeOK ==
    /\ up \in BOOLEAN /\ cstarted \in BOOLEAN /\ fstarted \in BOOLEAN
    /\ connUnsub \in Handles \cup {None}
    /\ tracked \subseteq AGVs
    /\ unsubs \in [AGVs -> Seq(Handles)]
    /\ subs \subseteq Handles
    /\ th \in [Procs -> Threads]
    /\ calls \in 0 .. MaxCalls
    /\ reconnects \in 0 .. MaxReconnects /\ due \in 0 .. MaxReconnects
    /\ hooks \in [AGVs -> Int]
    /\ want \in [AGVs -> {"none", "track", "untrack"}] /\ restoreOK \in BOOLEAN

Init ==
    /\ up = FALSE /\ cstarted = FALSE /\ fstarted = FALSE /\ connUnsub = None
    /\ tracked = {} /\ unsubs = [a \in AGVs |-> << >>] /\ subs = {}
    /\ th = [p \in Procs |-> Idle]
    /\ calls = 0 /\ reconnects = 0 /\ due = 0
    /\ hooks = [a \in AGVs |-> 0]
    /\ want = [a \in AGVs |-> "none"] /\ restoreOK = TRUE

-----------------------------------------------------------------------------
(***************************************************************************)
(* The broker, as the transport presents it.                               *)
(***************************************************************************)
Elems(s) == {s[i] : i \in 1 .. Len(s)}

\* What is left of S after the handles H have been cancelled: the broker knows
\* one subscription of the client per filter, and Unsubscribe removes it, be it
\* of this call or of another.
Cancel(S, H) == {s \in S : \A h \in H : s.filter # h.filter}

\* What Unsubscribe may do about the handles H.
Cancelled(H) == IF "unsub" \in Faults THEN SUBSET H ELSE {H}

\* Unsubscribe may report an error; a stopped transport reports none.
UnsubscribeFails == up /\ "unsub" \in Faults

SubscribeOK(h) == up /\ subs' = subs \cup {h}

\* While the transport runs, Subscribe may report an error.
SubscribeMayFail == Faults \cap {"reject", "timeout"} # {}

SubscribeFails(h) ==
    \/ (~up \/ "reject" \in Faults) /\ UNCHANGED subs
    \/ up /\ "timeout" \in Faults /\ subs' = subs \cup {h}

\* The broker forgets the (clean) session and paho reconnects: it starts a
\* goroutine that runs the reconnect callback.
Reconnect ==
    /\ up /\ reconnects < MaxReconnects
    /\ reconnects' = reconnects + 1 /\ due' = due + 1
    /\ subs' = {}
    /\ UNCHANGED <<up, cstarted, fleetVars, th, calls, ghosts>>

-----------------------------------------------------------------------------
(***************************************************************************)
(* Calls.                                                                  *)
(***************************************************************************)
\* Mutant: the loops over AGVs in Stop and Restore end after one AGV.
MutReturned(t) == Idle

\* Where a goroutine is after track or untrack returned: in the loop of Stop,
\* in the loop of Restore unless track failed, or back at its caller.
Returned(t) ==
    CASE t.op = "stop"                   -> [t EXCEPT !.pc = "stopNext"]
      [] t.op = "restore" /\ ~t.failed   -> [t EXCEPT !.pc = "restoreNext"]
      [] OTHER                           -> Idle

\* Mutant: Restore fires the hooks too.
MutNotifies(t) == TRUE

\* Online and offline hooks are fired by Track, Untrack and Stop only.
Notifies(t) == t.op # "restore"

\* track or untrack returns to goroutine p.
Return(p, t) ==
    /\ th' = [th EXCEPT ![p] = Returned(t)]
    /\ want' = CASE t.op \in {"track", "untrack"} /\ ~t.failed ->
                     [want EXCEPT ![t.agv] = t.op]
                 [] t.op = "untrack" /\ t.failed ->
                     [want EXCEPT ![t.agv] = "none"]
                 [] OTHER -> want
    /\ restoreOK' = IF t.op = "restore" /\ t.failed THEN FALSE ELSE restoreOK

Begin(p, t) ==
    /\ th[p] = Idle /\ calls < MaxCalls
    /\ calls' = calls + 1
    /\ th' = [th EXCEPT ![p] = [t EXCEPT !.call = calls + 1]]

\* Client.Track and Client.Untrack, up to requireStarted.
Call(p, o, a) ==
    /\ p \in Callers /\ o \in Calls \cap {"track", "untrack"} /\ cstarted
    /\ Begin(p, [Idle EXCEPT !.op = o, !.agv = a,
                             !.pc = IF o = "track" THEN "check" ELSE "remove"])
    /\ UNCHANGED <<up, cstarted, fleetVars, subs, reconnects, due, ghosts>>

-----------------------------------------------------------------------------
(***************************************************************************)
(* track.                                                                  *)
(***************************************************************************)
\* The first section: an AGV that is tracked is left alone.
Check(p) ==
    LET t == th[p] IN
    /\ t.pc = "check"
    /\ IF t.agv \in tracked
       THEN Return(p, t)
       ELSE /\ th' = [th EXCEPT ![p].pc = IF NChans = 0 THEN "insert" ELSE "sub"]
            /\ UNCHANGED <<want, restoreOK>>
    /\ UNCHANGED <<up, cstarted, fleetVars, subs, calls, reconnects, due, hooks>>

\* Mutants: what was subscribed before is not cancelled; the error is ignored.
MutAfterFailureForgets(t) ==
    [t EXCEPT !.pc = "rollback", !.failed = TRUE, !.got = << >>]
MutAfterFailureIgnored(t) == [t EXCEPT !.pc = "insert"]

AfterFailure(t) == [t EXCEPT !.pc = "rollback", !.failed = TRUE]

\* The next channel of the AGV.
NextFilter(t) == <<t.agv, Len(t.got) + 1>>

\* Subscribe the next channel, unlocked.
Subscribe(p) ==
    LET t == th[p]
        h == [filter |-> NextFilter(t), call |-> t.call]
    IN
    /\ t.pc = "sub"
    /\ \/ /\ SubscribeOK(h)
          /\ th' = [th EXCEPT ![p].got = Append(@, h),
                              ![p].pc = IF Len(t.got) + 1 = NChans
                                        THEN "insert" ELSE "sub"]
       \/ /\ SubscribeFails(h)
          /\ th' = [th EXCEPT ![p] = AfterFailure(t)]
    /\ UNCHANGED <<up, cstarted, fleetVars, calls, reconnects, due, ghosts>>

\* Mutant: the second check of the map is missing.
MutLostRace(t) == FALSE

\* Somebody else tracked the AGV while this call subscribed.
LostRace(t) == t.agv \in tracked

\* The second section: enter the AGV, unless somebody else has.
Insert(p) ==
    LET t == th[p] IN
    /\ t.pc = "insert"
    /\ IF LostRace(t)
       THEN /\ th' = [th EXCEPT ![p].pc = "rollback"]
            /\ UNCHANGED <<tracked, unsubs, want, restoreOK>>
       ELSE /\ tracked' = tracked \cup {t.agv}
            /\ unsubs' = [unsubs EXCEPT ![t.agv] = t.got]
            /\ IF Notifies(t)
               THEN /\ th' = [th EXCEPT ![p].pc = "online", ![p].got = << >>]
                    /\ UNCHANGED <<want, restoreOK>>
               ELSE Return(p, [t EXCEPT !.got = << >>])
    /\ UNCHANGED <<up, cstarted, fstarted, connUnsub, subs, calls, reconnects,
                   due, hooks>>

Front(s) == SubSeq(s, 1, Len(s) - 1)

\* Mutant: the loop over the handles stops before the first one.
MutAllCancelled(t) == Len(t.got) <= 1

AllCancelled(t) == t.got = << >>

\* Cancel one handle, last first.
CancelOne(p) ==
    /\ th[p].got # << >>
    /\ \E H \in Cancelled({th[p].got[Len(th[p].got)]}) : subs' = Cancel(subs, H)
    /\ UNCHANGED <<up, cstarted, fleetVars, calls, reconnects, due, ghosts>>

\* The rollback ignores the errors of Unsubscribe.
Rollback(p) ==
    /\ th[p].pc = "rollback" /\ CancelOne(p)
    /\ th' = [th EXCEPT ![p].got = Front(@)]

RollbackEnd(p) ==
    /\ th[p].pc = "rollback" /\ AllCancelled(th[p])
    /\ Return(p, th[p])
    /\ UNCHANGED <<up, cstarted, fleetVars, subs, calls, reconnects, due, hooks>>

\* The online hooks run, unlocked.
Online(p) ==
    LET t == th[p] IN
    /\ t.pc = "online"
    /\ hooks' = [hooks EXCEPT ![t.agv] = @ + 1]
    /\ Return(p, t)
    /\ UNCHANGED <<up, cstarted, fleetVars, subs, calls, reconnects, due>>

-----------------------------------------------------------------------------
(***************************************************************************)
(* untrack.                                                                *)
(***************************************************************************)
Remove(p) ==
    LET t == th[p] IN
    /\ t.pc = "remove"
    /\ IF t.agv \in tracked
       THEN /\ tracked' = tracked \ {t.agv}
            /\ unsubs' = [unsubs EXCEPT ![t.agv] = << >>]
            /\ th' = [th EXCEPT ![p].pc = "unsub", ![p].got = unsubs[t.agv]]
            /\ UNCHANGED <<want, restoreOK>>
       ELSE /\ Return(p, t)
            /\ UNCHANGED <<tracked, unsubs>>
    /\ UNCHANGED <<up, cstarted, fstarted, connUnsub, subs, calls, reconnects,
                   due, hooks>>

\* untrack goes on after an error, and returns the first one.
Unsubscribe(p) ==
    /\ th[p].pc = "unsub" /\ CancelOne(p)
    /\ \E failed \in {FALSE, UnsubscribeFails} :
         /\ ~failed => subs' = Cancel(subs, {th[p].got[Len(th[p].got)]})
         /\ th' = [th EXCEPT ![p].got = Front(@), ![p].failed = @ \/ failed]

\* The offline hooks run, unlocked.
Offline(p) ==
    LET t == th[p] IN
    /\ t.pc = "unsub" /\ AllCancelled(t)
    /\ hooks' = [hooks EXCEPT ![t.agv] = @ - 1]
    /\ Return(p, t)
    /\ UNCHANGED <<up, cstarted, fleetVars, subs, calls, reconnects, due>>

-----------------------------------------------------------------------------
(***************************************************************************)
(* Client.Start and Client.Stop.                                           *)
(***************************************************************************)
\* FleetSession.Start by call c: subscribe the connection wildcard once.
ConnHandle(c) == [filter |-> ConnFilter, call |-> c]

StartFleetOK(c) ==
    IF fstarted THEN UNCHANGED <<fstarted, connUnsub, subs>>
    ELSE /\ SubscribeOK(ConnHandle(c))
         /\ fstarted' = TRUE /\ connUnsub' = ConnHandle(c)

StartFleetFails(c) ==
    /\ ~fstarted /\ SubscribeFails(ConnHandle(c))
    /\ UNCHANGED <<fstarted, connUnsub>>

\* Client.Start, under c.mu: start the transport, then FleetSession.Start.
Start ==
    /\ ~cstarted /\ ~up /\ calls < MaxCalls
    /\ calls' = calls + 1
    /\ up' = TRUE /\ cstarted' = TRUE
    /\ IF fstarted THEN UNCHANGED <<fstarted, connUnsub, subs>>
       ELSE /\ subs' = {ConnHandle(calls + 1)}
            /\ fstarted' = TRUE /\ connUnsub' = ConnHandle(calls + 1)
    /\ UNCHANGED <<tracked, unsubs, th, reconnects, due, ghosts>>

\* Client.Start when a subscription after FleetSession.Start fails: the
\* transport is stopped again, the fleet session stays started.
StartFails ==
    /\ ~cstarted /\ ~up /\ calls < MaxCalls /\ SubscribeMayFail
    /\ calls' = calls + 1
    /\ fstarted' = TRUE
    /\ connUnsub' = IF fstarted THEN connUnsub ELSE ConnHandle(calls + 1)
    /\ UNCHANGED <<up, cstarted, tracked, unsubs, subs, th, reconnects, due,
                   ghosts>>

\* Client.Stop, the section under c.mu.
CallStop(p) ==
    /\ p \in Callers /\ "stop" \in Calls /\ cstarted
    /\ Begin(p, [Idle EXCEPT !.op = "stop", !.pc = "stop"])
    /\ cstarted' = FALSE
    /\ UNCHANGED <<up, fleetVars, subs, reconnects, due, ghosts>>

\* FleetSession.Stop, the first section.
StopSnapshot(p) ==
    /\ th[p].pc = "stop"
    /\ th' = [th EXCEPT ![p].pc = "stopNext", ![p].todo = tracked]
    /\ UNCHANGED <<up, cstarted, fleetVars, subs, calls, reconnects, due, ghosts>>

StopNext(p, a) ==
    /\ th[p].pc = "stopNext" /\ a \in th[p].todo
    /\ th' = [th EXCEPT ![p].pc = "remove", ![p].agv = a, ![p].todo = @ \ {a}]
    /\ UNCHANGED <<up, cstarted, fleetVars, subs, calls, reconnects, due, ghosts>>

\* FleetSession.Stop, the last section.
StopEnd(p) ==
    /\ th[p].pc = "stopNext" /\ th[p].todo = {}
    /\ \E H \in Cancelled({connUnsub} \ {None}) : subs' = Cancel(subs, H)
    /\ connUnsub' = None /\ fstarted' = FALSE
    /\ th' = [th EXCEPT ![p].pc = "disconnect"]
    /\ UNCHANGED <<up, cstarted, tracked, unsubs, calls, reconnects, due, ghosts>>

\* Client.Stop: transport.Stop.
Disconnect(p) ==
    /\ th[p].pc = "disconnect"
    /\ up' = FALSE /\ subs' = {}
    /\ th' = [th EXCEPT ![p] = Idle]
    /\ want' = [a \in AGVs |-> "none"]
    /\ UNCHANGED <<cstarted, fleetVars, calls, reconnects, due, hooks, restoreOK>>

-----------------------------------------------------------------------------
(***************************************************************************)
(* handleReconnect and FleetSession.Restore.                               *)
(***************************************************************************)
HandleReconnect(p) ==
    /\ p \in Restorers /\ due > 0
    /\ due' = due - 1
    /\ IF cstarted
       THEN Begin(p, [Idle EXCEPT !.op = "restore", !.pc = "snapshot"])
       ELSE th[p] = Idle /\ UNCHANGED <<th, calls>>
    /\ UNCHANGED <<up, cstarted, fleetVars, subs, reconnects, ghosts>>

\* Mutants: Restore does not clear the map; it does not reset started.
MutAfterSnapshotTracked == [tracked |-> tracked, started |-> FALSE]
MutAfterSnapshotStarted == [tracked |-> {}, started |-> TRUE]

\* What Restore leaves of the session before it subscribes anew.
AfterSnapshot == [tracked |-> {}, started |-> FALSE]

\* Restore, the first section: cancel and forget everything.
RestoreSnapshot(p) ==
    /\ th[p].pc = "snapshot"
    /\ IF ~fstarted /\ tracked = {}
       THEN /\ th' = [th EXCEPT ![p].pc = "restoreNext"]
            /\ UNCHANGED <<fleetVars, subs>>
       ELSE /\ th' = [th EXCEPT ![p].pc = "start", ![p].todo = tracked]
            /\ \E H \in Cancelled((UNION {Elems(unsubs[a]) : a \in tracked})
                                   \cup ({connUnsub} \ {None})) :
                  subs' = Cancel(subs, H)
            /\ tracked' = AfterSnapshot.tracked
            /\ unsubs' = [a \in AGVs |-> << >>]
            /\ connUnsub' = None /\ fstarted' = AfterSnapshot.started
    /\ UNCHANGED <<up, cstarted, calls, reconnects, due, ghosts>>

\* Restore: Start; an error gives up the AGVs that were tracked.
RestoreStart(p) ==
    /\ th[p].pc = "start"
    /\ \/ /\ StartFleetOK(th[p].call)
          /\ th' = [th EXCEPT ![p].pc = "restoreNext"]
          /\ UNCHANGED restoreOK
       \/ /\ StartFleetFails(th[p].call)
          /\ th' = [th EXCEPT ![p] = Idle]
          /\ restoreOK' = FALSE
    /\ UNCHANGED <<up, cstarted, tracked, unsubs, calls, reconnects, due, hooks,
                   want>>

RestoreNext(p, a) ==
    /\ th[p].pc = "restoreNext" /\ a \in th[p].todo
    /\ th' = [th EXCEPT ![p].pc = "check", ![p].agv = a, ![p].todo = @ \ {a}]
    /\ UNCHANGED <<up, cstarted, fleetVars, subs, calls, reconnects, due, ghosts>>

\* handleReconnect after Restore: subscribeLocked, under c.mu, if the client
\* is still started.
RestoreEnd(p) ==
    /\ th[p].pc = "restoreNext" /\ th[p].todo = {}
    /\ \/ cstarted /\ StartFleetOK(th[p].call) /\ restoreOK' = TRUE
       \/ cstarted /\ StartFleetFails(th[p].call) /\ restoreOK' = FALSE
       \/ ~cstarted /\ UNCHANGED <<fstarted, connUnsub, subs, restoreOK>>
    /\ th' = [th EXCEPT ![p] = Idle]
    /\ UNCHANGED <<up, cstarted, tracked, unsubs, calls, reconnects, due, hooks,
                   want>>

-----------------------------------------------------------------------------
Step(p) ==
    \/ Check(p) \/ Subscribe(p) \/ Insert(p)
    \/ Rollback(p) \/ RollbackEnd(p) \/ Online(p)
    \/ Remove(p) \/ Unsubscribe(p) \/ Offline(p)
    \/ StopSnapshot(p) \/ StopEnd(p) \/ Disconnect(p)
    \/ RestoreSnapshot(p) \/ RestoreStart(p) \/ RestoreEnd(p)
    \/ \E a \in AGVs : StopNext(p, a) \/ RestoreNext(p, a)

Next ==
    \/ \E p \in Procs : Step(p) \/ CallStop(p) \/ HandleReconnect(p)
    \/ \E p \in Procs, o \in Calls, a \in AGVs : Call(p, o, a)
    \/ Start \/ StartFails \/ Reconnect

Spec == Init /\ [][Next]_vars

-----------------------------------------------------------------------------
(***************************************************************************)
(* Properties.                                                             *)
(***************************************************************************)
\* Nobody is in the middle of a call and every reconnect has been handled.
Quiet == cstarted /\ due = 0 /\ \A p \in Procs : th[p] = Idle

\* Calls do not overlap, except Track and Untrack of different AGVs.
Apart ==
    \A p, q \in Procs : p # q /\ th[p] # Idle /\ th[q] # Idle =>
        /\ {th[p].op, th[q].op} \subseteq {"track", "untrack"}
        /\ th[p].agv # th[q].agv

Subscribed(f) == \E h \in subs : h.filter = f

\* untrack and the rollbacks of track: a subscription always belongs to a
\* tracked AGV, to the connection wildcard or to a call that will enter or
\* cancel it.  None leaks, whatever calls, reconnects and failures interleave.
NoLeakedSubscription ==
    \A h \in subs :
        \/ h = connUnsub
        \/ \E a \in tracked : h \in Elems(unsubs[a])
        \/ \E p \in Procs : h \in Elems(th[p].got)

\* Track "subscribes per-AGV channels": when all calls have returned, each
\* channel of a tracked AGV is subscribed.
TrackedSubscribed ==
    Quiet => \A a \in tracked, i \in 1 .. NChans : Subscribed(<<a, i>>)

\* Start "establishes subscriptions": a started client that is quiet gets the
\* connection messages of the fleet.
ConnectionSubscribed == Quiet => Subscribed(ConnFilter)

\* OnAGVOnline and OnAGVOffline: when all calls have returned, the hooks fired
\* so far agree with what is tracked; Restore fires none.
HooksAgree ==
    Quiet => \A a \in AGVs : hooks[a] = IF a \in tracked THEN 1 ELSE 0

\* Untrack "removes per-AGV subscriptions": an AGV whose last successful call
\* was Untrack is neither tracked nor subscribed once everything is quiet.
UntrackSticks ==
    Quiet => \A a \in AGVs : want[a] = "untrack" =>
        a \notin tracked /\ \A i \in 1 .. NChans : ~Subscribed(<<a, i>>)

\* Restore "re-subscribes connection and all tracked AGVs": an AGV whose last
\* successful call was Track is still tracked once everything is quiet, if the
\* last Restore reported no error.
TrackSticks ==
    Quiet /\ restoreOK => \A a \in AGVs : want[a] = "track" => a \in tracked

\* Stop "untracks all AGVs": a client that has been stopped tracks nothing.
StopUntracksAll ==
    ~cstarted /\ (\A p \in Procs : th[p] = Idle) => tracked = {}
=============================================================================
