--------------------------- MODULE FleetAutoTrack ---------------------------
(***************************************************************************)
(* Auto-track (fleet_autotrack.go and FleetSession.HandleConnection): the  *)
(* connection states of the fleet, as jobs of one worker goroutine that    *)
(* tracks an AGV that is online and untracks one that is not, beside the   *)
(* calls of the platform.                                                  *)
(*                                                                         *)
(* The worker is one more goroutine of FleetSession, whose calls come out  *)
(* of a bounded queue.  Stop cancels the context of its calls, which may   *)
(* end any of them early with an error: hence the assumption on Faults.    *)
(*                                                                         *)
(* Data.  OFFLINE and CONNECTIONBROKEN are "untrack", ONLINE is "track",   *)
(* other states do nothing and are left out.                               *)
(***************************************************************************)
EXTENDS FleetSession

CONSTANTS
    AutoWorker,     \* the goroutine of runFleetAutoTrack
    QueueSize       \* fleetAutoTrackQueueSize

ASSUME AutoTrackAssumption ==
    /\ AutoWorker \in Callers
    /\ QueueSize \in Nat \ {0}
    /\ {"timeout", "unsub"} \subseteq Faults

VARIABLES
    open,       \* Client.fleetJobs is not nil
    jobs,       \* the jobs in the channel
    cancelled,  \* the worker's context is done
    alive,      \* the worker has not returned
    latest,     \* history: latest[a]: the last state of a that was scheduled
    reported,   \* history: AGVs of which it went to OnHandlerError instead
    manual,     \* history: AGVs the platform called Track or Untrack for
    raced       \* history: AGVs that two calls were at work on at once, until
                \* the AGV is untracked and no call is at work on it

queueVars == <<open, jobs, cancelled, alive>>
seen      == <<latest, reported, manual, raced>>
allVars   == <<vars, queueVars, seen>>

Jobs == [agv : AGVs, op : {"track", "untrack"}]

AutoTypeOK ==
    /\ TypeOK
    /\ open \in BOOLEAN /\ cancelled \in BOOLEAN /\ alive \in BOOLEAN
    /\ jobs \in Seq(Jobs) /\ Len(jobs) <= QueueSize
    /\ latest \in [AGVs -> {"none", "track", "untrack"}]
    /\ reported \subseteq AGVs /\ manual \subseteq AGVs /\ raced \subseteq AGVs

AutoInit ==
    /\ Init
    /\ open = FALSE /\ jobs = << >> /\ cancelled = FALSE /\ alive = FALSE
    /\ latest = [a \in AGVs |-> "none"] /\ reported = {} /\ manual = {}
    /\ raced = {}

\* Goroutine p is in track or untrack of AGV a.
AtWork(p, a) == th[p].agv = a /\ th[p].pc \notin {"stopNext", "disconnect"}

\* Who races with whom is read off the goroutines after the step.
Races ==
    raced' = {a \in AGVs :
                \/ \E p, q \in Procs : p # q /\ AtWork(p, a)' /\ AtWork(q, a)'
                \/ /\ a \in raced
                   /\ a \in tracked' \/ \E p \in Procs : AtWork(p, a)'}

-----------------------------------------------------------------------------
\* Mutant: one job too many.
MutHasRoom == Len(jobs) <= QueueSize

\* The channel takes another job.
HasRoom == Len(jobs) < QueueSize

\* Mutant: a job that finds the queue full is lost without a word.
MutOverflow(a) == reported \ {a}

\* What scheduleAutoTrack reports when the queue is full.
Overflow(a) == reported \cup {a}

\* scheduleAutoTrack, by the worker of the connection lane; once the context
\* is done the job may be discarded.
Schedule(a, o) ==
    /\ up /\ open
    /\ \/ /\ HasRoom
          /\ jobs' = Append(jobs, [agv |-> a, op |-> o])
          /\ latest' = [latest EXCEPT ![a] = o]
          /\ reported' = reported \ {a}
       \/ /\ ~HasRoom /\ ~cancelled
          /\ latest' = [latest EXCEPT ![a] = o]
          /\ reported' = Overflow(a)
          /\ UNCHANGED jobs
    /\ UNCHANGED <<vars, open, cancelled, alive, manual, raced>>

\* runFleetAutoTrack takes a job: HandleConnection calls Track or Untrack.
TakeJob ==
    /\ alive /\ jobs # << >>
    /\ LET j == Head(jobs) IN
         /\ Begin(AutoWorker,
                  [Idle EXCEPT !.op = j.op, !.agv = j.agv,
                               !.pc = IF j.op = "track" THEN "check"
                                      ELSE "remove"])
         /\ jobs' = Tail(jobs)
    /\ UNCHANGED <<up, cstarted, fleetVars, subs, reconnects, due, ghosts, open,
                   cancelled, alive, latest, reported, manual>>
    /\ Races

\* The job is done; an error goes to OnHandlerError.
JobStep ==
    /\ Step(AutoWorker)
    /\ LET t == th[AutoWorker]
           newer == \E i \in 1 .. Len(jobs) : jobs[i].agv = t.agv
       IN  reported' = IF th'[AutoWorker] = Idle /\ t.failed /\ ~newer
                       THEN reported \cup {t.agv} ELSE reported
    /\ UNCHANGED <<queueVars, latest, manual>>
    /\ Races

WorkerExit ==
    /\ alive /\ cancelled /\ th[AutoWorker] = Idle
    /\ alive' = FALSE
    /\ UNCHANGED <<vars, open, jobs, cancelled, seen>>

-----------------------------------------------------------------------------
\* Client.Start makes a new channel and a new worker.
AutoStart ==
    /\ Start
    /\ open' = TRUE /\ jobs' = << >> /\ cancelled' = FALSE /\ alive' = TRUE
    /\ latest' = [a \in AGVs |-> "none"] /\ reported' = {} /\ manual' = {}
    /\ UNCHANGED raced

\* Client.Stop: the section under c.mu, then fleetStop().
AutoStop(p) ==
    /\ CallStop(p)
    /\ cancelled' = TRUE
    /\ UNCHANGED <<open, jobs, alive, seen>>

\* Mutant: stopFleetAutoTrack does not wait for the worker.
MutWorkerGone == TRUE

\* fleetWG.Wait returns.
WorkerGone == ~alive

\* The rest of stopFleetAutoTrack, then FleetSession.Stop.
AutoStopped(p) ==
    /\ WorkerGone
    /\ StopSnapshot(p)
    /\ open' = FALSE /\ jobs' = << >>
    /\ UNCHANGED <<cancelled, alive, seen>>

ManualCall(p, o, a) ==
    /\ Call(p, o, a)
    /\ manual' = manual \cup {a}
    /\ UNCHANGED <<queueVars, latest, reported>>
    /\ Races

ManualStep(p) ==
    /\ th[p].pc # "stop" /\ Step(p)
    /\ UNCHANGED <<queueVars, latest, reported, manual>>
    /\ Races

AutoNext ==
    \/ \E a \in AGVs, o \in {"track", "untrack"} : Schedule(a, o)
    \/ TakeJob \/ JobStep \/ WorkerExit
    \/ AutoStart
    \/ StartFails /\ UNCHANGED <<queueVars, seen>>
    \/ \E p \in Callers \ {AutoWorker} :
         \/ AutoStop(p) \/ AutoStopped(p) \/ ManualStep(p)
         \/ \E o \in Calls, a \in AGVs : ManualCall(p, o, a)

AutoSpec == AutoInit /\ [][AutoNext]_allVars

-----------------------------------------------------------------------------
(***************************************************************************)
(* Properties; HooksAgree and StopUntracksAll of FleetSession are stated   *)
(* for this specification too.                                             *)
(***************************************************************************)
\* Track "subscribes per-AGV channels": when all calls have returned, each
\* channel of a tracked AGV is subscribed, whatever calls failed half-way and
\* whatever Stop interrupted, unless two calls were at work on the AGV at once.
\* (Then the rollback of the call that lost unsubscribes the filters of the call
\* that won.)
UncontestedSubscribed ==
    Quiet => \A a \in tracked \ raced, i \in 1 .. NChans : Subscribed(<<a, i>>)

\* AutoTrackFromConnection, "connection state should drive Track/Untrack":
\* when the jobs are done, an AGV the platform never touched is tracked if its
\* newest connection state said ONLINE, and is not if it said otherwise, unless
\* that state was reported as lost or failed.
LatestStateWins ==
    Quiet /\ jobs = << >> =>
        \A a \in AGVs \ (manual \cup reported) :
            latest[a] # "none" => (a \in tracked <=> latest[a] = "track")
=============================================================================
