------------------------------ MODULE MCWatching ------------------------------
(***************************************************************************)
(* What works by itself beside the pages, for TLC: the worker threads of   *)
(* the monitors, the monitoring service with its watcher and its history,  *)
(* the multipath engine, the statistics, the grades and the store of the   *)
(* journal.  They share no state, so a behaviour is about one of them and  *)
(* the others stay as they began.                                          *)
(***************************************************************************)
EXTENDS BackupStore, WorkerLifecycle, Monitoring, Multipath, Statistics, Grades

CONSTANTS gui, other, p1, p2, cs, dota, lan, wifi

\* The ping monitor, which page and autopilot start, and the game watcher,
\* whose callback stops it.
SelfStopping == [starters |-> {gui}, selfStops |-> TRUE]
MCUses == {SelfStopping, [starters |-> {gui, other}, selfStops |-> FALSE]}
MCGameOf == [p \in Pids |-> IF p = p1 THEN cs ELSE dota]
MCEstimates == [p50 : 1..3, spread : {0, 2}, confidence : {1, 3}]
MCNeighbours == [channel : {1, 3, 6, 9, 11}, strength : {1, 101}]

VARIABLES
    under,  \* the part a behaviour is about
    awaited \* the caller whose calls are followed

Parts == {"threads", "service", "paths", "numbers", "grades", "journal"}
watchingVars == <<under, awaited, lifecycleVars, monitoringVars, multipathVars, statisticsVars, gradesVars, vars>>

LifecycleRests == LifecycleInit /\ use = SelfStopping
StatisticsRests == StatisticsInit /\ subject = "collector" /\ jitter.window = 2
GradesRests == GradesInit /\ graded = "line"

WatchingInit ==
    /\ under \in Parts
    /\ awaited \in Callers /\ (under = "threads" \/ awaited = gui)
    /\ Init /\ MonitoringInit /\ MultipathInit
    /\ IF under = "threads" THEN LifecycleInit ELSE LifecycleRests
    /\ IF under = "numbers" THEN StatisticsInit ELSE StatisticsRests
    /\ IF under = "grades" THEN GradesInit ELSE GradesRests

BesideThreads == <<under, awaited, monitoringVars, multipathVars, statisticsVars, gradesVars, vars>>
BesideService == <<under, awaited, lifecycleVars, multipathVars, statisticsVars, gradesVars, vars>>
BesidePaths == <<under, awaited, lifecycleVars, monitoringVars, statisticsVars, gradesVars, vars>>
BesideNumbers == <<under, awaited, lifecycleVars, monitoringVars, multipathVars, gradesVars, vars>>
BesideGrades == <<under, awaited, lifecycleVars, monitoringVars, multipathVars, statisticsVars, vars>>
BesideJournal == <<under, awaited, lifecycleVars, monitoringVars, multipathVars, statisticsVars, gradesVars>>

WatchingNext ==
    \/ under = "threads" /\ LifecycleNext /\ UNCHANGED BesideThreads
    \/ under = "service" /\ MonitoringNext /\ UNCHANGED BesideService
    \/ under = "paths" /\ MultipathNext /\ UNCHANGED BesidePaths
    \/ under = "numbers" /\ StatisticsNext /\ UNCHANGED BesideNumbers
    \/ under = "grades" /\ GradesNext /\ UNCHANGED BesideGrades
    \/ under = "journal" /\ Next /\ UNCHANGED BesideJournal

CallerProceeds(c) == under = "threads" /\ CallerRuns(c) /\ UNCHANGED BesideThreads
WorkerProceeds(w) == under = "threads" /\ WorkerRuns(w) /\ UNCHANGED BesideThreads
ProberProceeds == under = "paths" /\ ProberStep /\ UNCHANGED BesidePaths
StopProceeds == under = "paths" /\ StopJoins /\ UNCHANGED BesidePaths

\* Threads that are in a call and workers are scheduled; games, users and days
\* owe nothing.
CallerScheduled(c) == WF_watchingVars(CallerProceeds(c))
WorkerScheduled(w) == WF_watchingVars(WorkerProceeds(w))
PathsScheduled == WF_watchingVars(ProberProceeds) /\ WF_watchingVars(StopProceeds)
WatchingFairness ==
    /\ \A c \in Callers : CallerScheduled(c)
    /\ \A w \in Workers : WorkerScheduled(w)
    /\ PathsScheduled

WatchingSpec == WatchingInit /\ [][WatchingNext]_watchingVars /\ WatchingFairness

\* Every variable has its type.
WatchingTypeOK ==
    /\ TypeOK /\ LifecycleTypeOK /\ MonitoringTypeOK /\ MultipathTypeOK /\ StatisticsTypeOK /\ GradesTypeOK
    /\ under \in Parts /\ awaited \in Callers

\* Whoever waits comes back: a caller of start() and stop() of a monitor, and
\* stop() of the multipath engine.  It is CallsReturn or StopReturns, for what
\* the behaviour is about.
Waiting ==
    \/ under = "threads" /\ callerAt[awaited] # "idle"
    \/ under = "paths" /\ stopping
WaitsEnd == Waiting ~> ~Waiting

CallerCan(c) == ENABLED <<CallerProceeds(c)>>_watchingVars
WorkerCan(w) == ENABLED <<WorkerProceeds(w)>>_watchingVars
ProberCan == ENABLED <<ProberProceeds>>_watchingVars
StopCan == ENABLED <<StopProceeds>>_watchingVars

\* A thread that does not wait for another one can take its next step: a
\* caller outside of a join or whose worker has ended, a worker until it has
\* ended, the prober at every point of its loop, and stop() after it.  The
\* liveness theorem assumes it.
NobodyIsStuck ==
    /\ under = "threads" =>
        /\ \A c \in Callers : CallerDue(c) => CallerCan(c)
        /\ \A w \in Alive : WorkerCan(w)
    /\ under = "paths" => (ProberDue => ProberCan) /\ (stopping /\ prober = "none" => StopCan)
=============================================================================
