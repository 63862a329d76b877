--------------------------- MODULE WorkerLifecycle ---------------------------
(***************************************************************************)
(* The start/stop protocol that PingMonitor and GameWatcher share: a state *)
(* under lifecycle_mutex_, the handle of the worker thread, a cancellation *)
(* source that is new in every run, and a condition variable the worker    *)
(* sleeps on between two rounds.                                           *)
(*                                                                         *)
(* A critical section of lifecycle_mutex_ is one step.  stop() cancels,    *)
(* notifies and joins outside of it, each a step of its own; it signals    *)
(* without wait_mutex_, so a worker that has just looked at its token and  *)
(* is about to block misses the signal and sleeps until its timeout.       *)
(* A worker's round ends in a callback, which may call stop() itself.      *)
(***************************************************************************)
EXTENDS Naturals, FiniteSets

CONSTANTS
    Callers,    \* the threads that use a monitor
    Uses,       \* the ways it is used: who starts it, whether it stops itself
    MaxRuns,    \* bound on the workers a behaviour starts
    NoWorker

Workers == 1..MaxRuns

\* A callback may stop its own monitor where only one thread starts it.  With
\* two the program can end in std::terminate: the worker of the one stops
\* itself between the two sections of the other's start().
ASSUME LifecycleAssumption ==
    /\ Uses \subseteq [starters : SUBSET Callers, selfStops : BOOLEAN]
    /\ \A u \in Uses : u.selfStops => \A c, d \in u.starters : c = d
    /\ MaxRuns \in Nat
    /\ NoWorker \notin Workers

VARIABLES
    use,        \* the way of this behaviour
    life,       \* lifecycle_state_
    handle,     \* monitor_thread_ / watch_thread_: the worker it may join
    source,     \* the run cancellation_source_ belongs to, 0 before the first
    cancelled,  \* the runs whose token is cancelled
    workerAt,   \* where each worker stands; "none": not created
    callerAt,   \* where each caller stands in start() or stop()
    taken,      \* completed_worker, the handle a caller has moved out
    copied,     \* cancellation, the source stop() has copied, 0 for its own
    terminated  \* std::terminate: a joinable handle has been assigned over

callerVars == <<callerAt, taken, copied>>
lifecycleVars == <<use, life, handle, source, cancelled, workerAt, callerVars, terminated>>

WorkerPlaces == {"none", "top", "probing", "calling", "called", "waiting",
                 "asleep", "finishing", "done"}
CallerPlaces == {"idle", "start-joining", "starting", "cancelling", "notifying", "joining"}

LifecycleTypeOK ==
    /\ use \in Uses
    /\ life \in {"Stopped", "Running", "Stopping"}
    /\ handle \in Workers \cup {NoWorker}
    /\ source \in 0..MaxRuns
    /\ cancelled \subseteq Workers
    /\ workerAt \in [Workers -> WorkerPlaces]
    /\ callerAt \in [Callers -> CallerPlaces]
    /\ taken \in [Callers -> Workers \cup {NoWorker}]
    /\ copied \in [Callers -> 0..MaxRuns]
    /\ terminated \in BOOLEAN

LifecycleInit ==
    /\ use \in Uses
    /\ life = "Stopped"
    /\ handle = NoWorker
    /\ source = 0
    /\ cancelled = {}
    /\ workerAt = [w \in Workers |-> "none"]
    /\ callerAt = [c \in Callers |-> "idle"]
    /\ taken = [c \in Callers |-> NoWorker]
    /\ copied = [c \in Callers |-> 0]
    /\ terminated = FALSE

Alive == {w \in Workers : workerAt[w] \notin {"none", "done"}}

Arrive(c, place) == callerAt' = [callerAt EXCEPT ![c] = place]
WorkerGoes(w, place) == workerAt' = [workerAt EXCEPT ![w] = place]

-----------------------------------------------------------------------------
(* start()                                                                 *)

\* The bound: every start() that is under way may still create a worker.
Starting == {c \in Callers : callerAt[c] \in {"start-joining", "starting"}}
MayStart == source + Cardinality(Starting) < MaxRuns

\* The first section: a run that is on, or ending, is left alone; a worker
\* that has stopped itself and was never joined is taken out.
StartBegin(c) ==
    /\ callerAt[c] = "idle"
    /\ MayStart
    /\ life = "Stopped"
    /\ taken' = [taken EXCEPT ![c] = handle]
    /\ handle' = NoWorker
    /\ life' = IF handle = NoWorker THEN life ELSE "Stopping"
    /\ Arrive(c, IF handle = NoWorker THEN "starting" ELSE "start-joining")
    /\ UNCHANGED <<source, cancelled, workerAt, copied, terminated>>

\* join(), then the second section.
StartJoined(c) ==
    /\ callerAt[c] = "start-joining"
    /\ workerAt[taken[c]] = "done"
    /\ life' = IF life = "Stopping" THEN "Stopped" ELSE life
    /\ taken' = [taken EXCEPT ![c] = NoWorker]
    /\ Arrive(c, "starting")
    /\ UNCHANGED <<handle, source, cancelled, workerAt, copied, terminated>>

\* Mutant: the state is not looked at again.
StartRunUnchecked(c) ==
    /\ callerAt[c] = "starting"
    /\ source' = source + 1 /\ life' = "Running" /\ handle' = source + 1
    /\ terminated' = (terminated \/ handle # NoWorker)
    /\ WorkerGoes(source + 1, "top")
    /\ Arrive(c, "idle")
    /\ UNCHANGED <<cancelled, taken, copied>>

\* The last section: another caller may have been faster.
StartRun(c) ==
    /\ callerAt[c] = "starting"
    /\ Arrive(c, "idle")
    /\ \/ /\ life # "Stopped"
          /\ UNCHANGED <<life, handle, source, workerAt, terminated>>
       \/ /\ life = "Stopped"
          /\ source' = source + 1
          /\ life' = "Running"
          /\ terminated' = (terminated \/ handle # NoWorker)
          /\ handle' = source + 1
          /\ WorkerGoes(source + 1, "top")
    /\ UNCHANGED <<cancelled, taken, copied>>

-----------------------------------------------------------------------------
(* stop()                                                                  *)

\* Mutant: a stop() that finds the monitor stopped does not join.
StopBeginHasty(c) ==
    /\ callerAt[c] = "idle"
    /\ life' = IF life = "Stopped" THEN life ELSE "Stopping"
    /\ copied' = [copied EXCEPT ![c] = IF life = "Stopped" THEN 0 ELSE source]
    /\ taken' = [taken EXCEPT ![c] = IF life = "Running" THEN handle ELSE NoWorker]
    /\ handle' = NoWorker
    /\ Arrive(c, "cancelling")
    /\ UNCHANGED <<source, cancelled, workerAt, terminated>>

\* The section of a thread that is not the worker: it takes the handle,
\* whatever the state; a second stop() finds none and does not wait.
StopBegin(c) ==
    /\ callerAt[c] = "idle"
    /\ life' = IF life = "Stopped" THEN life ELSE "Stopping"
    /\ copied' = [copied EXCEPT ![c] = IF life = "Stopped" THEN 0 ELSE source]
    /\ taken' = [taken EXCEPT ![c] = handle]
    /\ handle' = NoWorker
    /\ Arrive(c, "cancelling")
    /\ UNCHANGED <<source, cancelled, workerAt, terminated>>

StopCancel(c) ==
    /\ callerAt[c] = "cancelling"
    /\ cancelled' = cancelled \cup ({copied[c]} \cap Workers)
    /\ Arrive(c, "notifying")
    /\ UNCHANGED <<life, handle, source, workerAt, taken, copied, terminated>>

\* notify_all() reaches a worker that is blocked; its predicate lets only a
\* cancelled one go on.
Notified == [w \in Workers |->
    IF workerAt[w] = "asleep" /\ w \in cancelled THEN "top" ELSE workerAt[w]]

StopNotify(c) ==
    /\ callerAt[c] = "notifying"
    /\ workerAt' = Notified
    /\ Arrive(c, IF taken[c] = NoWorker THEN "idle" ELSE "joining")
    /\ copied' = [copied EXCEPT ![c] = 0]
    /\ UNCHANGED <<life, handle, source, cancelled, taken, terminated>>

StopJoined(c) ==
    /\ callerAt[c] = "joining"
    /\ workerAt[taken[c]] = "done"
    /\ taken' = [taken EXCEPT ![c] = NoWorker]
    /\ Arrive(c, "idle")
    /\ UNCHANGED <<life, handle, source, cancelled, workerAt, copied, terminated>>

-----------------------------------------------------------------------------
(* The worker: monitorLoop, watchLoop.                                     *)

\* The head of the loop and the check after the probe.
Look(w) ==
    \/ /\ workerAt[w] = "top"
       /\ WorkerGoes(w, IF w \in cancelled THEN "finishing" ELSE "probing")
    \/ /\ workerAt[w] = "probing"
       /\ WorkerGoes(w, IF w \in cancelled THEN "finishing" ELSE "calling")

\* The callback, which may stop its own monitor: the handle stays, since a
\* thread does not join itself, and nobody waits.
Callback(w) ==
    /\ workerAt[w] = "calling"
    /\ WorkerGoes(w, "called")
    /\ \/ UNCHANGED <<life, cancelled>>
       \/ /\ use.selfStops
          /\ life' = IF life = "Stopped" THEN life ELSE "Stopping"
          /\ cancelled' = IF life = "Stopped" THEN cancelled ELSE cancelled \cup {source}

\* The check after the callback; then updateStats and the wait's predicate.
Waits(w) ==
    \/ /\ workerAt[w] = "called"
       /\ WorkerGoes(w, IF w \in cancelled THEN "finishing" ELSE "waiting")
    \/ /\ workerAt[w] = "waiting"
       /\ WorkerGoes(w, "asleep")

\* Mutant: a wait without a timeout, only for the signal.
WakesOnlySignalled(w) == FALSE /\ WorkerGoes(w, "top")

\* The timeout of wait_for.
Wakes(w) == workerAt[w] = "asleep" /\ WorkerGoes(w, "top")

\* finishWorker, then the thread ends.
Finish(w) ==
    /\ workerAt[w] = "finishing"
    /\ WorkerGoes(w, "done")
    /\ life' = IF life = "Stopping" THEN "Stopped" ELSE life
    /\ UNCHANGED <<handle, source, cancelled, callerVars, terminated>>

WorkerStep(w) ==
    \/ (Look(w) \/ Waits(w) \/ Wakes(w))
       /\ UNCHANGED <<life, handle, source, cancelled, callerVars, terminated>>
    \/ Callback(w) /\ UNCHANGED <<handle, source, callerVars, terminated>>
    \/ Finish(w)

-----------------------------------------------------------------------------
CallerStep(c) ==
    \/ StartJoined(c) \/ StartRun(c)
    \/ StopCancel(c) \/ StopNotify(c) \/ StopJoined(c)

LifecycleNext ==
    /\ \/ \E c \in use.starters : StartBegin(c)
       \/ \E c \in Callers : StopBegin(c) \/ CallerStep(c)
       \/ \E w \in Workers : WorkerStep(w)
    /\ UNCHANGED use

LifecycleSpec == LifecycleInit /\ [][LifecycleNext]_lifecycleVars

\* Threads that are in a call, and the workers, are scheduled; a wait ends
\* with its timeout, a probe with its own.  Nobody has to start or stop.
CallerRuns(c) == CallerStep(c) /\ UNCHANGED use
WorkerRuns(w) == WorkerStep(w) /\ UNCHANGED use

-----------------------------------------------------------------------------
(* Properties.                                                             *)

\* Two workers never measure at once: a new one is created only after the
\* old one has left its loop, so the statistics and the set of known games,
\* which have no lock of their own, belong to one thread.
OneWorker == Cardinality(Alive) <= 1

\* A worker thread never outlives everybody who could wait for it: its
\* handle is in the object or with a caller that is on its way to join it.
\* The destructor, which calls stop(), relies on it.
NoOrphan ==
    \A w \in Alive : handle = w \/ \E c \in Callers : taken[c] = w

\* A start() never assigns over a handle that can still be joined, which
\* would end the program, whenever the worker stops itself in its callback.
HandleJoinedFirst == ~terminated

\* The three together: at any time there is at most one worker, and somebody
\* is there to wait for it.
ThreadsAreOwned == OneWorker /\ NoOrphan /\ HandleJoinedFirst

\* A caller that does not wait: it joins nobody, or a worker that has ended.
CallerDue(c) ==
    \/ callerAt[c] \in {"starting", "cancelling", "notifying"}
    \/ callerAt[c] \in {"start-joining", "joining"} /\ workerAt[taken[c]] = "done"

\* start() and stop() return although the signal of stop() may come between
\* the worker's look at its token and its sleep.
CallsReturn == \A c \in Callers : (callerAt[c] # "idle") ~> (callerAt[c] = "idle")
=============================================================================
