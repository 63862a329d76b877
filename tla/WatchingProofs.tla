---------------------------- MODULE WatchingProofs ----------------------------
(***************************************************************************)
(* What works by itself beside the pages: the workers of the monitors, the *)
(* multipath engine, the statistics and the grades, each for every value   *)
(* of its constants, and the types of all of them together.                *)
(***************************************************************************)
EXTENDS MCWatching, MonitoringProofs, BackupStoreProofs, WellFoundedInduction

-----------------------------------------------------------------------------
(* The workers: one at a time, somebody who waits for it, and no handle    *)
(* that is assigned over.                                                  *)

\* Only the worker of the last run can still be in its loop, and a monitor
\* that is stopped has none.
NewestIsAlive ==
    /\ Alive \subseteq {source}
    /\ life = "Stopped" => Alive = {}

\* A caller that begins a call holds no handle that it could forget.
NothingForgotten ==
    \A c \in Callers : callerAt[c] \in {"idle", "starting"} => taken[c] = NoWorker

StartersStart ==
    \A c \in Callers : callerAt[c] \in {"start-joining", "starting"} => c \in use.starters

\* start() joins only a worker that has stopped itself and left its loop.
JoinsAnEndedWorker ==
    \A c \in Callers : callerAt[c] = "start-joining" =>
        use.selfStops /\ life = "Stopping" /\ handle = NoWorker /\ Alive = {}

\* Why the last section of start() finds no handle: where workers stop
\* themselves its only starter has taken it out, elsewhere stop() has.
HandleIsTaken ==
    /\ use.selfStops => \A c \in Callers : callerAt[c] = "starting" => handle = NoWorker
    /\ ~use.selfStops /\ life # "Running" => handle = NoWorker

RunsAreBounded == IsFiniteSet(Starting) /\ source + Cardinality(Starting) <= MaxRuns

LifecycleIInv ==
    /\ LifecycleTypeOK /\ NewestIsAlive /\ NoOrphan /\ NothingForgotten /\ StartersStart
    /\ JoinsAnEndedWorker /\ HandleIsTaken /\ RunsAreBounded /\ HandleJoinedFirst

-----------------------------------------------------------------------------
(* Facts about the bound and about who is in a start().                    *)

LEMMA Starter ==
    ASSUME LifecycleTypeOK, NEW c \in use.starters
    PROVE  c \in Callers
BY LifecycleAssumption DEF LifecycleTypeOK

LEMMA OnlyStarter ==
    ASSUME LifecycleTypeOK, use.selfStops, NEW c \in use.starters, NEW d \in use.starters
    PROVE  c = d
BY LifecycleAssumption DEF LifecycleTypeOK

\* A caller that enters a start(), stays in it, leaves it, or is elsewhere.
LEMMA StartingAfter ==
    ASSUME LifecycleTypeOK, NEW c \in Callers, NEW p \in CallerPlaces, Arrive(c, p)
    PROVE  /\ callerAt' \in [Callers -> CallerPlaces]
           /\ p \in {"start-joining", "starting"} => Starting' = Starting \cup {c}
           /\ p \notin {"start-joining", "starting"} => Starting' = Starting \ {c}
BY DEF LifecycleTypeOK, Arrive, Starting

LEMMA RunsCounted ==
    ASSUME LifecycleTypeOK, RunsAreBounded
    PROVE  /\ Cardinality(Starting) \in Nat /\ source \in Nat /\ MaxRuns \in Nat
           /\ source <= MaxRuns
BY FS_CardinalityType, LifecycleAssumption DEF LifecycleTypeOK, RunsAreBounded

\* Who is in a start() keeps a number free for the worker it may create.
LEMMA NumberIsFree ==
    ASSUME LifecycleTypeOK, RunsAreBounded, NEW c \in Starting
    PROVE  /\ IsFiniteSet(Starting \ {c})
           /\ Cardinality(Starting \ {c}) = Cardinality(Starting) - 1
           /\ Cardinality(Starting \ {c}) \in Nat
           /\ source + 1 \in Workers
<1>1. /\ IsFiniteSet(Starting \ {c})
      /\ Cardinality(Starting \ {c}) = Cardinality(Starting) - 1
    BY FS_RemoveElement DEF RunsAreBounded
<1>2. Cardinality(Starting \ {c}) \in Nat
    BY <1>1, FS_CardinalityType
<1> QED
    BY <1>1, <1>2, RunsCounted DEF RunsAreBounded, Workers

\* A step of a caller that neither enters nor leaves a start().
LEMMA BoundStays ==
    ASSUME RunsAreBounded, Starting' = Starting, source' = source
    PROVE  RunsAreBounded'
BY DEF RunsAreBounded

-----------------------------------------------------------------------------
LEMMA InitLifecycle == LifecycleInit => LifecycleIInv
<1> SUFFICES ASSUME LifecycleInit PROVE LifecycleIInv
    OBVIOUS
<1>1. LifecycleTypeOK
  <2>1. 0 \in 0..MaxRuns
      BY LifecycleAssumption
  <2>2. workerAt \in [Workers -> WorkerPlaces] /\ callerAt \in [Callers -> CallerPlaces]
      BY DEF LifecycleInit, WorkerPlaces, CallerPlaces
  <2>3. taken \in [Callers -> Workers \cup {NoWorker}] /\ copied \in [Callers -> 0..MaxRuns]
      BY <2>1 DEF LifecycleInit
  <2> QED
      BY <2>1, <2>2, <2>3 DEF LifecycleInit, LifecycleTypeOK
<1>2. Alive = {} /\ Starting = {}
    BY DEF LifecycleInit, Alive, Starting
<1>3. RunsAreBounded
    BY <1>2, FS_EmptySet, LifecycleAssumption DEF LifecycleInit, RunsAreBounded
<1> QED
    BY <1>1, <1>2, <1>3 DEF LifecycleIInv, LifecycleInit, NewestIsAlive, NoOrphan, NothingForgotten,
       StartersStart, JoinsAnEndedWorker, HandleIsTaken, HandleJoinedFirst

-----------------------------------------------------------------------------
(* start()                                                                 *)

LEMMA StartBeginKeeps ==
    ASSUME LifecycleIInv, NEW c \in use.starters, StartBegin(c), UNCHANGED use
    PROVE  LifecycleIInv'
<1> DEFINE p == IF handle = NoWorker THEN "starting" ELSE "start-joining"
<1>1. LifecycleTypeOK /\ RunsAreBounded /\ c \in Callers
    BY Starter DEF LifecycleIInv
<1>2. /\ Arrive(c, p) /\ p \in CallerPlaces /\ p \in {"start-joining", "starting"}
      /\ callerAt[c] = "idle" /\ callerAt'[c] = p
      /\ \A d \in Callers \ {c} : callerAt'[d] = callerAt[d]
    BY <1>1 DEF StartBegin, Arrive, CallerPlaces, LifecycleTypeOK
<1>3. callerAt' \in [Callers -> CallerPlaces] /\ Starting' = Starting \cup {c}
    BY <1>1, <1>2, StartingAfter
<1>4. Alive = {} /\ Alive' = {}
    BY DEF LifecycleIInv, NewestIsAlive, StartBegin, Alive
<1>5. LifecycleTypeOK'
    BY <1>1, <1>3 DEF StartBegin, LifecycleTypeOK
<1>6. NewestIsAlive' /\ NoOrphan'
    BY <1>4 DEF NewestIsAlive, NoOrphan
<1>7. NothingForgotten'
    BY <1>1, <1>2 DEF LifecycleIInv, NothingForgotten, StartBegin, LifecycleTypeOK
<1>8. StartersStart'
    BY <1>2 DEF LifecycleIInv, StartersStart
<1>9. JoinsAnEndedWorker'
  <2>1. \A d \in Callers : callerAt[d] # "start-joining"
      BY DEF LifecycleIInv, JoinsAnEndedWorker, StartBegin
  <2>2. p = "start-joining" => use.selfStops /\ life' = "Stopping"
      BY DEF LifecycleIInv, HandleIsTaken, StartBegin
  <2> QED
      BY <1>2, <1>4, <2>1, <2>2 DEF JoinsAnEndedWorker, StartBegin
<1>10. HandleIsTaken'
    BY DEF StartBegin, HandleIsTaken
<1>11. RunsAreBounded'
  <2>1. IsFiniteSet(Starting') /\ Cardinality(Starting') <= Cardinality(Starting) + 1
      BY <1>1, <1>3, RunsCounted, FS_AddElement DEF RunsAreBounded
  <2>2. source' = source /\ source + Cardinality(Starting) < MaxRuns
      BY DEF StartBegin, MayStart
  <2>3. Cardinality(Starting') \in Nat
      BY <2>1, FS_CardinalityType
  <2> QED
      BY <1>1, <2>1, <2>2, <2>3, RunsCounted DEF RunsAreBounded
<1> QED
    BY <1>5, <1>6, <1>7, <1>8, <1>9, <1>10, <1>11 DEF LifecycleIInv, HandleJoinedFirst, StartBegin

LEMMA StartJoinedKeeps ==
    ASSUME LifecycleIInv, NEW c \in Callers, StartJoined(c), UNCHANGED use
    PROVE  LifecycleIInv'
<1>1. LifecycleTypeOK /\ RunsAreBounded /\ c \in use.starters
    BY DEF LifecycleIInv, StartersStart, StartJoined
<1>2. /\ Arrive(c, "starting") /\ "starting" \in CallerPlaces /\ callerAt'[c] = "starting"
      /\ \A d \in Callers \ {c} : callerAt'[d] = callerAt[d]
    BY <1>1 DEF StartJoined, Arrive, CallerPlaces, LifecycleTypeOK
<1>3. callerAt' \in [Callers -> CallerPlaces] /\ Starting' = Starting
    BY <1>1, <1>2, StartingAfter DEF Starting, StartJoined
<1>4. use.selfStops /\ handle' = NoWorker /\ life' = "Stopped" /\ Alive' = {}
    BY DEF LifecycleIInv, JoinsAnEndedWorker, StartJoined, Alive
<1>5. LifecycleTypeOK'
    BY <1>1, <1>3 DEF StartJoined, LifecycleTypeOK
<1>6. NewestIsAlive' /\ NoOrphan'
    BY <1>4 DEF NewestIsAlive, NoOrphan
<1>7. NothingForgotten'
    BY <1>1, <1>2 DEF LifecycleIInv, NothingForgotten, StartJoined, LifecycleTypeOK
<1>8. StartersStart'
    BY <1>1, <1>2 DEF LifecycleIInv, StartersStart
<1>9. JoinsAnEndedWorker'
    BY <1>1, <1>2, <1>4, OnlyStarter DEF LifecycleIInv, StartersStart, JoinsAnEndedWorker
<1>10. HandleIsTaken'
    BY <1>4 DEF HandleIsTaken, StartJoined
<1> QED
    BY <1>3, <1>5, <1>6, <1>7, <1>8, <1>9, <1>10, BoundStays DEF LifecycleIInv, HandleJoinedFirst, StartJoined

LEMMA StartRunKeeps ==
    ASSUME LifecycleIInv, NEW c \in Callers, StartRun(c), UNCHANGED use
    PROVE  LifecycleIInv'
<1>1. LifecycleTypeOK /\ RunsAreBounded /\ c \in use.starters /\ c \in Starting
    BY DEF LifecycleIInv, StartersStart, StartRun, Starting
<1>2. /\ Arrive(c, "idle") /\ "idle" \in CallerPlaces /\ callerAt'[c] = "idle"
      /\ callerAt[c] = "starting" /\ \A d \in Callers \ {c} : callerAt'[d] = callerAt[d]
    BY <1>1 DEF StartRun, Arrive, CallerPlaces, LifecycleTypeOK
<1>3. callerAt' \in [Callers -> CallerPlaces] /\ Starting' = Starting \ {c}
    BY <1>1, <1>2, StartingAfter
<1>4. /\ IsFiniteSet(Starting') /\ Cardinality(Starting') = Cardinality(Starting) - 1
      /\ Cardinality(Starting') \in Nat /\ source + 1 \in Workers
    BY <1>1, <1>3, NumberIsFree
<1>5. NothingForgotten' /\ StartersStart'
    BY <1>1, <1>2 DEF LifecycleIInv, NothingForgotten, StartersStart, StartRun
<1>6. CASE life # "Stopped"
  <2>1. UNCHANGED <<life, handle, source, cancelled, workerAt, taken, copied, terminated>>
      BY <1>6 DEF StartRun
  <2>2. LifecycleTypeOK'
      BY <1>1, <1>3, <2>1 DEF LifecycleTypeOK
  <2>3. Alive' = Alive
      BY <2>1 DEF Alive
  <2>4. NewestIsAlive' /\ NoOrphan' /\ JoinsAnEndedWorker' /\ HandleIsTaken' /\ HandleJoinedFirst'
      BY <1>2, <2>1, <2>3 DEF LifecycleIInv, NewestIsAlive, NoOrphan, JoinsAnEndedWorker, HandleIsTaken,
         HandleJoinedFirst
  <2>5. RunsAreBounded'
      BY <1>1, <1>4, <2>1, RunsCounted DEF RunsAreBounded
  <2> QED
      BY <1>5, <2>2, <2>4, <2>5 DEF LifecycleIInv
<1>7. CASE life = "Stopped"
  <2>1. /\ source' = source + 1 /\ life' = "Running" /\ handle' = source + 1
        /\ terminated' = (terminated \/ handle # NoWorker)
        /\ workerAt' = [workerAt EXCEPT ![source + 1] = "top"]
        /\ UNCHANGED <<cancelled, taken, copied>>
      BY <1>7 DEF StartRun, WorkerGoes
  <2>2. LifecycleTypeOK'
    <3>1. workerAt' \in [Workers -> WorkerPlaces]
        BY <1>1, <2>1 DEF LifecycleTypeOK, WorkerPlaces
    <3>2. source' \in 0..MaxRuns
        BY <1>4, <2>1, LifecycleAssumption DEF Workers
    <3>3. terminated' \in BOOLEAN
        BY <2>1
    <3> QED
        BY <1>1, <1>3, <1>4, <2>1, <3>1, <3>2, <3>3 DEF LifecycleTypeOK
  <2>3. Alive' \subseteq {source'}
      BY <1>1, <1>7, <2>1 DEF LifecycleIInv, NewestIsAlive, Alive, LifecycleTypeOK
  <2>4. NewestIsAlive' /\ NoOrphan'
      BY <2>1, <2>3 DEF NewestIsAlive, NoOrphan
  <2>5. handle = NoWorker
      BY <1>2, <1>7 DEF LifecycleIInv, HandleIsTaken
  <2>6. HandleJoinedFirst'
      BY <2>1, <2>5 DEF LifecycleIInv, HandleJoinedFirst
  <2>7. \A d \in Callers : callerAt'[d] # "start-joining"
      BY <1>2, <1>7 DEF LifecycleIInv, JoinsAnEndedWorker
  <2>8. use.selfStops => \A d \in Callers : callerAt'[d] # "starting"
      BY <1>1, <1>2, OnlyStarter DEF LifecycleIInv, StartersStart
  <2>9. JoinsAnEndedWorker' /\ HandleIsTaken'
      BY <2>1, <2>7, <2>8 DEF JoinsAnEndedWorker, HandleIsTaken
  <2>10. RunsAreBounded'
      BY <1>1, <1>4, <2>1, RunsCounted DEF RunsAreBounded
  <2> QED
      BY <1>5, <2>2, <2>4, <2>6, <2>9, <2>10 DEF LifecycleIInv
<1> QED
    BY <1>6, <1>7

-----------------------------------------------------------------------------
(* stop()                                                                  *)

LEMMA StopBeginKeeps ==
    ASSUME LifecycleIInv, NEW c \in Callers, StopBegin(c), UNCHANGED use
    PROVE  LifecycleIInv'
<1>1. LifecycleTypeOK /\ RunsAreBounded
    BY DEF LifecycleIInv
<1>2. /\ Arrive(c, "cancelling") /\ "cancelling" \in CallerPlaces /\ callerAt'[c] = "cancelling"
      /\ callerAt[c] = "idle" /\ \A d \in Callers \ {c} : callerAt'[d] = callerAt[d]
    BY <1>1 DEF StopBegin, Arrive, CallerPlaces, LifecycleTypeOK
<1>3. callerAt' \in [Callers -> CallerPlaces] /\ Starting' = Starting
    BY <1>1, <1>2, StartingAfter DEF Starting
<1>4. LifecycleTypeOK'
  <2>1. copied' \in [Callers -> 0..MaxRuns]
      BY <1>1, LifecycleAssumption DEF StopBegin, LifecycleTypeOK
  <2> QED
      BY <1>1, <1>3, <2>1 DEF StopBegin, LifecycleTypeOK
<1>5. Alive' = Alive /\ (life' = "Stopped" => life = "Stopped")
    BY DEF Alive, StopBegin
<1>6. NewestIsAlive'
    BY <1>5 DEF LifecycleIInv, NewestIsAlive, StopBegin
<1>7. NoOrphan'
  <2> SUFFICES ASSUME NEW w \in Alive PROVE \E d \in Callers : taken'[d] = w
      BY <1>5 DEF NoOrphan
  <2>1. CASE handle = w
      BY <1>1, <2>1 DEF StopBegin, LifecycleTypeOK
  <2>2. CASE handle # w
    <3>1. PICK d \in Callers : taken[d] = w
        BY <2>2 DEF LifecycleIInv, NoOrphan
    <3>2. w # NoWorker
        BY LifecycleAssumption DEF Alive
    <3>3. d # c
        BY <1>2, <3>1, <3>2 DEF LifecycleIInv, NothingForgotten
    <3> QED
        BY <1>1, <3>1, <3>3 DEF StopBegin, LifecycleTypeOK
  <2> QED
      BY <2>1, <2>2
<1>8. NothingForgotten' /\ StartersStart'
    BY <1>1, <1>2 DEF LifecycleIInv, NothingForgotten, StartersStart, StopBegin, LifecycleTypeOK
<1>9. JoinsAnEndedWorker'
    BY <1>2, <1>5 DEF LifecycleIInv, JoinsAnEndedWorker, StopBegin
<1>10. HandleIsTaken'
    BY DEF StopBegin, HandleIsTaken
<1> QED
    BY <1>1, <1>3, <1>4, <1>6, <1>7, <1>8, <1>9, <1>10, BoundStays DEF LifecycleIInv, HandleJoinedFirst, StopBegin

LEMMA StopCancelKeeps ==
    ASSUME LifecycleIInv, NEW c \in Callers, StopCancel(c), UNCHANGED use
    PROVE  LifecycleIInv'
<1>1. LifecycleTypeOK /\ RunsAreBounded
    BY DEF LifecycleIInv
<1>2. /\ Arrive(c, "notifying") /\ "notifying" \in CallerPlaces /\ callerAt'[c] = "notifying"
      /\ callerAt[c] = "cancelling" /\ \A d \in Callers \ {c} : callerAt'[d] = callerAt[d]
    BY <1>1 DEF StopCancel, Arrive, CallerPlaces, LifecycleTypeOK
<1>3. callerAt' \in [Callers -> CallerPlaces] /\ Starting' = Starting
    BY <1>1, <1>2, StartingAfter DEF Starting
<1>4. LifecycleTypeOK'
    BY <1>1, <1>3 DEF StopCancel, LifecycleTypeOK
<1>5. Alive' = Alive
    BY DEF Alive, StopCancel
<1>6. NewestIsAlive' /\ NoOrphan' /\ HandleIsTaken'
    BY <1>2, <1>5 DEF LifecycleIInv, NewestIsAlive, NoOrphan, HandleIsTaken, StopCancel
<1>7. NothingForgotten' /\ StartersStart' /\ JoinsAnEndedWorker'
    BY <1>2, <1>5 DEF LifecycleIInv, NothingForgotten, StartersStart, JoinsAnEndedWorker, StopCancel
<1> QED
    BY <1>1, <1>3, <1>4, <1>6, <1>7, BoundStays DEF LifecycleIInv, HandleJoinedFirst, StopCancel

LEMMA StopNotifyKeeps ==
    ASSUME LifecycleIInv, NEW c \in Callers, StopNotify(c), UNCHANGED use
    PROVE  LifecycleIInv'
<1> DEFINE p == IF taken[c] = NoWorker THEN "idle" ELSE "joining"
<1>1. LifecycleTypeOK /\ RunsAreBounded
    BY DEF LifecycleIInv
<1>2. /\ Arrive(c, p) /\ p \in CallerPlaces /\ p \in {"idle", "joining"} /\ callerAt'[c] = p
      /\ callerAt[c] = "notifying" /\ \A d \in Callers \ {c} : callerAt'[d] = callerAt[d]
    BY <1>1 DEF StopNotify, Arrive, CallerPlaces, LifecycleTypeOK
<1>3. callerAt' \in [Callers -> CallerPlaces] /\ Starting' = Starting
    BY <1>1, <1>2, StartingAfter DEF Starting
<1>4. LifecycleTypeOK'
  <2>1. workerAt' \in [Workers -> WorkerPlaces]
      BY <1>1 DEF StopNotify, Notified, LifecycleTypeOK, WorkerPlaces
  <2>2. copied' \in [Callers -> 0..MaxRuns]
      BY <1>1, LifecycleAssumption DEF StopNotify, LifecycleTypeOK
  <2> QED
      BY <1>1, <1>3, <2>1, <2>2 DEF StopNotify, LifecycleTypeOK
<1>5. Alive' = Alive
    BY DEF Alive, StopNotify, Notified
<1>6. NewestIsAlive' /\ NoOrphan' /\ HandleIsTaken'
    BY <1>2, <1>5 DEF LifecycleIInv, NewestIsAlive, NoOrphan, HandleIsTaken, StopNotify
<1>7. NothingForgotten' /\ StartersStart' /\ JoinsAnEndedWorker'
    BY <1>2, <1>5 DEF LifecycleIInv, NothingForgotten, StartersStart, JoinsAnEndedWorker, StopNotify
<1> QED
    BY <1>1, <1>3, <1>4, <1>6, <1>7, BoundStays DEF LifecycleIInv, HandleJoinedFirst, StopNotify

LEMMA StopJoinedKeeps ==
    ASSUME LifecycleIInv, NEW c \in Callers, StopJoined(c), UNCHANGED use
    PROVE  LifecycleIInv'
<1>1. LifecycleTypeOK /\ RunsAreBounded
    BY DEF LifecycleIInv
<1>2. /\ Arrive(c, "idle") /\ "idle" \in CallerPlaces /\ callerAt'[c] = "idle"
      /\ callerAt[c] = "joining" /\ \A d \in Callers \ {c} : callerAt'[d] = callerAt[d]
    BY <1>1 DEF StopJoined, Arrive, CallerPlaces, LifecycleTypeOK
<1>3. callerAt' \in [Callers -> CallerPlaces] /\ Starting' = Starting
    BY <1>1, <1>2, StartingAfter DEF Starting
<1>4. LifecycleTypeOK'
    BY <1>1, <1>3 DEF StopJoined, LifecycleTypeOK
<1>5. Alive' = Alive /\ taken[c] \notin Alive
    BY DEF Alive, StopJoined
<1>6. NewestIsAlive' /\ HandleIsTaken'
    BY <1>2, <1>5 DEF LifecycleIInv, NewestIsAlive, HandleIsTaken, StopJoined
<1>7. NoOrphan'
  <2> SUFFICES ASSUME NEW w \in Alive, handle # w PROVE \E d \in Callers : taken'[d] = w
      BY <1>5 DEF NoOrphan, StopJoined
  <2>1. PICK d \in Callers : taken[d] = w
      BY DEF LifecycleIInv, NoOrphan
  <2> QED
      BY <1>1, <1>5, <2>1 DEF StopJoined, LifecycleTypeOK
<1>8. NothingForgotten' /\ StartersStart' /\ JoinsAnEndedWorker'
    BY <1>1, <1>2, <1>5 DEF LifecycleIInv, NothingForgotten, StartersStart, JoinsAnEndedWorker, StopJoined,
       LifecycleTypeOK
<1> QED
    BY <1>1, <1>3, <1>4, <1>6, <1>7, <1>8, BoundStays DEF LifecycleIInv, HandleJoinedFirst, StopJoined

-----------------------------------------------------------------------------
(* The worker.                                                             *)

\* A worker that goes on in its loop: who is alive stays as it is.
LEMMA GoesOn ==
    ASSUME LifecycleTypeOK, NEW w \in Alive, NEW p \in WorkerPlaces \ {"none", "done"}, WorkerGoes(w, p)
    PROVE  workerAt' \in [Workers -> WorkerPlaces] /\ Alive' = Alive
BY DEF WorkerGoes, LifecycleTypeOK, Alive

\* What a worker leaves alone while it goes on.
LEMMA LoopKeeps ==
    ASSUME LifecycleIInv, workerAt' \in [Workers -> WorkerPlaces], Alive' = Alive,
           UNCHANGED <<use, life, handle, source, cancelled, callerVars, terminated>>
    PROVE  LifecycleIInv'
<1>1. LifecycleTypeOK'
    BY DEF LifecycleIInv, LifecycleTypeOK, callerVars
<1>2. NewestIsAlive' /\ NoOrphan' /\ HandleIsTaken'
    BY DEF LifecycleIInv, NewestIsAlive, NoOrphan, HandleIsTaken, callerVars
<1>3. NothingForgotten' /\ StartersStart' /\ JoinsAnEndedWorker'
    BY DEF LifecycleIInv, NothingForgotten, StartersStart, JoinsAnEndedWorker, callerVars
<1>4. RunsAreBounded'
    BY DEF LifecycleIInv, RunsAreBounded, Starting, callerVars
<1> QED
    BY <1>1, <1>2, <1>3, <1>4 DEF LifecycleIInv, HandleJoinedFirst

LEMMA RoundKeeps ==
    ASSUME LifecycleIInv, NEW w \in Workers, Look(w) \/ Waits(w) \/ Wakes(w),
           UNCHANGED <<use, life, handle, source, cancelled, callerVars, terminated>>
    PROVE  LifecycleIInv'
<1>1. w \in Alive
    BY DEF Look, Waits, Wakes, Alive
<1>2. \E p \in WorkerPlaces \ {"none", "done"} : WorkerGoes(w, p)
    BY DEF Look, Waits, Wakes, WorkerPlaces
<1> QED
    BY <1>1, <1>2, GoesOn, LoopKeeps DEF LifecycleIInv

LEMMA CallbackKeeps ==
    ASSUME LifecycleIInv, NEW w \in Workers, Callback(w),
           UNCHANGED <<use, handle, source, callerVars, terminated>>
    PROVE  LifecycleIInv'
<1>1. LifecycleTypeOK /\ w \in Alive /\ "called" \in WorkerPlaces \ {"none", "done"}
    BY DEF LifecycleIInv, Callback, Alive, WorkerPlaces
<1>2. workerAt' \in [Workers -> WorkerPlaces] /\ Alive' = Alive
    BY <1>1, GoesOn DEF Callback
<1>3. CASE UNCHANGED <<life, cancelled>>
    BY <1>2, <1>3, LoopKeeps
<1>4. CASE ~UNCHANGED <<life, cancelled>>
  <2>1. /\ use.selfStops /\ source = w
        /\ life' = IF life = "Stopped" THEN life ELSE "Stopping"
        /\ cancelled' = IF life = "Stopped" THEN cancelled ELSE cancelled \cup {source}
      BY <1>1, <1>4 DEF Callback, LifecycleIInv, NewestIsAlive
  <2>2. LifecycleTypeOK'
      BY <1>1, <1>2, <2>1 DEF LifecycleTypeOK, callerVars
  <2>3. NewestIsAlive' /\ NoOrphan' /\ HandleIsTaken'
      BY <1>2, <2>1 DEF LifecycleIInv, NewestIsAlive, NoOrphan, HandleIsTaken, callerVars
  <2>4. NothingForgotten' /\ StartersStart' /\ JoinsAnEndedWorker'
      BY <1>2, <2>1 DEF LifecycleIInv, NothingForgotten, StartersStart, JoinsAnEndedWorker, callerVars
  <2>5. RunsAreBounded'
      BY DEF LifecycleIInv, RunsAreBounded, Starting, callerVars
  <2> QED
      BY <2>2, <2>3, <2>4, <2>5 DEF LifecycleIInv, HandleJoinedFirst
<1> QED
    BY <1>3, <1>4

LEMMA FinishKeeps ==
    ASSUME LifecycleIInv, NEW w \in Workers, Finish(w), UNCHANGED use
    PROVE  LifecycleIInv'
<1>1. LifecycleTypeOK /\ w \in Alive
    BY DEF LifecycleIInv, Finish, Alive
<1>2. workerAt' = [workerAt EXCEPT ![w] = "done"] /\ Alive' = {}
    BY <1>1 DEF Finish, WorkerGoes, Alive, LifecycleIInv, NewestIsAlive, LifecycleTypeOK
<1>3. LifecycleTypeOK'
    BY <1>1, <1>2 DEF Finish, LifecycleTypeOK, WorkerPlaces, callerVars
<1>4. NewestIsAlive' /\ NoOrphan' /\ HandleIsTaken'
    BY <1>2 DEF LifecycleIInv, NewestIsAlive, NoOrphan, HandleIsTaken, Finish, callerVars
<1>5. NothingForgotten' /\ StartersStart'
    BY DEF LifecycleIInv, NothingForgotten, StartersStart, Finish, callerVars
<1>6. JoinsAnEndedWorker'
    BY <1>1 DEF LifecycleIInv, JoinsAnEndedWorker, Finish, callerVars
<1>7. RunsAreBounded'
    BY DEF LifecycleIInv, RunsAreBounded, Starting, Finish, callerVars
<1> QED
    BY <1>3, <1>4, <1>5, <1>6, <1>7 DEF LifecycleIInv, HandleJoinedFirst, Finish

-----------------------------------------------------------------------------
LEMMA NextLifecycle == LifecycleIInv /\ [LifecycleNext]_lifecycleVars => LifecycleIInv'
<1> SUFFICES ASSUME LifecycleIInv, [LifecycleNext]_lifecycleVars PROVE LifecycleIInv'
    OBVIOUS
<1>1. CASE UNCHANGED lifecycleVars
  <2>1. workerAt' \in [Workers -> WorkerPlaces] /\ Alive' = Alive
      BY <1>1 DEF lifecycleVars, LifecycleIInv, LifecycleTypeOK, Alive
  <2> QED
      BY <1>1, <2>1, LoopKeeps DEF lifecycleVars
<1>2. ASSUME NEW c \in use.starters, StartBegin(c), UNCHANGED use PROVE LifecycleIInv'
    BY <1>2, StartBeginKeeps
<1>3. ASSUME NEW c \in Callers, StopBegin(c), UNCHANGED use PROVE LifecycleIInv'
    BY <1>3, StopBeginKeeps
<1>4. ASSUME NEW c \in Callers, CallerStep(c), UNCHANGED use PROVE LifecycleIInv'
    BY <1>4, StartJoinedKeeps, StartRunKeeps, StopCancelKeeps, StopNotifyKeeps, StopJoinedKeeps
       DEF CallerStep
<1>5. ASSUME NEW w \in Workers, WorkerStep(w), UNCHANGED use PROVE LifecycleIInv'
    BY <1>5, RoundKeeps, CallbackKeeps, FinishKeeps DEF WorkerStep
<1> QED
    BY <1>1, <1>2, <1>3, <1>4, <1>5 DEF LifecycleNext

LEMMA AlwaysLifecycle == LifecycleSpec => []LifecycleIInv
BY InitLifecycle, NextLifecycle, PTL DEF LifecycleSpec

\* No start, stop, callback or wake-up gives the monitor's state a value that
\* its type does not have; the workers created stay within the bound.
THEOREM LifecycleTypeCorrect == LifecycleSpec => []LifecycleTypeOK
BY AlwaysLifecycle, PTL DEF LifecycleIInv

\* PingMonitor and GameWatcher: two workers never measure at once, a worker
\* that runs has somebody who holds its handle, and no start() assigns over a
\* handle that can be joined, however many callers start and stop.
THEOREM LifecycleOwned == LifecycleSpec => []ThreadsAreOwned
<1>1. LifecycleIInv => OneWorker
  <2> SUFFICES ASSUME LifecycleIInv PROVE Cardinality(Alive) <= 1
      BY DEF OneWorker
  <2>1. IsFiniteSet({source}) /\ Cardinality({source}) = 1
      BY FS_Singleton
  <2>2. Cardinality(Alive) <= Cardinality({source})
      BY <2>1, FS_Subset DEF LifecycleIInv, NewestIsAlive
  <2> QED
      BY <2>1, <2>2
<1> QED
    BY <1>1, AlwaysLifecycle, PTL DEF LifecycleIInv, ThreadsAreOwned

-----------------------------------------------------------------------------
(* The multipath engine: what it knows of a path was measured at that      *)
(* path's gateway, and it switches for a reason.                           *)

\* An id is given out once in a run.
IdsAreOld == \A i \in DOMAIN gateway : i < nextId

\* The thread is of this run: stop() has joined the one before.
ThreadIsOfThisRun == prober # "none" => active \/ stopping

\* While the thread is out to probe, an id of its snapshot either still has
\* the gateway it had or has gone for good.
SnapshotHolds ==
    prober \in {"probing", "writing"} => \A i \in DOMAIN targets :
        i < nextId /\ (i \in DOMAIN gateway => targets[i] = gateway[i])

\* What getBestPath() gave is looked at only where it is another path.
ComparedIsAnother == prober = "comparing" => autoSwitch /\ best.id # activePath

MultipathIInv ==
    /\ MultipathTypeOK /\ IdsAreOld /\ ThreadIsOfThisRun /\ SnapshotHolds
    /\ ComparedIsAnother /\ MetricsOfTheirGateway

LEMMA PathNumbers ==
    ASSUME MultipathTypeOK
    PROVE  /\ nextId \in Nat /\ MaxPathIds \in Nat /\ Threshold \in Nat
           /\ \A i \in PathIds : i \in Nat
           /\ best.score \in Nat
           /\ \A i \in DOMAIN metrics : metrics[i].score \in Nat
<1>1. ASSUME NEW m \in Samples \cup {Fresh} PROVE m.score \in Nat
  <2>1. CASE m = [healthy |-> FALSE, score |-> 1]
      BY <2>1
  <2>2. CASE m \in [healthy : {TRUE}, score : {0, 3}]
      BY <2>2
  <2>3. CASE m = Fresh
      BY <2>3 DEF Fresh
  <2> QED
      BY <2>1, <2>2, <2>3 DEF Samples
<1>2. \A i \in DOMAIN metrics : metrics[i].score \in Nat
    BY <1>1 DEF MultipathTypeOK
<1>3. best.score \in Nat
    BY DEF MultipathTypeOK
<1>4. MaxPathIds \in Nat /\ Threshold \in Nat
    BY MultipathAssumption
<1>5. nextId \in Nat /\ \A i \in PathIds : i \in Nat
    BY <1>4 DEF MultipathTypeOK, PathIds
<1> QED
    BY <1>2, <1>3, <1>4, <1>5

\* No interface is reported with a gateway: a run begins without paths.
LEMMA NoInitialPath ==
    ASSUME NEW f \in InitialPaths
    PROVE  DOMAIN f = {} /\ Cardinality(DOMAIN f) = 0
<1>1. Cardinality({}) = 0
    BY FS_EmptySet
<1>2. PICK n \in 0..0 : f \in [0..(n - 1) -> {}]
    BY <1>1 DEF InitialPaths, ReportedGateways
<1>3. DOMAIN f = 0..(0 - 1)
    BY <1>2
<1> QED
    BY <1>1, <1>3

-----------------------------------------------------------------------------
LEMMA InitMultipath == MultipathInit => MultipathIInv
<1> SUFFICES ASSUME MultipathInit PROVE MultipathIInv
    OBVIOUS
<1>1. DOMAIN Empty = {}
    BY DEF Empty
<1>2. 0 \in PathIds /\ 0 \in 0..MaxPathIds /\ 0 \in 0..MaxStarts
    BY MultipathAssumption DEF PathIds
<1>3. MultipathTypeOK
    BY <1>1, <1>2 DEF MultipathInit, MultipathTypeOK
<1> QED
    BY <1>1, <1>3 DEF MultipathIInv, MultipathInit, IdsAreOld, ThreadIsOfThisRun, SnapshotHolds,
       ComparedIsAnother, MetricsOfTheirGateway

-----------------------------------------------------------------------------
(* Paths come and go.                                                      *)

LEMMA AddRouteKeeps ==
    ASSUME MultipathIInv, NEW gw \in Gateways, AddRoute(gw)
    PROVE  MultipathIInv'
<1> DEFINE ids == DOMAIN gateway \cup {nextId}
<1>1. MultipathTypeOK /\ IdsAreOld
    BY DEF MultipathIInv
<1>2. /\ gateway' = [i \in ids |-> IF i = nextId THEN gw ELSE gateway[i]]
      /\ metrics' = [i \in ids |-> IF i = nextId THEN Fresh ELSE metrics[i]]
      /\ measured' = [i \in ids |-> IF i = nextId THEN gw ELSE measured[i]]
      /\ nextId' = nextId + 1 /\ nextId < MaxPathIds
      /\ UNCHANGED <<active, activePath, autoSwitch, starts, proberVars, stopping>>
    BY DEF AddRoute, NewId
<1>3. nextId \in PathIds /\ nextId' \in 0..MaxPathIds /\ nextId' \in Nat
    BY <1>1, <1>2, PathNumbers DEF PathIds
<1>4. /\ DOMAIN gateway' = ids /\ DOMAIN metrics' = ids /\ DOMAIN measured' = ids
      /\ gateway'[nextId] = gw /\ \A i \in DOMAIN gateway : gateway'[i] = gateway[i]
    BY <1>1, <1>2, PathNumbers DEF IdsAreOld
<1>5. MultipathTypeOK'
    BY <1>1, <1>2, <1>3, <1>4 DEF MultipathTypeOK, proberVars
<1>6. IdsAreOld'
    BY <1>1, <1>2, <1>4, PathNumbers DEF IdsAreOld, MultipathTypeOK
<1>7. SnapshotHolds'
  <2> SUFFICES ASSUME prober \in {"probing", "writing"}, NEW i \in DOMAIN targets
               PROVE  i < nextId' /\ (i \in ids => targets[i] = gateway'[i])
      BY <1>2, <1>4 DEF SnapshotHolds, proberVars
  <2>1. i < nextId /\ i \in Nat
      BY <1>1, PathNumbers DEF MultipathIInv, SnapshotHolds, MultipathTypeOK
  <2> QED
      BY <1>1, <1>2, <1>4, <2>1, PathNumbers DEF MultipathIInv, SnapshotHolds
<1>8. ThreadIsOfThisRun' /\ ComparedIsAnother'
    BY <1>2 DEF MultipathIInv, ThreadIsOfThisRun, ComparedIsAnother, proberVars
<1>9. MetricsOfTheirGateway'
    BY <1>1, <1>2, <1>4, PathNumbers DEF MultipathIInv, MetricsOfTheirGateway, MultipathTypeOK
<1> QED
    BY <1>5, <1>6, <1>7, <1>8, <1>9 DEF MultipathIInv

LEMMA RemoveRouteKeeps ==
    ASSUME MultipathIInv, NEW gw \in Gateways, RemoveRoute(gw)
    PROVE  MultipathIInv'
<1> DEFINE kept == {i \in DOMAIN gateway : gateway[i] # gw}
<1>1. MultipathTypeOK
    BY DEF MultipathIInv
<1>2. /\ gateway' = [i \in kept |-> gateway[i]] /\ metrics' = [i \in kept |-> metrics[i]]
      /\ measured' = [i \in kept |-> measured[i]]
      /\ UNCHANGED <<active, nextId, activePath, autoSwitch, starts, proberVars, stopping>>
    BY DEF RemoveRoute, Restrict
<1>3. MultipathTypeOK'
    BY <1>1, <1>2 DEF MultipathTypeOK, proberVars
<1>4. IdsAreOld' /\ SnapshotHolds'
    BY <1>2 DEF MultipathIInv, IdsAreOld, SnapshotHolds, proberVars
<1>5. ThreadIsOfThisRun' /\ ComparedIsAnother'
    BY <1>2 DEF MultipathIInv, ThreadIsOfThisRun, ComparedIsAnother, proberVars
<1>6. MetricsOfTheirGateway'
    BY <1>1, <1>2 DEF MultipathIInv, MetricsOfTheirGateway, MultipathTypeOK
<1> QED
    BY <1>3, <1>4, <1>5, <1>6 DEF MultipathIInv

-----------------------------------------------------------------------------
(* start() and stop().                                                     *)

LEMMA StartKeeps ==
    ASSUME MultipathIInv, NEW auto \in BOOLEAN, NEW asLibrary \in BOOLEAN, Start(auto, asLibrary)
    PROVE  MultipathIInv'
<1>1. MultipathTypeOK
    BY DEF MultipathIInv
<1>2. /\ DOMAIN gateway' = {} /\ metrics' = [i \in DOMAIN gateway' |-> Fresh]
      /\ measured' = gateway' /\ nextId' = 0 /\ prober' = "top" /\ autoSwitch' = auto
      /\ stopping' \in BOOLEAN /\ active' = ~stopping'
      /\ starts' = starts + 1 /\ starts < MaxStarts
      /\ UNCHANGED <<activePath, targets, samples, best>>
    BY NoInitialPath DEF Start
<1>3. starts' \in 0..MaxStarts /\ 0 \in 0..MaxPathIds
    BY <1>1, <1>2, MultipathAssumption DEF MultipathTypeOK
<1>4. MultipathTypeOK'
    BY <1>1, <1>2, <1>3 DEF MultipathTypeOK
<1> QED
    BY <1>2, <1>4 DEF MultipathIInv, IdsAreOld, ThreadIsOfThisRun, SnapshotHolds, ComparedIsAnother,
       MetricsOfTheirGateway

\* What neither touches the paths nor moves the thread.
LEMMA PathsRest ==
    ASSUME MultipathIInv, UNCHANGED <<engineVars, activePath, autoSwitch, starts, proberVars>>,
           active' \in BOOLEAN, stopping' \in BOOLEAN, ThreadIsOfThisRun'
    PROVE  MultipathIInv'
<1>1. MultipathTypeOK'
    BY DEF MultipathIInv, MultipathTypeOK, engineVars, proberVars
<1> QED
    BY <1>1 DEF MultipathIInv, IdsAreOld, SnapshotHolds, ComparedIsAnother, MetricsOfTheirGateway,
       engineVars, proberVars

LEMMA StopKeeps == ASSUME MultipathIInv, Stop \/ StopJoins PROVE MultipathIInv'
<1>1. ThreadIsOfThisRun'
    BY DEF MultipathIInv, ThreadIsOfThisRun, Stop, StopJoins, proberVars
<1>2. active' \in BOOLEAN /\ stopping' \in BOOLEAN
    BY DEF MultipathIInv, MultipathTypeOK, Stop, StopJoins
<1> QED
    BY <1>1, <1>2, PathsRest DEF Stop, StopJoins

-----------------------------------------------------------------------------
(* The thread.                                                             *)

LEMMA SnapshotKeeps == ASSUME MultipathIInv, Snapshot PROVE MultipathIInv'
<1>1. DOMAIN Empty = {}
    BY DEF Empty
<1>2. MultipathTypeOK'
    BY <1>1 DEF MultipathIInv, MultipathTypeOK, Snapshot, ProberKeeps
<1>3. SnapshotHolds'
    BY DEF MultipathIInv, IdsAreOld, SnapshotHolds, Snapshot, ProberKeeps
<1> QED
    BY <1>2, <1>3 DEF MultipathIInv, IdsAreOld, ThreadIsOfThisRun, ComparedIsAnother, MetricsOfTheirGateway,
       Snapshot, ProberKeeps

LEMMA ProbeKeeps == ASSUME MultipathIInv, Probe PROVE MultipathIInv'
<1>1. DOMAIN samples' \subseteq DOMAIN targets /\ \A i \in DOMAIN samples' : samples'[i] \in Samples
    BY DEF MultipathIInv, MultipathTypeOK, Probe
<1>2. MultipathTypeOK'
    BY <1>1 DEF MultipathIInv, MultipathTypeOK, Probe, ProberKeeps
<1>3. SnapshotHolds' /\ ThreadIsOfThisRun' /\ ComparedIsAnother'
    BY DEF MultipathIInv, SnapshotHolds, ThreadIsOfThisRun, ComparedIsAnother, Probe, ProberKeeps
<1> QED
    BY <1>2, <1>3 DEF MultipathIInv, IdsAreOld, MetricsOfTheirGateway, Probe, ProberKeeps

\* The one step that could mix up two paths of the same id.
LEMMA WriteBackKeeps == ASSUME MultipathIInv, WriteBack PROVE MultipathIInv'
<1>1. MultipathTypeOK
    BY DEF MultipathIInv
<1>2. /\ metrics' = [i \in DOMAIN metrics |-> IF i \in DOMAIN samples THEN samples[i] ELSE metrics[i]]
      /\ measured' = [i \in DOMAIN metrics |->
                        IF i \in DOMAIN samples THEN targets[i] ELSE measured[i]]
      /\ prober = "writing" /\ prober' = "evaluating"
      /\ UNCHANGED <<active, nextId, gateway, autoSwitch, starts, stopping>>
      /\ UNCHANGED <<activePath, targets, samples, best>>
    BY DEF WriteBack, Written, ProberKeeps
<1>3. MultipathTypeOK'
    BY <1>1, <1>2 DEF MultipathTypeOK
<1>4. MetricsOfTheirGateway'
  <2> SUFFICES ASSUME NEW i \in DOMAIN gateway PROVE measured'[i] = gateway[i]
      BY <1>1, <1>2 DEF MetricsOfTheirGateway, MultipathTypeOK
  <2>1. CASE i \in DOMAIN samples
      BY <1>1, <1>2, <2>1 DEF MultipathIInv, SnapshotHolds, MultipathTypeOK
  <2>2. CASE i \notin DOMAIN samples
      BY <1>1, <1>2, <2>2 DEF MultipathIInv, MetricsOfTheirGateway, MultipathTypeOK
  <2> QED
      BY <2>1, <2>2
<1> QED
    BY <1>2, <1>3, <1>4 DEF MultipathIInv, IdsAreOld, ThreadIsOfThisRun, SnapshotHolds, ComparedIsAnother

LEMMA JudgeKeeps == ASSUME MultipathIInv, Evaluate \/ Compare \/ Switch \/ Sleeps PROVE MultipathIInv'
<1>1. /\ best' \in [id : PathIds, score : Nat] /\ activePath' \in PathIds
      /\ prober' \in {"comparing", "switching", "sleeping", "top"}
    BY PathNumbers DEF MultipathIInv, MultipathTypeOK, Evaluate, Compare, Switch, Sleeps
<1>2. UNCHANGED <<metrics, measured, targets, samples, active, nextId, gateway, autoSwitch, starts, stopping>>
    BY DEF Evaluate, Compare, Switch, Sleeps, ProberKeeps
<1>3. MultipathTypeOK'
    BY <1>1, <1>2 DEF MultipathIInv, MultipathTypeOK
<1>4. ComparedIsAnother'
    BY DEF ComparedIsAnother, Evaluate, Compare, Switch, Sleeps, ProberKeeps
<1>5. ThreadIsOfThisRun'
    BY <1>2 DEF MultipathIInv, ThreadIsOfThisRun, Evaluate, Compare, Switch, Sleeps
<1> QED
    BY <1>1, <1>2, <1>3, <1>4, <1>5 DEF MultipathIInv, IdsAreOld, SnapshotHolds, MetricsOfTheirGateway

-----------------------------------------------------------------------------
LEMMA NextMultipath == MultipathIInv /\ [MultipathNext]_multipathVars => MultipathIInv'
<1> SUFFICES ASSUME MultipathIInv, [MultipathNext]_multipathVars PROVE MultipathIInv'
    OBVIOUS
<1>1. CASE UNCHANGED multipathVars
  <2>1. ThreadIsOfThisRun' /\ active' \in BOOLEAN /\ stopping' \in BOOLEAN
      BY <1>1 DEF multipathVars, proberVars, MultipathIInv, ThreadIsOfThisRun, MultipathTypeOK
  <2> QED
      BY <1>1, <2>1, PathsRest DEF multipathVars
<1>2. ASSUME NEW gw \in Gateways, AddRoute(gw) \/ RemoveRoute(gw) PROVE MultipathIInv'
    BY <1>2, AddRouteKeeps, RemoveRouteKeeps
<1>3. ASSUME NEW auto \in BOOLEAN, NEW asLibrary \in BOOLEAN, Start(auto, asLibrary) PROVE MultipathIInv'
    BY <1>3, StartKeeps
<1>4. CASE Stop \/ StopJoins \/ ProberStep
    BY <1>4, StopKeeps, SnapshotKeeps, ProbeKeeps, WriteBackKeeps, JudgeKeeps DEF ProberStep
<1> QED
    BY <1>1, <1>2, <1>3, <1>4 DEF MultipathNext

LEMMA AlwaysMultipath == MultipathSpec => []MultipathIInv
BY InitMultipath, NextMultipath, PTL DEF MultipathSpec

\* Ids, paths, metrics, snapshot and samples keep their types in every run of
\* the engine, whoever adds and removes routes meanwhile.
THEOREM MultipathTypeCorrect == MultipathSpec => []MultipathTypeOK
BY AlwaysMultipath, PTL DEF MultipathIInv

\* The only step that decides for a switch is the comparison.
LEMMA SwitchIsWorthIt ==
    ASSUME MultipathIInv, [MultipathNext]_multipathVars, prober = "comparing", prober' = "switching"
    PROVE  /\ autoSwitch /\ best.id # activePath
           /\ activePath \in DOMAIN metrics => best.score > metrics[activePath].score + Threshold
           /\ best.score > Threshold
<1>1. Compare
  <2>1. CASE UNCHANGED multipathVars
      BY <2>1 DEF multipathVars, proberVars
  <2>2. CASE MultipathNext
      BY <2>2 DEF MultipathNext, AddRoute, RemoveRoute, Start, Stop, StopJoins, ProberStep, Snapshot,
         Probe, WriteBack, Evaluate, Switch, Sleeps, proberVars
  <2> QED
      BY <2>1, <2>2
<1>2. WorthSwitching
    BY <1>1 DEF Compare
<1>3. autoSwitch /\ best.id # activePath
    BY DEF MultipathIInv, ComparedIsAnother
<1>4. CASE activePath \in DOMAIN metrics
    BY <1>2, <1>3, <1>4, PathNumbers DEF MultipathIInv, WorthSwitching
<1>5. CASE activePath \notin DOMAIN metrics
    BY <1>2, <1>3, <1>5, PathNumbers DEF MultipathIInv, WorthSwitching
<1> QED
    BY <1>4, <1>5

\* The engine never gives a path what it measured at another gateway, although
\* it probes without the lock, and never switches but for more than the
\* threshold: for any routes, any threshold and any interleaving of the two.
THEOREM PathsJudged == MultipathSpec => PathsAreJudged
<1>1. MultipathIInv => MetricsOfTheirGateway
    BY DEF MultipathIInv
<1>2. MultipathIInv /\ [MultipathNext]_multipathVars =>
        [prober = "comparing" /\ prober' = "switching" =>
            /\ autoSwitch
            /\ best.id # activePath
            /\ activePath \in DOMAIN metrics => best.score > metrics[activePath].score + Threshold
            /\ best.score > Threshold]_multipathVars
    BY SwitchIsWorthIt
<1> QED
    BY <1>1, <1>2, AlwaysMultipath, PTL DEF MultipathSpec, PathsAreJudged, SwitchesAreWorthIt

-----------------------------------------------------------------------------
(* The numbers are of the session, the window and the rounds they are      *)
(* named after.                                                            *)

\* A session as the collector keeps and files it.
Session == [total : [Channels -> Nat], samples : Nat, snapshots : Seq([Channels -> Values])]

\* What the three counters hold; the average of a round is a sum and a count.
CounterTypes ==
    /\ collector \in [recording : BOOLEAN, session : Session, past : Seq(Session)]
    /\ heard \in [channel : [Channels -> Seq(Values)], started : Nat]
    /\ jitter \in [window : WindowSizes, latencies : Seq(Values), jitters : Seq(Nat),
                   last : Values \cup {NoValue}]
    /\ loss \in [running : BOOLEAN, thread : {"none", "measuring", "writing", "reporting"},
                 result : Nat, history : Seq(Nat), sum : {loss.sum}, of : {loss.of}]
    /\ rounds \in Seq(Nat)

\* While a session is recorded one more was started than is filed.
SessionsAreStarted ==
    /\ Len(collector.past) <= heard.started
    /\ collector.recording => Len(collector.past) < heard.started
    /\ Len(collector.session.snapshots) <= MaxSnapshots

\* The two windows of the jitter calculator: the last differences stand at the
\* end of jitter_samples_, which has as many samples as the other, or one less.
WindowsAgree(w) ==
    LET L == Len(w.latencies)
        J == Len(w.jitters)
    IN  /\ L = 0 => J = 0 /\ w.last = NoValue
        /\ L # 0 => w.last = w.latencies[L]
        /\ J <= L /\ L <= J + 1
        /\ \A i \in 1..(L - 1) :
              w.jitters[i + (J - L) + 1] = Distance(w.latencies[i], w.latencies[i + 1])

\* The history of the loss monitor is the end of the rounds, and the average
\* that waits to be reported is of that history.
HistoryOfTheRounds ==
    /\ loss.history = LastOf(rounds, LossHistory)
    /\ loss.thread = "reporting" /\ rounds # <<>> =>
          loss.sum = Sum(loss.history) /\ loss.of = Len(loss.history)

StatisticsIInv == CounterTypes /\ SessionsAreStarted /\ WindowsAgree(jitter) /\ HistoryOfTheRounds

LEMMA LastOfSeq ==
    ASSUME NEW S, NEW s \in Seq(S), NEW n \in Nat
    PROVE  /\ LastOf(s, n) \in Seq(S)
           /\ Len(LastOf(s, n)) = IF Len(s) > n THEN n ELSE Len(s)
           /\ \A i \in 1..Len(LastOf(s, n)) : LastOf(s, n)[i] = s[i + (Len(s) - Len(LastOf(s, n)))]
<1> DEFINE m == 1 + (IF Len(s) > n THEN Len(s) - n ELSE 0)
<1>1. Len(s) \in Nat /\ \A i \in 1..Len(s) : s[i] \in S
    BY LenProperties, ElementOfSeq
<1>2. m \in Int /\ m >= 1 /\ Len(s) - m + 1 = IF Len(s) > n THEN n ELSE Len(s)
    BY <1>1
<1>3. LastOf(s, n) = SubSeq(s, m, Len(s))
    BY DEF LastOf
<1> HIDE DEF m
<1>4. /\ SubSeq(s, m, Len(s)) \in Seq(S)
      /\ Len(SubSeq(s, m, Len(s))) = IF m <= Len(s) THEN Len(s) - m + 1 ELSE 0
      /\ \A i \in 1..(Len(s) - m + 1) : SubSeq(s, m, Len(s))[i] = s[m + i - 1]
  <2>1. \A i \in m..Len(s) : s[i] \in S
      BY <1>1, <1>2
  <2> QED
      BY <1>1, <1>2, <2>1, SubSeqProperties
<1>5. Len(LastOf(s, n)) = Len(s) - m + 1
    BY <1>1, <1>2, <1>3, <1>4
<1>6. \A i \in 1..Len(LastOf(s, n)) : m + i - 1 = i + (Len(s) - Len(LastOf(s, n)))
    BY <1>1, <1>2, <1>5
<1> QED
    BY <1>2, <1>3, <1>4, <1>5, <1>6

LEMMA NothingLast == \A n \in Nat : LastOf(<<>>, n) = <<>>
<1> TAKE n \in Nat
<1>1. <<>> \in Seq(Nat) /\ Len(<<>>) = 0
    BY EmptySeq
<1>2. LastOf(<<>>, n) \in Seq(Nat) /\ Len(LastOf(<<>>, n)) = 0
  <2>1. \A s \in Seq(Nat) : LastOf(s, n) \in Seq(Nat) /\ Len(LastOf(s, n)) = IF Len(s) > n THEN n ELSE Len(s)
      BY LastOfSeq
  <2>2. ~(0 > n)
      OBVIOUS
  <2> QED
      BY <1>1, <2>1, <2>2
<1>3. \A t \in Seq(Nat) : Len(t) = 0 => t = <<>>
    BY EmptySeq
<1> QED
    BY <1>2, <1>3

\* The end of a sequence is kept when it is kept at every step.
LEMMA LastOfAppend ==
    ASSUME NEW S, NEW s \in Seq(S), NEW x \in S, NEW n \in Nat \ {0}
    PROVE  LastOf(Append(LastOf(s, n), x), n) = LastOf(Append(s, x), n)
<1> DEFINE e == LastOf(s, n)
           a == Append(e, x)
           b == Append(s, x)
           p == LastOf(a, n)
           q == LastOf(b, n)
<1>1. /\ e \in Seq(S) /\ Len(e) = IF Len(s) > n THEN n ELSE Len(s)
      /\ \A i \in 1..Len(e) : e[i] = s[i + (Len(s) - Len(e))]
    BY LastOfSeq
<1>2. Len(s) \in Nat /\ Len(e) \in Nat
    BY <1>1, LenProperties
<1> HIDE DEF e
<1>3. /\ a \in Seq(S) /\ Len(a) = Len(e) + 1 /\ a[Len(e) + 1] = x /\ \A i \in 1..Len(e) : a[i] = e[i]
    BY <1>1, AppendProperties
<1>4. /\ b \in Seq(S) /\ Len(b) = Len(s) + 1 /\ b[Len(s) + 1] = x /\ \A i \in 1..Len(s) : b[i] = s[i]
    BY AppendProperties
<1> HIDE DEF a, b
<1>5. /\ p \in Seq(S) /\ Len(p) = IF Len(a) > n THEN n ELSE Len(a)
      /\ \A i \in 1..Len(p) : p[i] = a[i + (Len(a) - Len(p))]
    BY <1>3, LastOfSeq
<1>6. /\ q \in Seq(S) /\ Len(q) = IF Len(b) > n THEN n ELSE Len(b)
      /\ \A i \in 1..Len(q) : q[i] = b[i + (Len(b) - Len(q))]
    BY <1>4, LastOfSeq
<1> HIDE DEF p, q
<1>7. Len(p) = Len(q) /\ Len(p) \in Nat
    BY <1>1, <1>2, <1>3, <1>4, <1>5, <1>6
<1>8. ASSUME NEW i \in 1..Len(p) PROVE p[i] = q[i]
  <2>1. p[i] = a[i + (Len(a) - Len(p))] /\ q[i] = b[i + (Len(b) - Len(q))]
      BY <1>5, <1>6, <1>7
  <2>2. CASE i = Len(p)
    <3>1. i + (Len(a) - Len(p)) = Len(e) + 1 /\ i + (Len(b) - Len(q)) = Len(s) + 1
        BY <1>2, <1>3, <1>4, <1>7, <2>2
    <3> QED
        BY <1>3, <1>4, <2>1, <3>1
  <2>3. CASE i # Len(p)
    <3> DEFINE j == i + (Len(a) - Len(p))
               k == i + (Len(b) - Len(q))
    <3>1. j \in 1..Len(e) /\ k \in 1..Len(s) /\ k = j + (Len(s) - Len(e))
      <4>1. Len(a) = Len(e) + 1 /\ Len(b) = Len(s) + 1 /\ Len(q) = Len(p) /\ i \in 1..(Len(p) - 1)
          BY <1>3, <1>4, <1>7, <2>3
      <4>2. CASE Len(s) >= n
        <5>1. Len(e) = n /\ Len(p) = n
            BY <1>1, <1>2, <1>5, <4>1, <4>2
        <5> QED
            BY <1>2, <4>1, <4>2, <5>1
      <4>3. CASE Len(s) < n
        <5>1. Len(e) = Len(s) /\ Len(p) = Len(s) + 1
            BY <1>1, <1>2, <1>5, <4>1, <4>3
        <5> QED
            BY <1>2, <4>1, <4>3, <5>1
      <4> QED
          BY <1>2, <4>2, <4>3
    <3>2. a[j] = e[j] /\ b[k] = s[k] /\ e[j] = s[j + (Len(s) - Len(e))]
        BY <1>1, <1>3, <1>4, <3>1
    <3> QED
        BY <2>1, <3>1, <3>2
  <2> QED
      BY <2>2, <2>3
<1>9. p = q
    BY <1>5, <1>6, <1>7, <1>8, SeqEqual
<1> QED
    BY <1>9 DEF p, q, a, b, e

-----------------------------------------------------------------------------
LEMMA InitStatistics == StatisticsInit => StatisticsIInv
<1> SUFFICES ASSUME StatisticsInit PROVE StatisticsIInv
    OBVIOUS
<1>1. /\ <<>> \in Seq(Values) /\ <<>> \in Seq(Nat) /\ Len(<<>>) = 0
      /\ <<>> \in Seq([Channels -> Values])
      /\ \A S : <<>> \in Seq(S)
      /\ MaxSnapshots \in Nat /\ LossHistory \in Nat
    BY EmptySeq, StatisticsAssumption
<1>2. NoSession \in Session
    BY <1>1 DEF NoSession, Session
<1>3. CounterTypes
    BY <1>1, <1>2 DEF StatisticsInit, CounterTypes
<1>4. SessionsAreStarted
    BY <1>1 DEF StatisticsInit, SessionsAreStarted, NoSession
<1>5. WindowsAgree(jitter)
  <2>1. jitter.latencies = <<>> /\ jitter.jitters = <<>> /\ jitter.last = NoValue
      BY DEF StatisticsInit
  <2> QED
      BY <1>1, <2>1 DEF WindowsAgree
<1>6. HistoryOfTheRounds
    BY <1>1, NothingLast DEF StatisticsInit, HistoryOfTheRounds
<1> QED
    BY <1>3, <1>4, <1>5, <1>6 DEF StatisticsIInv

LEMMA CollectorStepKeeps ==
    ASSUME StatisticsIInv, CollectorStep, UNCHANGED <<jitter, loss, rounds>>
    PROVE  StatisticsIInv'
<1>1. /\ collector \in [recording : BOOLEAN, session : Session, past : Seq(Session)]
      /\ heard \in [channel : [Channels -> Seq(Values)], started : Nat] /\ Len(collector.past) \in Nat /\ collector.session \in Session
      /\ Len(collector.past) <= heard.started
      /\ collector.recording => Len(collector.past) < heard.started
      /\ Len(collector.session.snapshots) <= MaxSnapshots /\ MaxSnapshots \in Nat
    BY LenProperties, StatisticsAssumption DEF StatisticsIInv, CounterTypes, SessionsAreStarted
<1> DEFINE Kept == /\ collector' \in [recording : BOOLEAN, session : Session, past : Seq(Session)]
                   /\ heard' \in [channel : [Channels -> Seq(Values)], started : Nat]
                   /\ SessionsAreStarted'
<1>2. Kept
  <2>1. CASE CollectorStart
    <3>1. NoSession \in Session /\ Len(NoSession.snapshots) = 0
        BY EmptySeq DEF NoSession, Session
    <3>2. /\ collector' = [collector EXCEPT !.recording = TRUE, !.session = NoSession]
          /\ heard' \in [channel : [Channels -> Seq(Values)], started : Nat]
          /\ heard'.started = heard.started + 1
        BY <2>1, <1>1, EmptySeq DEF CollectorStart
    <3>3. /\ collector' \in [recording : BOOLEAN, session : Session, past : Seq(Session)]
          /\ collector'.session = NoSession /\ collector'.past = collector.past
        BY <1>1, <3>1, <3>2
    <3> QED
        BY <1>1, <3>1, <3>2, <3>3 DEF SessionsAreStarted
  <2>2. CASE CollectorStop
    <3>1. /\ collector.recording /\ heard' = heard
          /\ collector' = [collector EXCEPT !.recording = FALSE, !.past = Append(@, collector.session)]
        BY <2>2 DEF CollectorStop
    <3>2. /\ Append(collector.past, collector.session) \in Seq(Session)
          /\ Len(Append(collector.past, collector.session)) = Len(collector.past) + 1
        BY <1>1, AppendProperties
    <3>3. /\ collector' \in [recording : BOOLEAN, session : Session, past : Seq(Session)]
          /\ collector'.session = collector.session /\ ~collector'.recording
          /\ collector'.past = Append(collector.past, collector.session)
        BY <1>1, <3>1, <3>2
    <3> QED
        BY <1>1, <3>1, <3>2, <3>3 DEF SessionsAreStarted
  <2>3. ASSUME NEW c \in Channels, NEW v \in Values, Record(c, v)
        PROVE  Kept
    <3> DEFINE t == [collector.session.total EXCEPT ![c] = @ + v]
               s == [total |-> t, samples |-> collector.session.samples + 1,
                     snapshots |-> collector.session.snapshots]
    <3>1. v \in Nat /\ collector.session.total \in [Channels -> Nat] /\ collector.session.samples \in Nat
        BY <1>1, StatisticsAssumption DEF Session
    <3>2. t \in [Channels -> Nat]
        BY <3>1
    <3>3. collector' = [recording |-> collector.recording, session |-> s, past |-> collector.past]
        BY <2>3, <1>1 DEF Record, Session
    <3>5. heard' \in [channel : [Channels -> Seq(Values)], started : Nat] /\ heard'.started = heard.started
      <4>1. heard.channel[c] \in Seq(Values)
          BY <1>1
      <4>2. Append(heard.channel[c], v) \in Seq(Values)
          BY <4>1, AppendProperties
      <4> QED
          BY <2>3, <1>1, <4>2 DEF Record
    <3> HIDE DEF t
    <3>4. s \in Session /\ s.snapshots = collector.session.snapshots
        BY <1>1, <3>1, <3>2 DEF Session
    <3> HIDE DEF s
    <3> QED
        BY <1>1, <3>3, <3>4, <3>5 DEF SessionsAreStarted
  <2>4. ASSUME NEW v \in Values, RecordSnapshot([c \in Channels |-> v])
        PROVE  Kept
    <3> DEFINE shot == [c \in Channels |-> v]
               list == LastOf(Append(collector.session.snapshots, shot), MaxSnapshots)
               t == [c \in Channels |-> collector.session.total[c] + shot[c]]
               s == [total |-> t, samples |-> collector.session.samples + 1, snapshots |-> list]
    <3>1. collector' = [recording |-> collector.recording, session |-> s, past |-> collector.past]
        BY <2>4, <1>1 DEF RecordSnapshot, Session
    <3>5. heard' \in [channel : [Channels -> Seq(Values)], started : Nat] /\ heard'.started = heard.started
      <4>1. \A c \in Channels : shot[c] \in Values /\ heard.channel[c] \in Seq(Values)
          BY <1>1
      <4> HIDE DEF shot
      <4>2. \A c \in Channels : Append(heard.channel[c], shot[c]) \in Seq(Values)
          BY <4>1, AppendProperties
      <4>3. [c \in Channels |-> Append(heard.channel[c], shot[c])] \in [Channels -> Seq(Values)]
          BY <4>2
      <4>4. heard' = [heard EXCEPT !.channel = [c \in Channels |-> Append(@[c], shot[c])]]
          BY <2>4 DEF RecordSnapshot, shot
      <4> QED
          BY <1>1, <4>3, <4>4
    <3>2. v \in Nat /\ shot \in [Channels -> Values]
        BY StatisticsAssumption
    <3>3. list \in Seq([Channels -> Values]) /\ Len(list) <= MaxSnapshots
      <4>1. collector.session.snapshots \in Seq([Channels -> Values])
          BY <1>1 DEF Session
      <4>2. Append(collector.session.snapshots, shot) \in Seq([Channels -> Values])
          BY <3>2, <4>1, AppendProperties
      <4> HIDE DEF shot
      <4>3. /\ list \in Seq([Channels -> Values])
            /\ \/ Len(list) = MaxSnapshots
               \/ Len(list) = Len(Append(collector.session.snapshots, shot))
                  /\ ~(Len(Append(collector.session.snapshots, shot)) > MaxSnapshots)
          BY <1>1, <4>2, LastOfSeq
      <4>4. Len(Append(collector.session.snapshots, shot)) \in Nat
          BY <4>2, LenProperties
      <4> QED
          BY <1>1, <4>3, <4>4
    <3>4. s \in Session /\ s.snapshots = list
      <4> HIDE DEF list
      <4>1. \A c \in Channels : shot[c] = v /\ collector.session.total[c] \in Nat
          BY <1>1 DEF Session
      <4>2. t \in [Channels -> Nat]
          BY <3>2, <4>1
      <4>3. collector.session.samples + 1 \in Nat
          BY <1>1 DEF Session
      <4> HIDE DEF t
      <4> QED
          BY <3>3, <4>2, <4>3 DEF Session
    <3> HIDE DEF s, list
    <3> QED
        BY <1>1, <3>1, <3>3, <3>4, <3>5 DEF SessionsAreStarted
  <2> QED
      BY <2>1, <2>2, <2>3, <2>4 DEF CollectorStep
<1> QED
    BY <1>2 DEF StatisticsIInv, CounterTypes, HistoryOfTheRounds, WindowsAgree

\* A window loses its oldest sample or none.
LEMMA SlideSeq ==
    ASSUME NEW S, NEW s \in Seq(S), NEW v \in S, jitter.window \in Nat
    PROVE  LET k == IF Len(s) + 1 > jitter.window THEN 1 ELSE 0
               t == Slide(s, v)
           IN  /\ t \in Seq(S) /\ Len(t) = Len(s) + 1 - k
               /\ \A i \in 1..(Len(t) - 1) : t[i] = s[i + k]
               /\ Len(t) # 0 => t[Len(t)] = v
<1> DEFINE a == Append(s, v)
<1>1. Len(s) \in Nat /\ \A i \in 1..Len(s) : s[i] \in S
    BY LenProperties, ElementOfSeq
<1>2. /\ a \in Seq(S) /\ a # <<>> /\ Len(a) = Len(s) + 1 /\ a[Len(s) + 1] = v
      /\ \A i \in 1..Len(s) : a[i] = s[i]
    BY AppendProperties
<1>3. Slide(s, v) = IF Len(a) > jitter.window THEN Tail(a) ELSE a
    BY DEF Slide
<1> HIDE DEF a
<1>4. /\ Tail(a) \in Seq(S) /\ Len(Tail(a)) = Len(s)
      /\ \A i \in 1..Len(s) : Tail(a)[i] = a[i + 1]
  <2>1. /\ Tail(a) \in Seq(S) /\ Len(Tail(a)) = Len(a) - 1
        /\ \A i \in 1..Len(Tail(a)) : Tail(a)[i] = a[i + 1]
      BY <1>2, HeadTailProperties
  <2>2. Len(a) - 1 = Len(s)
      BY <1>1, <1>2
  <2> QED
      BY <2>1, <2>2
<1>5. CASE Len(s) + 1 > jitter.window
  <2>1. Slide(s, v) = Tail(a)
      BY <1>2, <1>3, <1>5
  <2>2. \A i \in 1..(Len(s) - 1) : Tail(a)[i] = s[i + 1]
      BY <1>1, <1>2, <1>4
  <2>3. Len(s) # 0 => Tail(a)[Len(s)] = v
      BY <1>1, <1>2, <1>4
  <2>4. Len(s) + 1 - 1 = Len(s)
      BY <1>1
  <2> QED
      BY <1>4, <1>5, <2>1, <2>2, <2>3, <2>4
<1>6. CASE ~(Len(s) + 1 > jitter.window)
  <2>1. Slide(s, v) = a
      BY <1>2, <1>3, <1>6
  <2> QED
      BY <1>1, <1>2, <1>6, <2>1
<1> QED
    BY <1>5, <1>6

LEMMA DistanceIsSymmetric ==
    \A a, b \in Nat : Distance(a, b) \in Nat /\ Distance(a, b) = Distance(b, a)
BY DEF Distance

LEMMA AddSampleKeeps ==
    ASSUME CounterTypes, WindowsAgree(jitter), NEW v \in Values, AddSample(v)
    PROVE  /\ WindowsAgree(jitter')
           /\ jitter' \in [window : WindowSizes, latencies : Seq(Values), jitters : Seq(Nat),
                            last : Values \cup {NoValue}]
<1> DEFINE L == Len(jitter.latencies)
           J == Len(jitter.jitters)
           lat == Slide(jitter.latencies, v)
           d == Distance(v, jitter.last)
           jit == IF jitter.last = NoValue THEN jitter.jitters ELSE Slide(jitter.jitters, d)
           kl == IF L + 1 > jitter.window THEN 1 ELSE 0
           kj == IF J + 1 > jitter.window THEN 1 ELSE 0
<1>1. /\ jitter.window \in WindowSizes /\ jitter.window \in Nat /\ jitter.window >= 1
      /\ jitter.latencies \in Seq(Values) /\ jitter.jitters \in Seq(Nat)
      /\ L \in Nat /\ J \in Nat /\ v \in Nat
      /\ jitter \in [window : WindowSizes, latencies : Seq(Values), jitters : Seq(Nat),
                     last : Values \cup {NoValue}]
    BY LenProperties, StatisticsAssumption DEF CounterTypes
<1>2. /\ L = 0 => J = 0 /\ jitter.last = NoValue
      /\ L # 0 => jitter.last = jitter.latencies[L]
      /\ J <= L /\ L <= J + 1
      /\ \A i \in 1..(L - 1) :
            jitter.jitters[i + (J - L) + 1] = Distance(jitter.latencies[i], jitter.latencies[i + 1])
    BY DEF WindowsAgree
<1>3. /\ lat \in Seq(Values) /\ Len(lat) = L + 1 - kl
      /\ \A i \in 1..(Len(lat) - 1) : lat[i] = jitter.latencies[i + kl]
      /\ Len(lat) # 0 => lat[Len(lat)] = v
    BY <1>1, SlideSeq
<1>4. jitter' = [window |-> jitter.window, latencies |-> lat, jitters |-> jit, last |-> v]
    BY <1>1 DEF AddSample
<1>a. /\ jitter.last = NoValue => jit = jitter.jitters
      /\ jitter.last # NoValue => jit = Slide(jitter.jitters, d)
      /\ d = Distance(v, jitter.last)
    OBVIOUS
<1>b. d \in Nat =>
         /\ Slide(jitter.jitters, d) \in Seq(Nat) /\ Len(Slide(jitter.jitters, d)) = J + 1 - kj
         /\ \A i \in 1..(Len(Slide(jitter.jitters, d)) - 1) :
                Slide(jitter.jitters, d)[i] = jitter.jitters[i + kj]
         /\ Len(Slide(jitter.jitters, d)) # 0 => Slide(jitter.jitters, d)[Len(Slide(jitter.jitters, d))] = d
  <2>1. ASSUME NEW e \in Nat
        PROVE  /\ Slide(jitter.jitters, e) \in Seq(Nat) /\ Len(Slide(jitter.jitters, e)) = J + 1 - kj
               /\ \A i \in 1..(Len(Slide(jitter.jitters, e)) - 1) :
                      Slide(jitter.jitters, e)[i] = jitter.jitters[i + kj]
               /\ Len(Slide(jitter.jitters, e)) # 0 =>
                      Slide(jitter.jitters, e)[Len(Slide(jitter.jitters, e))] = e
    <3>1. jitter.jitters \in Seq(Nat) /\ jitter.window \in Nat \ {0}
        BY <1>1
    <3> QED
        BY <3>1, SlideSeq
  <2> HIDE DEF d, J, kj
  <2> QED
      BY <2>1
<1>c. /\ kl \in {0, 1} /\ kj \in {0, 1}
      /\ kl = 1 <=> L + 1 > jitter.window
      /\ kj = 1 <=> J + 1 > jitter.window
    OBVIOUS
<1> DEFINE w == jitter.window
           N == Len(lat)
<1>d. w \in Nat /\ w >= 1 /\ (kl = 1 <=> L + 1 > w) /\ (kj = 1 <=> J + 1 > w)
    BY <1>1, <1>c
<1>e. /\ N = L + 1 - kl /\ \A i \in 1..(N - 1) : lat[i] = jitter.latencies[i + kl]
      /\ N # 0 => lat[N] = v
    BY <1>3
<1>f. J <= L /\ L <= J + 1 /\ (L = 0 => J = 0) /\ L \in Nat /\ J \in Nat
    BY <1>1, <1>2
<1>g. L \in 1..Len(jitter.latencies) \/ L = 0
    BY <1>1
<1>h. \A i \in 1..L : jitter.latencies[i] \in Values
    BY <1>1, ElementOfSeq
<1> HIDE DEF L, J, kl, kj, lat, jit, d, w
<1>5. N # 0 /\ N \in Nat /\ kl \in {0, 1} /\ kj \in {0, 1}
    BY <1>c, <1>d, <1>e, <1>f
<1>6. CASE L = 0
  <2>1. jit = jitter.jitters /\ J = 0 /\ N = 1
    <3>1. jitter.last = NoValue /\ J = 0
        BY <1>2, <1>6
    <3>2. kl = 0
        BY <1>c, <1>d, <1>6
    <3> QED
        BY <1>a, <1>e, <1>6, <3>1, <3>2
  <2>2. lat[1] = v
    <3>1. 1 # 0 /\ N = 1
        BY <2>1
    <3> HIDE DEF N
    <3> QED
        BY <1>e, <3>1
  <2>3. Len(jit) = 0
      BY <2>1 DEF J
  <2>4. WindowsAgree(jitter')
    <3>1. /\ jitter'.latencies = lat /\ jitter'.jitters = jit /\ jitter'.last = v
          /\ Len(lat) = 1 /\ 1..(1 - 1) = {}
        BY <1>4, <2>1
    <3> QED
        BY <2>2, <2>3, <3>1 DEF WindowsAgree
  <2> QED
      BY <1>1, <1>3, <1>4, <2>1, <2>4
<1>7. CASE L # 0
  <2>1. jitter.last = jitter.latencies[L] /\ jitter.last \in Nat
    <3>1. L \in 1..L
        BY <1>f, <1>7
    <3> QED
        BY <1>2, <1>7, <1>h, <3>1, StatisticsAssumption
  <2>2. jit = Slide(jitter.jitters, d) /\ d \in Nat /\ d = Distance(jitter.latencies[L], v)
    <3>1. jitter.last # NoValue
        BY <2>1 DEF NoValue
    <3> QED
        BY <1>1, <1>a, <2>1, <3>1, DistanceIsSymmetric
  <2> DEFINE M == Len(jit)
  <2>3. /\ jit \in Seq(Nat) /\ M = J + 1 - kj
        /\ \A i \in 1..(M - 1) : jit[i] = jitter.jitters[i + kj]
        /\ M # 0 => jit[M] = d
      BY <1>b, <2>2
  <2> HIDE DEF M
  <2> HIDE DEF N
  <2>4. M <= N /\ N <= M + 1 /\ M \in Nat /\ M - N = (J - kj) - (L - kl)
      BY <1>c, <1>d, <1>e, <1>f, <2>3
  <2>5. ASSUME NEW i \in 1..(N - 1)
        PROVE  jit[i + (M - N) + 1] = Distance(lat[i], lat[i + 1])
    <3> DEFINE j == i + (M - N) + 1
    <3>0. j \in Int /\ i \in Nat /\ i >= 1 /\ lat[i] = jitter.latencies[i + kl]
        BY <1>e, <1>5, <2>4
    <3>1. CASE i = N - 1
      <4>1. j = M /\ M # 0 /\ i + 1 = N /\ i + kl = L
          BY <1>c, <1>d, <1>e, <1>f, <1>5, <2>3, <2>4, <3>0, <3>1
      <4>2. jit[j] = d /\ lat[i + 1] = v /\ lat[i] = jitter.latencies[L]
          BY <1>e, <1>5, <2>3, <3>0, <4>1
      <4> QED
          BY <2>2, <4>2
    <3>2. CASE i # N - 1
      <4>1. i + 1 \in 1..(N - 1) /\ i + kl \in 1..(L - 1) /\ (i + 1) + kl = (i + kl) + 1
          BY <1>c, <1>d, <1>e, <1>f, <1>5, <3>0, <3>2
      <4>2. lat[i + 1] = jitter.latencies[(i + kl) + 1]
          BY <1>e, <4>1
      <4>3. j \in 1..(M - 1) /\ j + kj = (i + kl) + (J - L) + 1
          BY <1>c, <1>d, <1>e, <1>f, <1>5, <2>3, <2>4, <3>0, <3>2
      <4>4. jit[j] = jitter.jitters[(i + kl) + (J - L) + 1]
          BY <2>3, <4>3
      <4>5. jitter.jitters[(i + kl) + (J - L) + 1]
                = Distance(jitter.latencies[i + kl], jitter.latencies[(i + kl) + 1])
          BY <1>2, <4>1
      <4> QED
          BY <3>0, <4>2, <4>4, <4>5
    <3> QED
        BY <3>1, <3>2
  <2>6. WindowsAgree(jitter')
      BY <1>4, <1>5, <1>e, <2>4, <2>5 DEF WindowsAgree, N, M
  <2> QED
      BY <1>1, <1>3, <1>4, <2>3, <2>6
<1> QED
    BY <1>6, <1>7

LEMMA JitterStepKeeps ==
    ASSUME StatisticsIInv, JitterStep, UNCHANGED <<collector, heard, loss, rounds>>
    PROVE  StatisticsIInv'
<1> DEFINE Kept == /\ WindowsAgree(jitter')
                   /\ jitter' \in [window : WindowSizes, latencies : Seq(Values), jitters : Seq(Nat),
                                    last : Values \cup {NoValue}]
<1>1. CounterTypes /\ WindowsAgree(jitter)
    BY DEF StatisticsIInv
<1>2. ASSUME NEW v \in Values, AddSample(v) PROVE Kept
    BY <1>1, <1>2, AddSampleKeeps
<1>3. ASSUME NEW n \in WindowSizes, SetWindowSize(n) PROVE Kept
    BY <1>1, <1>3 DEF SetWindowSize, CounterTypes, WindowsAgree
<1>4. ASSUME ResetJitter PROVE Kept
  <2>1. <<>> \in Seq(Values) /\ <<>> \in Seq(Nat) /\ Len(<<>>) = 0
      BY EmptySeq
  <2>2. jitter' = [jitter EXCEPT !.latencies = <<>>, !.jitters = <<>>, !.last = NoValue]
      BY <1>4 DEF ResetJitter
  <2>3. /\ jitter' \in [window : WindowSizes, latencies : Seq(Values), jitters : Seq(Nat),
                         last : Values \cup {NoValue}]
        /\ jitter'.latencies = <<>> /\ jitter'.jitters = <<>> /\ jitter'.last = NoValue
      BY <1>1, <2>1, <2>2 DEF CounterTypes
  <2>4. WindowsAgree(jitter')
      BY <2>1, <2>3 DEF WindowsAgree
  <2> QED
      BY <2>3, <2>4
<1>5. Kept
    BY <1>2, <1>3, <1>4 DEF JitterStep
<1> QED
    BY <1>5 DEF StatisticsIInv, CounterTypes, SessionsAreStarted, HistoryOfTheRounds

LEMMA LossStepKeeps ==
    ASSUME StatisticsIInv, LossStep, UNCHANGED <<collector, heard, jitter>>
    PROVE  StatisticsIInv'
<1> DEFINE LossType == [running : BOOLEAN, thread : {"none", "measuring", "writing", "reporting"},
                        result : Nat, history : Seq(Nat), sum : {loss'.sum}, of : {loss'.of}]
           Kept == loss' \in LossType /\ rounds' \in Seq(Nat) /\ HistoryOfTheRounds'
<1>1. /\ loss \in [running : BOOLEAN, thread : {"none", "measuring", "writing", "reporting"},
                    result : Nat, history : Seq(Nat), sum : {loss.sum}, of : {loss.of}]
      /\ rounds \in Seq(Nat) /\ LossHistory \in Nat \ {0} /\ loss.history = LastOf(rounds, LossHistory)
    BY StatisticsAssumption DEF StatisticsIInv, CounterTypes, HistoryOfTheRounds
<1>2. ASSUME LossStart \/ LossStop \/ LossReport PROVE Kept
    BY <1>1, <1>2 DEF LossStart, LossStop, LossReport, StatisticsIInv, HistoryOfTheRounds
<1>3. ASSUME NEW v \in Values, LossMeasure(v) PROVE Kept
  <2>1. v \in Nat
      BY StatisticsAssumption
  <2>2. CASE loss.running
      BY <1>1, <1>3, <2>1, <2>2 DEF LossMeasure, HistoryOfTheRounds
  <2>3. CASE ~loss.running
      BY <1>1, <1>3, <2>3 DEF LossMeasure, HistoryOfTheRounds
  <2> QED
      BY <2>2, <2>3
<1>4. ASSUME LossWrite PROVE Kept
  <2> DEFINE history == LastOf(Append(loss.history, loss.result), LossHistory)
             sum == Sum(history)
             of == Len(history)
  <2>1. /\ loss' = [loss EXCEPT !.thread = "reporting", !.history = history, !.sum = sum, !.of = of]
        /\ rounds' = Append(rounds, loss.result)
      BY <1>4 DEF LossWrite
  <2>2. loss.result \in Nat /\ loss.history \in Seq(Nat)
      BY <1>1
  <2>3. rounds' \in Seq(Nat) /\ Append(loss.history, loss.result) \in Seq(Nat)
      BY <1>1, <2>1, <2>2, AppendProperties
  <2>4. history \in Seq(Nat)
      BY <1>1, <2>3, LastOfSeq
  <2>5. history = LastOf(rounds', LossHistory)
      BY <1>1, <2>1, <2>2, LastOfAppend
  <2> HIDE DEF sum, of, history
  <2>6. /\ loss'.history = history /\ loss'.sum = sum /\ loss'.of = of /\ loss' \in LossType
      BY <1>1, <2>1, <2>4
  <2> QED
      BY <2>3, <2>5, <2>6 DEF HistoryOfTheRounds, sum, of
<1>5. ASSUME LossReset PROVE Kept
  <2>1. <<>> \in Seq(Nat)
      BY EmptySeq
  <2>2. loss' = [loss EXCEPT !.history = <<>>, !.sum = 0, !.of = 0] /\ rounds' = <<>>
      BY <1>5 DEF LossReset
  <2>3. loss' \in LossType /\ loss'.history = <<>>
      BY <1>1, <2>1, <2>2
  <2> QED
      BY <1>1, <2>1, <2>2, <2>3, NothingLast DEF HistoryOfTheRounds
<1>6. Kept
    BY <1>2, <1>3, <1>4, <1>5 DEF LossStep
<1> QED
    BY <1>6 DEF StatisticsIInv, CounterTypes, SessionsAreStarted, WindowsAgree

LEMMA NextStatistics == StatisticsIInv /\ [StatisticsNext]_statisticsVars => StatisticsIInv'
<1> SUFFICES ASSUME StatisticsIInv, [StatisticsNext]_statisticsVars PROVE StatisticsIInv'
    OBVIOUS
<1>1. CASE CollectorStep /\ UNCHANGED <<jitter, loss, rounds>>
    BY <1>1, CollectorStepKeeps
<1>2. CASE JitterStep /\ UNCHANGED <<collector, heard, loss, rounds>>
    BY <1>2, JitterStepKeeps
<1>3. CASE LossStep /\ UNCHANGED <<collector, heard, jitter>>
    BY <1>3, LossStepKeeps
<1>4. CASE UNCHANGED statisticsVars
    BY <1>4 DEF statisticsVars, StatisticsIInv, CounterTypes, SessionsAreStarted, WindowsAgree, HistoryOfTheRounds
<1> QED
    BY <1>1, <1>2, <1>3, <1>4 DEF StatisticsNext

LEMMA AlwaysStatistics == StatisticsSpec => []StatisticsIInv
BY InitStatistics, NextStatistics, PTL DEF StatisticsSpec

\* The windows of the calculator and their differences, as the page reads them.
LEMMA JitterIsOfItsWindow == StatisticsIInv => JitterOfTheWindow
<1> SUFFICES ASSUME StatisticsIInv PROVE JitterOfTheWindow
    OBVIOUS
<1> DEFINE lat == jitter.latencies
           jit == jitter.jitters
           L == Len(lat)
           J == Len(jit)
           last == LastOf(jit, L - 1)
<1>1. lat \in Seq(Values) /\ jit \in Seq(Nat) /\ L \in Nat /\ J \in Nat
    BY LenProperties DEF StatisticsIInv, CounterTypes
<1>2. /\ L = 0 => J = 0
      /\ J <= L /\ L <= J + 1
      /\ \A i \in 1..(L - 1) : jit[i + (J - L) + 1] = Distance(lat[i], lat[i + 1])
    BY DEF StatisticsIInv, WindowsAgree
<1>3. \A i \in 1..L : lat[i] \in Nat
    BY <1>1, ElementOfSeq, StatisticsAssumption
<1> HIDE DEF lat, jit, L, J
<1>4. CASE L = 0
  <2>1. J = 0 /\ last = SubSeq(jit, 2, 0)
      BY <1>1, <1>2, <1>4 DEF LastOf, J
  <2>2. last = <<>>
      BY <2>1, SubSeqEmpty
  <2>3. Differences(lat) = <<>>
    <3>1. 1..(L - 1) = {}
        BY <1>4
    <3>2. Differences(lat) = [i \in 1..(L - 1) |-> Distance(lat[i], lat[i + 1])]
        BY DEF Differences, L
    <3> QED
        BY <3>1, <3>2
  <2> QED
      BY <1>2, <2>2, <2>3 DEF JitterOfTheWindow, lat, jit, L, J
<1>5. CASE L # 0
  <2>1. L - 1 \in Nat
      BY <1>1, <1>5
  <2>2. /\ last \in Seq(Nat)
        /\ Len(last) = IF Len(jit) > L - 1 THEN L - 1 ELSE Len(jit)
        /\ \A i \in 1..Len(last) : last[i] = jit[i + (Len(jit) - Len(last))]
      BY <1>1, <2>1, LastOfSeq
  <2> HIDE DEF last
  <2>3. Len(last) = L - 1
      BY <1>1, <1>2, <2>1, <2>2 DEF J
  <2>4. \A i \in 1..(L - 1) : i + (J - (L - 1)) = i + (J - L) + 1
      BY <1>1
  <2>5. \A i \in 1..(L - 1) : last[i] = Distance(lat[i], lat[i + 1])
      BY <1>2, <2>2, <2>3, <2>4 DEF J
  <2>6. Differences(lat) = [i \in 1..(L - 1) |-> Distance(lat[i], lat[i + 1])]
      BY DEF Differences, L
  <2>7. last = [i \in 1..(L - 1) |-> last[i]]
    <3>1. last \in [1..Len(last) -> Nat]
        BY <2>2, LenProperties
    <3> QED
        BY <2>3, <3>1
  <2>8. last = Differences(lat)
      BY <2>5, <2>6, <2>7
  <2> QED
      BY <1>2, <2>8 DEF JitterOfTheWindow, last, lat, jit, L, J
<1> QED
    BY <1>4, <1>5

\* What the three counters hand out is of what they are named after.
THEOREM NumbersOfTheirWindow == StatisticsSpec => []NumbersAreOfTheirWindow
<1>1. StatisticsIInv => SessionsEndOnce
    BY DEF StatisticsIInv, SessionsAreStarted, SessionsEndOnce
<1>2. StatisticsIInv => LossAverageIsOfItsRounds
    BY DEF StatisticsIInv, HistoryOfTheRounds, LossAverageIsOfItsRounds
<1>3. StatisticsIInv => NumbersAreOfTheirWindow
    BY <1>1, <1>2, JitterIsOfItsWindow DEF NumbersAreOfTheirWindow
<1> QED
    BY <1>3, AlwaysStatistics, PTL

LEMMA StatisticsTyped == ASSUME StatisticsIInv PROVE StatisticsTypeOK
<1>1. /\ collector.recording \in BOOLEAN /\ collector.session.total \in [Channels -> Nat]
      /\ Len(collector.session.snapshots) <= MaxSnapshots
      /\ jitter.latencies \in Seq(Values) /\ rounds \in Seq(Nat)
      /\ loss.thread \in {"none", "measuring", "writing", "reporting"}
      /\ loss.history = LastOf(rounds, LossHistory)
    BY DEF StatisticsIInv, CounterTypes, SessionsAreStarted, HistoryOfTheRounds, Session
<1>2. \A l \in Range(jitter.latencies) : l \in Values
    BY <1>1, ElementOfSeq DEF Range
<1>3. Len(loss.history) <= LossHistory
  <2>1. LossHistory \in Nat
      BY StatisticsAssumption
  <2>2. Len(loss.history) = IF Len(rounds) > LossHistory THEN LossHistory ELSE Len(rounds)
      BY <1>1, <2>1, LastOfSeq
  <2>3. Len(rounds) \in Nat
      BY <1>1, LenProperties
  <2> QED
      BY <2>1, <2>2, <2>3
<1> QED
    BY <1>1, <1>2, <1>3 DEF StatisticsTypeOK

\* The types of the counters.
THEOREM StatisticsTypeCorrect == StatisticsSpec => []StatisticsTypeOK
<1>1. StatisticsIInv => StatisticsTypeOK
    BY StatisticsTyped
<1> QED
    BY <1>1, AlwaysStatistics, PTL

-----------------------------------------------------------------------------
(* The grades keep the order of what is measured.                          *)

\* A reading of the connection is positive, or there is none.
Readings == {v \in Int : v = NotMeasured \/ v > 0}
LossReadings == {v \in Int : v >= NotMeasured}
HealthSound(h) ==
    /\ DOMAIN h = {"ping", "jitter", "loss", "dns", "slowPlan", "fullDisk",
                   "checks", "passed", "window", "old"}
    /\ h.ping \in Readings /\ h.jitter \in Readings /\ h.loss \in LossReadings /\ h.dns \in Readings
    /\ h.slowPlan \in 0..1 /\ h.fullDisk \in 0..1 /\ h.checks \in Nat /\ h.passed \in Nat
    /\ h.window \in {20, 60} /\ h.old \in BOOLEAN

\* A sample of a server is a time and an answer, or none; the networks are
\* finitely many.
GradesIInv ==
    /\ GradesTypeOK
    /\ server \in [samples : Seq([at : Nat, latency : Latencies \cup {Lost}]), now : Nat]
    /\ HealthSound(health)
    /\ IsFiniteSet(networks)

LEMMA InitGrades == GradesInit => GradesIInv
<1> SUFFICES ASSUME GradesInit PROVE GradesIInv
    OBVIOUS
<1>1. server = [samples |-> <<>>, now |-> 0]
    BY DEF GradesInit
<1>2. \A S : <<>> \in Seq(S)
    BY EmptySeq
<1>3. Len(<<>>) = 0 /\ DOMAIN <<>> = {}
    OBVIOUS
<1>4. server \in [samples : Seq([at : Nat, latency : Latencies \cup {Lost}]), now : Nat]
    BY <1>1, <1>2
<1>5. \A i \in DOMAIN server.samples : server.samples[i].at \in Nat
    BY <1>1, <1>3
<1>6. line \in [ping : Pings \cup {0}, jitter : Jitters \cup {0}, loss : Losses \cup {0}]
    BY DEF GradesInit
<1>7. servers \in [1..3 -> [p50 : Nat, spread : Nat, confidence : 0..3]]
    BY DEF GradesInit
<1>8. HealthSound(health)
    BY DEF GradesInit, HealthSound, Readings, LossReadings, NotMeasured
<1>9. IsFiniteSet(networks)
    BY FS_EmptySet DEF GradesInit
<1> QED
    BY <1>4, <1>5, <1>6, <1>7, <1>8, <1>9 DEF GradesIInv, GradesTypeOK, GradesInit

LEMMA ServerProbedKeeps ==
    ASSUME GradesIInv, ServerProbed \/ TimePassed
    PROVE  /\ server' \in [samples : Seq([at : Nat, latency : Latencies \cup {Lost}]), now : Nat]
           /\ \A i \in DOMAIN server'.samples : server'.samples[i].at \in Nat
<1> DEFINE Sample == [at : Nat, latency : Latencies \cup {Lost}]
           s == server.samples
           n == server.now
<1>1. /\ server \in [samples : Seq(Sample), now : Nat] /\ s \in Seq(Sample) /\ n \in Nat
      /\ \A i \in DOMAIN s : s[i].at \in Nat
    BY DEF GradesIInv, GradesTypeOK
<1>2. /\ Len(s) \in Nat /\ DOMAIN s = 1..Len(s)
      /\ \A i \in 1..Len(s) : s[i] \in Sample
    BY <1>1, LenProperties, ElementOfSeq
<1>3. ASSUME ServerProbed
      PROVE  /\ server' \in [samples : Seq(Sample), now : Nat]
             /\ \A i \in DOMAIN server'.samples : server'.samples[i].at \in Nat
  <2>1. PICK l \in Latencies \cup {Lost} :
            server' = [server EXCEPT !.samples = Append(@, [at |-> server.now, latency |-> l])]
      BY <1>3 DEF ServerProbed
  <2> DEFINE x == [at |-> n, latency |-> l]
             t == Append(s, x)
  <2>2. x \in Sample /\ x.at = n
      BY <1>1
  <2> HIDE DEF x
  <2>3. /\ t \in Seq(Sample) /\ DOMAIN t = 1..(Len(s) + 1) /\ t[Len(s) + 1] = x
        /\ \A i \in 1..Len(s) : t[i] = s[i]
      BY <1>1, <2>2, AppendProperties, LenProperties
  <2> HIDE DEF t
  <2>4. server' = [samples |-> t, now |-> n]
      BY <1>1, <2>1 DEF t, x
  <2>5. ASSUME NEW i \in DOMAIN t PROVE t[i].at \in Nat
    <3>1. CASE i = Len(s) + 1
        BY <1>1, <2>2, <2>3, <3>1
    <3>2. CASE i # Len(s) + 1
      <4>1. i \in 1..Len(s)
          BY <1>2, <2>3, <3>2
      <4> QED
          BY <1>1, <1>2, <2>3, <4>1
    <3> QED
        BY <3>1, <3>2
  <2> QED
      BY <1>1, <2>3, <2>4, <2>5
<1>4. ASSUME TimePassed
      PROVE  /\ server' \in [samples : Seq(Sample), now : Nat]
             /\ \A i \in DOMAIN server'.samples : server'.samples[i].at \in Nat
  <2>1. PICK m \in 0..Window + 1 : server' = [server EXCEPT !.now = m]
      BY <1>4 DEF TimePassed
  <2>2. m \in Nat
      BY GradesAssumption
  <2>3. server' = [samples |-> s, now |-> m]
      BY <1>1, <2>1
  <2> QED
      BY <1>1, <2>2, <2>3
<1> QED
    BY <1>3, <1>4

\* What is set in one field leaves the others as they are.
LEMMA FieldSet ==
    ASSUME NEW r, NEW x \in DOMAIN r, NEW v
    PROVE  /\ DOMAIN [r EXCEPT ![x] = v] = DOMAIN r
           /\ [r EXCEPT ![x] = v][x] = v
           /\ \A y \in DOMAIN r : y # x => [r EXCEPT ![x] = v][y] = r[y]
OBVIOUS

\* What changes is a reading or a finding, of its kind; the measurement only
\* gets shorter or older.
LEMMA HealthChangesKeep ==
    ASSUME HealthSound(health), HealthChanges
    PROVE  /\ HealthSound(health')
           /\ health'.window = health.window \/ health'.window = 20
           /\ health'.old = health.old \/ health'.old = TRUE
<1> DEFINE Kept(h) ==
        /\ HealthSound(h)
        /\ h.window = health.window \/ h.window = 20
        /\ h.old = health.old \/ h.old = TRUE
<1>1. ASSUME NEW v \in {1, 30, 100, 200, 400} PROVE Kept([health EXCEPT !.ping = v])
  <2> DEFINE g == [health EXCEPT !.ping = v]
  <2>1. DOMAIN g = DOMAIN health /\ g.ping = v
        /\ \A y \in DOMAIN health : y # "ping" => g[y] = health[y]
      BY FieldSet DEF HealthSound
  <2>2. v \in Readings
      BY DEF Readings
  <2> HIDE DEF g
  <2> QED
      BY <2>1, <2>2 DEF HealthSound
<1>2. ASSUME NEW v \in {1, 30, 100, 200, 400} PROVE Kept([health EXCEPT !.dns = v])
  <2> DEFINE g == [health EXCEPT !.dns = v]
  <2>1. DOMAIN g = DOMAIN health /\ g.dns = v
        /\ \A y \in DOMAIN health : y # "dns" => g[y] = health[y]
      BY FieldSet DEF HealthSound
  <2>2. v \in Readings
      BY DEF Readings
  <2> HIDE DEF g
  <2> QED
      BY <2>1, <2>2 DEF HealthSound
<1>3. ASSUME NEW v \in {1, 12, 30} PROVE Kept([health EXCEPT !.jitter = v])
  <2> DEFINE g == [health EXCEPT !.jitter = v]
  <2>1. DOMAIN g = DOMAIN health /\ g.jitter = v
        /\ \A y \in DOMAIN health : y # "jitter" => g[y] = health[y]
      BY FieldSet DEF HealthSound
  <2>2. v \in Readings
      BY DEF Readings
  <2> HIDE DEF g
  <2> QED
      BY <2>1, <2>2 DEF HealthSound
<1>4. ASSUME NEW v \in {0, 1, 4} PROVE Kept([health EXCEPT !.loss = v])
  <2> DEFINE g == [health EXCEPT !.loss = v]
  <2>1. DOMAIN g = DOMAIN health /\ g.loss = v
        /\ \A y \in DOMAIN health : y # "loss" => g[y] = health[y]
      BY FieldSet DEF HealthSound
  <2>2. v \in LossReadings
      BY DEF LossReadings, NotMeasured
  <2> HIDE DEF g
  <2> QED
      BY <2>1, <2>2 DEF HealthSound
<1>5. ASSUME NEW v \in {1} PROVE Kept([health EXCEPT !.slowPlan = v])
  <2> DEFINE g == [health EXCEPT !.slowPlan = v]
  <2>1. DOMAIN g = DOMAIN health /\ g.slowPlan = v
        /\ \A y \in DOMAIN health : y # "slowPlan" => g[y] = health[y]
      BY FieldSet DEF HealthSound
  <2>2. v \in 0..1
      OBVIOUS
  <2> HIDE DEF g
  <2> QED
      BY <2>1, <2>2 DEF HealthSound
<1>6. ASSUME NEW v \in {1} PROVE Kept([health EXCEPT !.fullDisk = v])
  <2> DEFINE g == [health EXCEPT !.fullDisk = v]
  <2>1. DOMAIN g = DOMAIN health /\ g.fullDisk = v
        /\ \A y \in DOMAIN health : y # "fullDisk" => g[y] = health[y]
      BY FieldSet DEF HealthSound
  <2>2. v \in 0..1
      OBVIOUS
  <2> HIDE DEF g
  <2> QED
      BY <2>1, <2>2 DEF HealthSound
<1>7. ASSUME NEW v \in {20} PROVE Kept([health EXCEPT !.window = v])
  <2> DEFINE g == [health EXCEPT !.window = v]
  <2>1. DOMAIN g = DOMAIN health /\ g.window = v
        /\ \A y \in DOMAIN health : y # "window" => g[y] = health[y]
      BY FieldSet DEF HealthSound
  <2>2. v \in {20, 60}
      OBVIOUS
  <2> HIDE DEF g
  <2> QED
      BY <2>1, <2>2 DEF HealthSound
<1>8. ASSUME NEW v \in {TRUE} PROVE Kept([health EXCEPT !.old = v])
  <2> DEFINE g == [health EXCEPT !.old = v]
  <2>1. DOMAIN g = DOMAIN health /\ g.old = v
        /\ \A y \in DOMAIN health : y # "old" => g[y] = health[y]
      BY FieldSet DEF HealthSound
  <2>2. v \in BOOLEAN
      OBVIOUS
  <2> HIDE DEF g
  <2> QED
      BY <2>1, <2>2 DEF HealthSound
<1>9. ASSUME NEW v \in {1, 2} PROVE Kept([health EXCEPT !.checks = 2, !.passed = v])
  <2> DEFINE g == [health EXCEPT !.checks = 2]
             f == [g EXCEPT !.passed = v]
  <2>1. DOMAIN g = DOMAIN health /\ g.checks = 2
        /\ \A y \in DOMAIN health : y # "checks" => g[y] = health[y]
      BY FieldSet DEF HealthSound
  <2>2. f = [health EXCEPT !.checks = 2, !.passed = v]
      BY <2>1
  <2> HIDE DEF g
  <2>3. DOMAIN f = DOMAIN health /\ f.passed = v
        /\ \A y \in DOMAIN health : y # "passed" => f[y] = g[y]
      BY <2>1, FieldSet DEF HealthSound
  <2>4. 2 \in Nat /\ v \in Nat
      OBVIOUS
  <2> HIDE DEF f
  <2>5. Kept(f)
      BY <2>1, <2>3, <2>4 DEF HealthSound
  <2> QED
      BY <2>2, <2>5
<1> HIDE DEF Kept
<1>10. ASSUME health' \in {[health EXCEPT !.slowPlan = 1], [health EXCEPT !.fullDisk = 1],
                           [health EXCEPT !.checks = 2, !.passed = 2],
                           [health EXCEPT !.checks = 2, !.passed = 1],
                           [health EXCEPT !.window = 20], [health EXCEPT !.old = TRUE]}
       PROVE  Kept(health')
    BY <1>5, <1>6, <1>7, <1>8, <1>9, <1>10
<1>11. ASSUME \E v \in {1, 30, 100, 200, 400} : health' \in {[health EXCEPT !.ping = v], [health EXCEPT !.dns = v]}
       PROVE  Kept(health')
    BY <1>1, <1>2, <1>11
<1>12. ASSUME \/ \E v \in {1, 12, 30} : health' = [health EXCEPT !.jitter = v]
              \/ \E v \in {0, 1, 4} : health' = [health EXCEPT !.loss = v]
       PROVE  Kept(health')
    BY <1>3, <1>4, <1>12
<1>13. Kept(health')
    BY <1>10, <1>11, <1>12, Zenon DEF HealthChanges
<1> QED
    BY <1>13 DEF Kept

LEMMA NextGrades == GradesIInv /\ [GradesNext]_gradesVars => GradesIInv'
<1> SUFFICES ASSUME GradesIInv, [GradesNext]_gradesVars PROVE GradesIInv'
    OBVIOUS
<1>1. CASE graded = "line" /\ Measured /\ UNCHANGED <<graded, health, server, servers, hop, networks>>
    BY <1>1 DEF Measured, GradesIInv, GradesTypeOK
<1>2. CASE HealthChanges /\ UNCHANGED <<graded, line, server, servers, hop, networks>>
  <2>1. HealthSound(health')
      BY <1>2, HealthChangesKeep DEF GradesIInv
  <2> QED
      BY <1>2, <2>1 DEF GradesIInv, GradesTypeOK
<1>3. CASE (ServerProbed \/ TimePassed) /\ UNCHANGED <<graded, line, health, servers, hop, networks>>
  <2>1. /\ server' \in [samples : Seq([at : Nat, latency : Latencies \cup {Lost}]), now : Nat]
        /\ \A i \in DOMAIN server'.samples : server'.samples[i].at \in Nat
      BY <1>3, ServerProbedKeeps
  <2> QED
      BY <1>3, <2>1 DEF GradesIInv, GradesTypeOK
<1>4. CASE Estimated /\ UNCHANGED <<graded, line, health, server, hop, networks>>
    BY <1>4, GradesAssumption DEF Estimated, GradesIInv, GradesTypeOK
<1>5. CASE HopProbed /\ UNCHANGED <<graded, line, health, server, servers, networks>>
    BY <1>5 DEF GradesIInv, GradesTypeOK
<1>6. CASE NetworkFound /\ UNCHANGED <<graded, line, health, server, servers, hop>>
  <2>1. PICK n \in Neighbours : networks' = networks \cup {n}
      BY <1>6 DEF NetworkFound
  <2>2. IsFiniteSet(networks')
      BY <2>1, FS_AddElement DEF GradesIInv
  <2> QED
      BY <1>6, <2>1, <2>2 DEF GradesIInv, GradesTypeOK
<1>7. CASE UNCHANGED gradesVars
    BY <1>7 DEF gradesVars, GradesIInv, GradesTypeOK
<1> QED
    BY <1>1, <1>2, <1>3, <1>4, <1>5, <1>6, <1>7 DEF GradesNext

LEMMA AlwaysGrades == GradesSpec => []GradesIInv
BY InitGrades, NextGrades, PTL DEF GradesSpec

\* The first of at most seven limits that a value stays within.
LEMMA FirstLimit ==
    ASSUME NEW S \in SUBSET (1..7), S # {}
    PROVE  Min(S) \in S /\ \A y \in S : Min(S) <= y
<1>1. \E x \in S : \A y \in S : x <= y
  <2>1. CASE 1 \in S
      BY <2>1
  <2>2. CASE 1 \notin S /\ 2 \in S
      BY <2>2
  <2>3. CASE 1 \notin S /\ 2 \notin S /\ 3 \in S
      BY <2>3
  <2>4. CASE 1 \notin S /\ 2 \notin S /\ 3 \notin S /\ 4 \in S
      BY <2>4
  <2>5. CASE 1 \notin S /\ 2 \notin S /\ 3 \notin S /\ 4 \notin S /\ 5 \in S
      BY <2>5
  <2>6. CASE 1 \notin S /\ 2 \notin S /\ 3 \notin S /\ 4 \notin S /\ 5 \notin S
    <3>1. \A y \in S : y = 6 \/ y = 7
        BY <2>6
    <3>2. CASE 6 \in S
      <4>1. \A y \in S : 6 <= y
          BY <3>1
      <4> QED
          BY <3>2, <4>1
    <3>3. CASE 6 \notin S
      <4>1. \A y \in S : y = 7
          BY <3>1, <3>3, Zenon
      <4>2. \A y \in S : 7 <= y
          BY <4>1
      <4>3. 7 \in S
          BY <4>1, Zenon
      <4> QED
          BY <4>2, <4>3, Zenon
    <3> QED
        BY <3>2, <3>3
  <2> QED
      BY <2>1, <2>2, <2>3, <2>4, <2>5, <2>6
<1> QED
    BY <1>1 DEF Min

\* A greater value has no better score.
LEMMA StepFalls ==
    ASSUME NEW n \in 1..7, NEW limits \in [1..n -> Int], NEW points \in [1..n -> 0..100],
           \A i, j \in 1..n : i <= j => points[j] <= points[i],
           NEW v \in Int, NEW w \in Int, v <= w
    PROVE  /\ Step(v, limits, points) \in 0..100 /\ Step(w, limits, points) \in 0..100
           /\ Step(w, limits, points) <= Step(v, limits, points)
<1> DEFINE A == {i \in DOMAIN limits : v <= limits[i]}
           B == {i \in DOMAIN limits : w <= limits[i]}
<1>1. A \in SUBSET (1..7) /\ B \in SUBSET (1..7) /\ A \subseteq 1..n /\ B \subseteq 1..n
  <2>1. DOMAIN limits = 1..n /\ \A i \in 1..n : i \in 1..7
      OBVIOUS
  <2> QED
      BY <2>1
<1>2. B \subseteq A
    OBVIOUS
<1>3. /\ Step(v, limits, points) = IF A = {} THEN 0 ELSE points[Min(A)]
      /\ Step(w, limits, points) = IF B = {} THEN 0 ELSE points[Min(B)]
    BY DEF Step
<1> HIDE DEF A, B
<1>4. /\ A # {} => Min(A) \in A /\ \A y \in A : Min(A) <= y
      /\ B # {} => Min(B) \in B /\ \A y \in B : Min(B) <= y
    BY <1>1, FirstLimit
<1>5. CASE B = {}
  <2>1. Step(w, limits, points) = 0
      BY <1>3, <1>5
  <2>2. CASE A = {}
      BY <1>3, <2>1, <2>2
  <2>3. CASE A # {}
    <3> DEFINE m == Min(A)
    <3>1. m \in 1..n
        BY <1>1, <1>4, <2>3
    <3>2. \A i \in 1..n : points[i] \in 0..100
        OBVIOUS
    <3>4. Step(v, limits, points) = points[m]
        BY <1>3, <2>3
    <3> HIDE DEF m
    <3>3. points[m] \in 0..100
        BY <3>1, <3>2
    <3>5. \A a \in 0..100 : 0 \in 0..100 /\ 0 <= a
        OBVIOUS
    <3> QED
        BY <2>1, <3>3, <3>4, <3>5, Zenon
  <2> QED
      BY <2>2, <2>3
<1>6. CASE B # {}
  <2>1. A # {} /\ Min(A) \in 1..n /\ Min(B) \in 1..n /\ Min(A) <= Min(B)
      BY <1>1, <1>2, <1>4, <1>6
  <2>2. points[Min(B)] <= points[Min(A)] /\ points[Min(A)] \in 0..100 /\ points[Min(B)] \in 0..100
      BY <2>1
  <2> QED
      BY <1>3, <1>6, <2>1, <2>2
<1> QED
    BY <1>5, <1>6

LEMMA PingScoreFalls ==
    ASSUME NEW v \in Int, NEW w \in Int, v <= w
    PROVE  PingScore(v) \in 0..100 /\ PingScore(w) \in 0..100 /\ PingScore(w) <= PingScore(v)
<1> DEFINE limits == <<20, 40, 60, 80, 100, 150, 200>>
           points == <<100, 90, 80, 70, 60, 40, 20>>
<1>1. limits \in [1..7 -> Int] /\ points \in [1..7 -> 0..100]
    OBVIOUS
<1>2. \A i, j \in 1..7 : i <= j => points[j] <= points[i]
    OBVIOUS
<1> HIDE DEF limits, points
<1>3. /\ Step(v, limits, points) \in 0..100 /\ Step(w, limits, points) \in 0..100
      /\ Step(w, limits, points) <= Step(v, limits, points)
    BY <1>1, <1>2, StepFalls, 7 \in 1..7
<1> QED
    BY <1>3 DEF PingScore, limits, points

LEMMA JitterScoreFalls ==
    ASSUME NEW v \in Int, NEW w \in Int, v <= w
    PROVE  JitterScore(v) \in 0..100 /\ JitterScore(w) \in 0..100 /\ JitterScore(w) <= JitterScore(v)
<1> DEFINE limits == <<5, 10, 20, 30, 50, 100>>
           points == <<100, 90, 75, 60, 40, 20>>
<1>1. limits \in [1..6 -> Int] /\ points \in [1..6 -> 0..100]
    OBVIOUS
<1>2. \A i, j \in 1..6 : i <= j => points[j] <= points[i]
    OBVIOUS
<1> HIDE DEF limits, points
<1>3. /\ Step(v, limits, points) \in 0..100 /\ Step(w, limits, points) \in 0..100
      /\ Step(w, limits, points) <= Step(v, limits, points)
    BY <1>1, <1>2, StepFalls, 6 \in 1..7
<1> QED
    BY <1>3 DEF JitterScore, limits, points

LEMMA LossScoreFalls ==
    ASSUME NEW v \in Int, NEW w \in Int, v <= w
    PROVE  LossScore(v) \in 0..100 /\ LossScore(w) \in 0..100 /\ LossScore(w) <= LossScore(v)
<1> DEFINE limits == <<1, 5, 10, 20, 50, 100>>
           points == <<100, 90, 80, 60, 40, 20>>
<1>1. limits \in [1..6 -> Int] /\ points \in [1..6 -> 0..100]
    OBVIOUS
<1>2. \A i, j \in 1..6 : i <= j => points[j] <= points[i]
    OBVIOUS
<1> HIDE DEF limits, points
<1>3. /\ Step(v, limits, points) \in 0..100 /\ Step(w, limits, points) \in 0..100
      /\ Step(w, limits, points) <= Step(v, limits, points)
    BY <1>1, <1>2, StepFalls, 6 \in 1..7
<1> QED
    BY <1>3 DEF LossScore, limits, points

LEMMA GradeFromScoreRises ==
    ASSUME NEW s \in Int, NEW t \in Int, s <= t
    PROVE  GradeFromScore(s) <= GradeFromScore(t)
<1> DEFINE L == {95, 85, 70, 55, 40}
           A == {l \in L : s < l}
           B == {l \in L : t < l}
<1>1. IsFiniteSet(L)
  <2>1. \A a, b \in Int : IsFiniteSet(a..b)
      BY FS_Interval
  <2>2. 0 \in Int /\ 95 \in Int
      OBVIOUS
  <2>4. IsFiniteSet(0..95)
      BY <2>1, <2>2, Zenon
  <2>3. L \subseteq 0..95
      OBVIOUS
  <2> QED
      BY <2>3, <2>4, FS_Subset
<1>2. A \subseteq L /\ B \subseteq A
    OBVIOUS
<1>3. GradeFromScore(s) = 6 - Cardinality(A) /\ GradeFromScore(t) = 6 - Cardinality(B)
    BY DEF GradeFromScore
<1> HIDE DEF A, B, L
<1>4. IsFiniteSet(A)
    BY <1>1, <1>2, FS_Subset
<1>5. Cardinality(B) <= Cardinality(A) /\ IsFiniteSet(B)
    BY <1>2, <1>4, FS_Subset
<1>6. Cardinality(A) \in Nat /\ Cardinality(B) \in Nat
    BY <1>4, <1>5, FS_CardinalityType
<1> QED
    BY <1>3, <1>5, <1>6

\* The grade of a line that was measured falls with what was measured.
LEMMA GradeFalls ==
    ASSUME NEW p \in Int, NEW j \in Int, NEW l \in Int, NEW q \in Int, NEW k \in Int, NEW m \in Int,
           p > 0, j > 0, l > 0, p <= q, j <= k, l <= m
    PROVE  Grade([ping |-> q, jitter |-> k, loss |-> m]) <= Grade([ping |-> p, jitter |-> j, loss |-> l])
<1> DEFINE a == PingScore(p)
           b == JitterScore(j)
           c == LossScore(l)
           x == PingScore(q)
           y == JitterScore(k)
           z == LossScore(m)
<1>1. /\ a \in 0..100 /\ x \in 0..100 /\ x <= a
      /\ b \in 0..100 /\ y \in 0..100 /\ y <= b
      /\ c \in 0..100 /\ z \in 0..100 /\ z <= c
    BY PingScoreFalls, JitterScoreFalls, LossScoreFalls
<1>2. /\ Grade([ping |-> p, jitter |-> j, loss |-> l]) = GradeFromScore((4 * a + 3 * b + 3 * c) \div 10)
      /\ Grade([ping |-> q, jitter |-> k, loss |-> m]) = GradeFromScore((4 * x + 3 * y + 3 * z) \div 10)
  <2>1. ~(p <= 0) /\ ~(q <= 0)
      OBVIOUS
  <2> QED
      BY <2>1 DEF Grade
<1> HIDE DEF a, b, c, x, y, z
<1>3. \A s, t \in Int : s <= t => s \div 10 \in Int /\ t \div 10 \in Int /\ s \div 10 <= t \div 10
    OBVIOUS
<1>4. 4 * x + 3 * y + 3 * z \in Int /\ 4 * a + 3 * b + 3 * c \in Int
      /\ 4 * x + 3 * y + 3 * z <= 4 * a + 3 * b + 3 * c
    BY <1>1
<1>5. /\ (4 * x + 3 * y + 3 * z) \div 10 \in Int /\ (4 * a + 3 * b + 3 * c) \div 10 \in Int
      /\ (4 * x + 3 * y + 3 * z) \div 10 <= (4 * a + 3 * b + 3 * c) \div 10
    BY <1>3, <1>4
<1> QED
    BY <1>2, <1>5, GradeFromScoreRises

\* ConnectionGrader::evaluate, for readings of any size: a line that measures
\* worse in every respect, and was measured in each, is not graded better.
THEOREM GradesFall == GradesSpec => GradeFallsWithTheLine
<1>1. ASSUME GradesIInv, [GradesNext]_gradesVars
      PROVE  [Known(line) /\ line'.ping >= line.ping /\ line'.jitter >= line.jitter /\ line'.loss >= line.loss
               => Grade(line') <= Grade(line)]_gradesVars
  <2>1. GradesIInv'
      BY <1>1, NextGrades
  <2>2. /\ line \in [ping : Int, jitter : Int, loss : Int]
        /\ line' \in [ping : Int, jitter : Int, loss : Int]
    <3>1. Pings \cup {0} \subseteq Int /\ Jitters \cup {0} \subseteq Int /\ Losses \cup {0} \subseteq Int
        BY GradesAssumption
    <3>2. line \in [ping : Pings \cup {0}, jitter : Jitters \cup {0}, loss : Losses \cup {0}]
        BY <1>1 DEF GradesIInv, GradesTypeOK
    <3>3. line' \in [ping : Pings \cup {0}, jitter : Jitters \cup {0}, loss : Losses \cup {0}]
        BY <2>1 DEF GradesIInv, GradesTypeOK
    <3> QED
        BY <3>1, <3>2, <3>3
  <2> SUFFICES ASSUME Known(line), line'.ping >= line.ping, line'.jitter >= line.jitter, line'.loss >= line.loss
               PROVE  Grade(line') <= Grade(line)
      OBVIOUS
  <2>3. /\ line = [ping |-> line.ping, jitter |-> line.jitter, loss |-> line.loss]
        /\ line' = [ping |-> line'.ping, jitter |-> line'.jitter, loss |-> line'.loss]
      BY <2>2
  <2>4. line.ping > 0 /\ line.jitter > 0 /\ line.loss > 0
      BY DEF Known
  <2>5. Grade([ping |-> line'.ping, jitter |-> line'.jitter, loss |-> line'.loss])
            <= Grade([ping |-> line.ping, jitter |-> line.jitter, loss |-> line.loss])
      BY <2>2, <2>4, GradeFalls
  <2> QED
      BY <2>3, <2>5
<1> QED
    BY <1>1, AlwaysGrades, PTL DEF GradesSpec, GradeFallsWithTheLine

\* confidentBetter: for all estimates, better is transitive.
THEOREM BetterIsAnOrder == GradesSpec => []BetterIsTransitive
<1>1. ASSUME GradesIInv PROVE BetterIsTransitive
  <2> SUFFICES ASSUME Better(servers[1], servers[2]), Better(servers[2], servers[3])
               PROVE  Better(servers[1], servers[3])
      BY DEF BetterIsTransitive
  <2>1. \A i \in 1..3 : servers[i].p50 \in Nat /\ servers[i].spread \in Nat
      BY <1>1 DEF GradesIInv, GradesTypeOK
  <2>2. /\ servers[1].p50 \in Nat /\ servers[2].p50 \in Nat /\ servers[3].p50 \in Nat
        /\ servers[1].spread \in Nat /\ servers[2].spread \in Nat /\ servers[3].spread \in Nat
      BY <2>1
  <2> QED
      BY <2>2 DEF Better
<1> QED
    BY <1>1, AlwaysGrades, PTL

-----------------------------------------------------------------------------
(* The health score falls with its parts.                                  *)

\* Rounding down keeps the order.
LEMMA DivRises ==
    ASSUME NEW a \in Int, NEW b \in Int, NEW c \in Nat \ {0}, a <= b
    PROVE  a \div c \in Int /\ b \div c \in Int /\ a \div c <= b \div c
<1> DEFINE q == a \div c
           r == b \div c
<1>1. /\ q \in Int /\ r \in Int
      /\ c * q <= a /\ b < c * (r + 1)
    OBVIOUS
<1> HIDE DEF q, r
<1>2. SUFFICES ASSUME r + 1 <= q PROVE FALSE
    BY <1>1 DEF q, r
<1>3. c * (r + 1) <= c * q
    BY <1>1, <1>2
<1>4. c * (r + 1) \in Int /\ c * q \in Int
    BY <1>1
<1> QED
    BY <1>1, <1>3, <1>4

\* And what is not negative stays so.
LEMMA DivNat ==
    ASSUME NEW a \in Nat, NEW c \in Nat \ {0}
    PROVE  a \div c \in Nat
<1> DEFINE z == 0 \div c
<1>1. z = 0
    OBVIOUS
<1>2. z <= a \div c /\ a \div c \in Int
    BY DivRises
<1> QED
    BY <1>1, <1>2

\* A share of the more is the less.
LEMMA DivFalls ==
    ASSUME NEW a \in Nat, NEW c \in Nat \ {0}
    PROVE  a \div (c + 1) <= a \div c
<1> DEFINE q == a \div (c + 1)
           r == a \div c
<1>1. /\ q \in Int /\ r \in Int
      /\ (c + 1) * q <= a /\ a < c * (r + 1)
    OBVIOUS
<1>2. q \in Nat
    BY DivNat, c + 1 \in Nat \ {0}
<1> HIDE DEF q, r
<1>3. SUFFICES ASSUME r + 1 <= q PROVE FALSE
    BY <1>1 DEF q, r
<1>4. c * (r + 1) <= c * q
    BY <1>1, <1>3
<1>5. (c + 1) * q = c * q + q
    BY <1>2
<1>6. c * (r + 1) \in Int /\ c * q \in Int
    BY <1>1
<1> QED
    BY <1>1, <1>2, <1>4, <1>5, <1>6

\* scale: the points of a value that was measured fall with it.
LEMMA PointsFall ==
    ASSUME NEW v \in Int, NEW w \in Int, NEW full \in Nat, NEW none \in Nat,
           full < none, 0 < v, v <= w
    PROVE  /\ Points(v, full, none) \in 0..100 /\ Points(w, full, none) \in 0..100
           /\ Points(w, full, none) <= Points(v, full, none)
<1> DEFINE a == (none - w) * 100
           b == (none - v) * 100
           c == none - full
<1>1. a \in Int /\ b \in Int /\ c \in Nat \ {0} /\ a <= b
    OBVIOUS
<1>2. ~(v <= 0) /\ ~(w <= 0)
    OBVIOUS
<1>3. Points(v, full, none) = Clamped(b \div c) /\ Points(w, full, none) = Clamped(a \div c)
    BY <1>2 DEF Points
<1> HIDE DEF a, b, c
<1>4. a \div c \in Int /\ b \div c \in Int /\ a \div c <= b \div c
    BY <1>1, DivRises
<1>5. \A x, y \in Int : x <= y => Clamped(x) \in 0..100 /\ Clamped(y) \in 0..100 /\ Clamped(x) <= Clamped(y)
    BY DEF Clamped
<1> QED
    BY <1>3, <1>4, <1>5

LEMMA MeasuresFall ==
    ASSUME NEW v \in Int, NEW w \in Int, 0 < v, v <= w
    PROVE  /\ Points(v, 40, 180) \in 0..100 /\ Points(w, 40, 180) \in 0..100
           /\ Points(w, 40, 180) <= Points(v, 40, 180)
           /\ Points(v, 2, 20) \in 0..100 /\ Points(w, 2, 20) \in 0..100
           /\ Points(w, 2, 20) <= Points(v, 2, 20)
           /\ Points(v, 15, 150) \in 0..100 /\ Points(w, 15, 150) \in 0..100
           /\ Points(w, 15, 150) <= Points(v, 15, 150)
<1>1. 40 \in Nat /\ 180 \in Nat /\ 40 < 180 /\ 2 \in Nat /\ 20 \in Nat /\ 2 < 20
      /\ 15 \in Nat /\ 150 \in Nat /\ 15 < 150
    OBVIOUS
<1>2. /\ Points(v, 40, 180) \in 0..100 /\ Points(w, 40, 180) \in 0..100
      /\ Points(w, 40, 180) <= Points(v, 40, 180)
    BY <1>1, PointsFall, Zenon
<1>3. /\ Points(v, 2, 20) \in 0..100 /\ Points(w, 2, 20) \in 0..100
      /\ Points(w, 2, 20) <= Points(v, 2, 20)
    BY <1>1, PointsFall, Zenon
<1>4. /\ Points(v, 15, 150) \in 0..100 /\ Points(w, 15, 150) \in 0..100
      /\ Points(w, 15, 150) <= Points(v, 15, 150)
    BY <1>1, PointsFall, Zenon
<1> QED
    BY <1>2, <1>3, <1>4

LEMMA LossPointsFall ==
    ASSUME NEW v \in Int, NEW w \in Int, 0 <= v, v <= w
    PROVE  LossPoints(v) \in 0..100 /\ LossPoints(w) \in 0..100 /\ LossPoints(w) <= LossPoints(v)
BY DEF LossPoints

\* The sum over the parts begins at nothing.
LEMMA NothingAdded == NoPart.points = 0 /\ NoPart.weight = 0
BY DEF NoPart

\* With every measure there, the score of the network is the weighted mean.
LEMMA NetworkWhenMeasured ==
    ASSUME NEW h, HealthSound(h), h.ping > 0, h.jitter > 0, h.loss >= 0, h.dns > 0
    PROVE  NetworkScore(h) = (35 * Points(h.ping, 40, 180) + 25 * Points(h.jitter, 2, 20)
                              + 30 * LossPoints(h.loss) + 10 * Points(h.dns, 15, 150)) \div 100
<1> DEFINE p == Points(h.ping, 40, 180)
           j == Points(h.jitter, 2, 20)
           l == LossPoints(h.loss)
           d == Points(h.dns, 15, 150)
           one   == Added(NoPart, p, 35)
           two   == Added(one, j, 25)
           three == Added(two, l, 30)
           all   == Added(three, d, 10)
<1>1. h.ping \in Int /\ h.jitter \in Int /\ h.loss \in Int /\ h.dns \in Int
    BY DEF HealthSound, Readings, LossReadings
<1>2. p \in Nat /\ j \in Nat /\ l \in Nat /\ d \in Nat
  <2>1. \A x \in 0..100 : x \in Nat
      OBVIOUS
  <2>2. p \in 0..100 /\ j \in 0..100 /\ d \in 0..100
      BY <1>1, MeasuresFall
  <2>3. l \in 0..100
      BY <1>1, LossPointsFall
  <2> QED
      BY <2>1, <2>2, <2>3
<1>3. NetworkScore(h) = Share(all)
    BY DEF NetworkScore
<1> HIDE DEF p, j, l, d
<1>4. one.points \in Nat /\ one.weight \in Nat /\ one.points = 0 + p * 35 /\ one.weight = 0 + 35
    BY <1>2, NothingAdded DEF Added
<1> HIDE DEF one
<1>5. two.points \in Nat /\ two.weight \in Nat
      /\ two.points = one.points + j * 25 /\ two.weight = one.weight + 25
    BY <1>2, <1>4 DEF Added
<1> HIDE DEF two
<1>6. three.points \in Nat /\ three.weight \in Nat
      /\ three.points = two.points + l * 30 /\ three.weight = two.weight + 30
    BY <1>2, <1>5 DEF Added
<1> HIDE DEF three
<1>7. all.points = three.points + d * 10 /\ all.weight = three.weight + 10
    BY <1>2, <1>6 DEF Added
<1>8. all.weight = 100 /\ all.points = 35 * p + 25 * j + 30 * l + 10 * d
    BY <1>2, <1>4, <1>5, <1>6, <1>7
<1> HIDE DEF all
<1>9. Share(all) = (35 * p + 25 * j + 30 * l + 10 * d) \div 100
    BY <1>8 DEF Share
<1> QED
    BY <1>3, <1>9 DEF p, j, l, d

\* Each measure is there and none is better.
Worse(h, g) ==
    /\ h.ping > 0 /\ h.jitter > 0 /\ h.loss >= 0 /\ h.dns > 0
    /\ g.ping >= h.ping /\ g.jitter >= h.jitter /\ g.loss >= h.loss /\ g.dns >= h.dns

LEMMA NetworkFalls ==
    ASSUME NEW h, HealthSound(h), NEW g, HealthSound(g), Worse(h, g)
    PROVE  NetworkScore(h) \in Nat /\ NetworkScore(g) \in Nat /\ NetworkScore(g) <= NetworkScore(h)
<1> DEFINE p == Points(h.ping, 40, 180)
           j == Points(h.jitter, 2, 20)
           l == LossPoints(h.loss)
           d == Points(h.dns, 15, 150)
           x == Points(g.ping, 40, 180)
           y == Points(g.jitter, 2, 20)
           z == LossPoints(g.loss)
           u == Points(g.dns, 15, 150)
<1>1. /\ h.ping \in Int /\ h.jitter \in Int /\ h.loss \in Int /\ h.dns \in Int
      /\ g.ping \in Int /\ g.jitter \in Int /\ g.loss \in Int /\ g.dns \in Int
    BY DEF HealthSound, Readings, LossReadings
<1>2. /\ p \in 0..100 /\ x \in 0..100 /\ x <= p
      /\ j \in 0..100 /\ y \in 0..100 /\ y <= j
      /\ d \in 0..100 /\ u \in 0..100 /\ u <= d
  <2>1. /\ 0 < h.ping /\ h.ping <= g.ping /\ 0 < h.jitter /\ h.jitter <= g.jitter
        /\ 0 < h.dns /\ h.dns <= g.dns
      BY <1>1 DEF Worse
  <2>2. p \in 0..100 /\ x \in 0..100 /\ x <= p
      BY <1>1, <2>1, MeasuresFall
  <2>3. j \in 0..100 /\ y \in 0..100 /\ y <= j
      BY <1>1, <2>1, MeasuresFall
  <2>4. d \in 0..100 /\ u \in 0..100 /\ u <= d
      BY <1>1, <2>1, MeasuresFall
  <2> QED
      BY <2>2, <2>3, <2>4
<1>3. l \in 0..100 /\ z \in 0..100 /\ z <= l
    BY <1>1, LossPointsFall DEF Worse
<1>4. NetworkScore(h) = (35 * p + 25 * j + 30 * l + 10 * d) \div 100
    BY NetworkWhenMeasured DEF Worse
<1>5. NetworkScore(g) = (35 * x + 25 * y + 30 * z + 10 * u) \div 100
  <2>1. g.ping > 0 /\ g.jitter > 0 /\ g.loss >= 0 /\ g.dns > 0
      BY <1>1 DEF Worse
  <2> QED
      BY <2>1, NetworkWhenMeasured
<1> HIDE DEF p, j, l, d, x, y, z, u
<1>6. /\ 35 * p + 25 * j + 30 * l + 10 * d \in Nat /\ 35 * x + 25 * y + 30 * z + 10 * u \in Nat
      /\ 35 * x + 25 * y + 30 * z + 10 * u <= 35 * p + 25 * j + 30 * l + 10 * d
    BY <1>2, <1>3
<1> QED
    BY <1>4, <1>5, <1>6, DivRises, DivNat, 100 \in Nat \ {0}

LEMMA ReadyFalls ==
    ASSUME NEW h, HealthSound(h), NEW g, HealthSound(g), g.checks = h.checks, g.passed <= h.passed
    PROVE  \/ h.checks = 0 /\ ReadyScore(h) = NotMeasured /\ ReadyScore(g) = NotMeasured
           \/ ReadyScore(h) \in Nat /\ ReadyScore(g) \in Nat /\ ReadyScore(g) <= ReadyScore(h)
<1> DEFINE c == h.checks
           a == 100 * g.passed
           b == 100 * h.passed
<1>1. c \in Nat /\ a \in Nat /\ b \in Nat /\ a <= b
    BY DEF HealthSound
<1>2. /\ ReadyScore(h) = IF c = 0 THEN NotMeasured ELSE b \div c
      /\ ReadyScore(g) = IF c = 0 THEN NotMeasured ELSE a \div c
    BY DEF ReadyScore
<1> HIDE DEF a, b
<1>3. CASE c = 0
    BY <1>2, <1>3
<1>4. CASE c # 0
  <2>1. c \in Nat \ {0}
      BY <1>1, <1>4
  <2> HIDE DEF c
  <2>2. a \div c \in Nat /\ b \div c \in Nat /\ a \div c <= b \div c
      BY <1>1, <2>1, DivRises, DivNat
  <2> QED
      BY <1>2, <1>4, <2>2
<1> QED
    BY <1>3, <1>4

LEMMA TotalFalls ==
    ASSUME NEW h, HealthSound(h), NEW g, HealthSound(g), Worse(h, g),
           g.slowPlan >= h.slowPlan, g.fullDisk >= h.fullDisk,
           g.checks = h.checks, g.passed <= h.passed
    PROVE  Total(h) \in Nat /\ Total(g) \in Nat /\ Total(g) <= Total(h)
<1> DEFINE n == NetworkScore(h)
           m == NetworkScore(g)
           s == SystemScore(h)
           t == SystemScore(g)
           r == ReadyScore(h)
           q == ReadyScore(g)
<1>1. n \in Nat /\ m \in Nat /\ m <= n
    BY NetworkFalls
<1>2. s \in Nat /\ t \in Nat /\ t <= s
  <2>1. /\ h.slowPlan \in 0..1 /\ h.fullDisk \in 0..1 /\ g.slowPlan \in 0..1 /\ g.fullDisk \in 0..1
      BY DEF HealthSound
  <2> QED
      BY <2>1 DEF SystemScore
<1>3. \/ r = NotMeasured /\ q = NotMeasured
      \/ r \in Nat /\ q \in Nat /\ q <= r
    BY ReadyFalls
<1>4. /\ Total(h) = Share(Added(Added(Added(NoPart, n, 40), s, 25), r, 20))
      /\ Total(g) = Share(Added(Added(Added(NoPart, m, 40), t, 25), q, 20))
    BY DEF Total
<1> HIDE DEF n, m, s, t, r, q
<1> DEFINE sum(a, b) == Added(Added(NoPart, a, 40), b, 25)
           k == sum(n, s)
           l == sum(m, t)
           x == n * 40 + s * 25
           y == m * 40 + t * 25
<1>5. ASSUME NEW a \in Nat, NEW b \in Nat
      PROVE  sum(a, b).points = a * 40 + b * 25 /\ sum(a, b).weight = 65
  <2> DEFINE first == Added(NoPart, a, 40)
  <2>1. first.points \in Nat /\ first.weight \in Nat /\ first.points = 0 + a * 40 /\ first.weight = 0 + 40
      BY NothingAdded DEF Added
  <2> HIDE DEF first
  <2>2. Added(first, b, 25).points = first.points + b * 25 /\ Added(first, b, 25).weight = first.weight + 25
      BY <2>1 DEF Added
  <2> QED
      BY <2>1, <2>2 DEF first
<1>6. x \in Nat /\ y \in Nat /\ y <= x
    BY <1>1, <1>2
<1>7. k.points = x /\ l.points = y /\ k.weight = 65 /\ l.weight = 65
    BY <1>1, <1>2, <1>5, Zenon
<1>a. Total(h) = Share(Added(k, r, 20)) /\ Total(g) = Share(Added(l, q, 20))
    BY <1>4
<1> HIDE DEF x, y, k, l, sum
<1>8. CASE r = NotMeasured /\ q = NotMeasured
  <2>1. Total(h) = x \div 65 /\ Total(g) = y \div 65
    <3>1. Total(h) = Share(k) /\ Total(g) = Share(l)
        BY <1>a, <1>8 DEF Added, NotMeasured
    <3> QED
        BY <1>7, <3>1 DEF Share
  <2> QED
      BY <1>6, <2>1, DivRises, DivNat, 65 \in Nat \ {0}
<1>9. CASE r \in Nat /\ q \in Nat /\ q <= r
  <2>1. Total(h) = (x + r * 20) \div 85 /\ Total(g) = (y + q * 20) \div 85
    <3>1. /\ Added(k, r, 20).points = x + r * 20 /\ Added(k, r, 20).weight = 65 + 20
          /\ Added(l, q, 20).points = y + q * 20 /\ Added(l, q, 20).weight = 65 + 20
        BY <1>6, <1>7, <1>9 DEF Added
    <3> QED
        BY <1>a, <3>1 DEF Share
  <2>2. x + r * 20 \in Nat /\ y + q * 20 \in Nat /\ y + q * 20 <= x + r * 20
      BY <1>6, <1>9
  <2> QED
      BY <2>1, <2>2, DivRises, DivNat, 85 \in Nat \ {0}
<1> QED
    BY <1>3, <1>8, <1>9

\* confidence: a measurement is sure enough only when it is whole and fresh,
\* and the measurement only gets shorter or older.
LEMMA ConfidenceOf ==
    ASSUME NEW h, HealthSound(h), NetworkScore(h) \in Nat
    PROVE  (Confidence(h) < 40) <=> ~(h.window = 60 /\ h.old = FALSE)
<1>1. ~(NetworkScore(h) < 0)
    OBVIOUS
<1>2. Confidence(h) = (Clamped((h.window * 100) \div 60) * (IF h.old THEN 20 ELSE 100)) \div 100
    BY <1>1 DEF Confidence
<1>3. h.window \in {20, 60} /\ h.old \in BOOLEAN
    BY DEF HealthSound
<1>4. CASE h.window = 20
  <2>1. Clamped((h.window * 100) \div 60) = 33
      BY <1>4 DEF Clamped
  <2> QED
      BY <1>2, <1>3, <1>4, <2>1
<1>5. CASE h.window = 60
  <2>1. Clamped((h.window * 100) \div 60) = 100
      BY <1>5 DEF Clamped
  <2>2. CASE h.old = TRUE
      BY <1>2, <1>5, <2>1, <2>2
  <2>3. CASE h.old = FALSE
      BY <1>2, <1>5, <2>1, <2>3
  <2> QED
      BY <1>3, <2>2, <2>3
<1> QED
    BY <1>3, <1>4, <1>5

\* The level of a greater total is not lower, and none is below critical.
LEMMA LevelRises ==
    ASSUME NEW s \in Int, NEW t \in Int, s <= t
    PROVE  LevelOf(s) \in 1..5 /\ LevelOf(t) \in 1..5 /\ LevelOf(s) <= LevelOf(t)
<1> DEFINE L == {30, 55, 75, 90}
           A == {l \in L : s < l}
           B == {l \in L : t < l}
<1>1. IsFiniteSet(L) /\ Cardinality(L) <= 4
  <2>1. PICK a, b, c, d : a = 30 /\ b = 55 /\ c = 75 /\ d = 90
      OBVIOUS
  <2>2. L = ((({} \cup {a}) \cup {b}) \cup {c}) \cup {d}
      BY <2>1
  <2>3. IsFiniteSet({}) /\ Cardinality({}) = 0
      BY FS_EmptySet
  <2>4. \A S, x : IsFiniteSet(S) => IsFiniteSet(S \cup {x}) /\ Cardinality(S \cup {x}) \in Nat
                                    /\ Cardinality(S \cup {x}) <= Cardinality(S) + 1
    <3> SUFFICES ASSUME NEW S, NEW x, IsFiniteSet(S)
                 PROVE  IsFiniteSet(S \cup {x}) /\ Cardinality(S \cup {x}) \in Nat
                        /\ Cardinality(S \cup {x}) <= Cardinality(S) + 1
        OBVIOUS
    <3>1. IsFiniteSet(S \cup {x}) /\ Cardinality(S) \in Nat
          /\ Cardinality(S \cup {x}) = IF x \in S THEN Cardinality(S) ELSE Cardinality(S) + 1
        BY FS_AddElement, FS_CardinalityType
    <3> QED
        BY <3>1
  <2> DEFINE P == {} \cup {a}
             Q == P \cup {b}
             R == Q \cup {c}
  <2>5. IsFiniteSet(P) /\ Cardinality(P) \in Nat /\ Cardinality(P) <= 1
    <3>1. Cardinality({} \cup {a}) <= Cardinality({}) + 1 /\ IsFiniteSet(P) /\ Cardinality(P) \in Nat
        BY <2>3, <2>4, Zenon
    <3> QED
        BY <2>3, <3>1
  <2> HIDE DEF P
  <2>6. IsFiniteSet(Q) /\ Cardinality(Q) \in Nat /\ Cardinality(Q) <= Cardinality(P) + 1
      BY <2>4, <2>5, Zenon
  <2> HIDE DEF Q
  <2>7. IsFiniteSet(R) /\ Cardinality(R) \in Nat /\ Cardinality(R) <= Cardinality(Q) + 1
      BY <2>4, <2>6, Zenon
  <2>8. L = R \cup {d}
      BY <2>2 DEF P, Q
  <2> HIDE DEF R, L
  <2>9. IsFiniteSet(L) /\ Cardinality(L) \in Nat /\ Cardinality(L) <= Cardinality(R) + 1
      BY <2>4, <2>7, <2>8, Zenon
  <2> QED
      BY <2>5, <2>6, <2>7, <2>9
<1>2. A \subseteq L /\ B \subseteq A
    OBVIOUS
<1>3. LevelOf(s) = 5 - Cardinality(A) /\ LevelOf(t) = 5 - Cardinality(B)
    BY DEF LevelOf
<1> HIDE DEF A, B, L
<1>4. IsFiniteSet(A) /\ Cardinality(A) <= Cardinality(L)
    BY <1>1, <1>2, FS_Subset
<1>5. Cardinality(B) <= Cardinality(A) /\ IsFiniteSet(B)
    BY <1>2, <1>4, FS_Subset
<1>6. Cardinality(A) \in Nat /\ Cardinality(B) \in Nat /\ Cardinality(L) \in Nat
    BY <1>1, <1>4, <1>5, FS_CardinalityType
<1> QED
    BY <1>1, <1>3, <1>4, <1>5, <1>6

\* compute, for readings of any size: when a measure that was there gets
\* worse, or the measurement, the level that is shown does not rise.
LEMMA LevelFalls ==
    ASSUME NEW h, HealthSound(h), NEW g, HealthSound(g), Worse(h, g),
           g.slowPlan >= h.slowPlan, g.fullDisk >= h.fullDisk,
           g.checks = h.checks, g.passed <= h.passed,
           g.window = h.window \/ g.window = 20, g.old = h.old \/ g.old = TRUE
    PROVE  Level(g) <= Level(h)
<1>1. NetworkScore(h) \in Nat /\ NetworkScore(g) \in Nat /\ NetworkScore(g) <= NetworkScore(h)
    BY NetworkFalls
<1>2. Total(h) \in Nat /\ Total(g) \in Nat /\ Total(g) <= Total(h)
    BY TotalFalls
<1>3. /\ LevelOf(Total(h)) \in 1..5 /\ LevelOf(Total(g)) \in 1..5
      /\ LevelOf(Total(g)) <= LevelOf(Total(h))
    BY <1>2, LevelRises
<1>4. ~(Confidence(g) < 40) => ~(Confidence(h) < 40)
  <2>1. /\ (Confidence(h) < 40) <=> ~(h.window = 60 /\ h.old = FALSE)
        /\ (Confidence(g) < 40) <=> ~(g.window = 60 /\ g.old = FALSE)
      BY <1>1, ConfidenceOf
  <2>2. 20 # 60
      OBVIOUS
  <2> QED
      BY <2>1, <2>2, Zenon
<1> DEFINE unsure(x) == Confidence(x) < 40
           bad(x) == NetworkScore(x) < 30
<1>5. /\ Level(h) = IF unsure(h) THEN 0 ELSE IF bad(h) THEN 1 ELSE LevelOf(Total(h))
      /\ Level(g) = IF unsure(g) THEN 0 ELSE IF bad(g) THEN 1 ELSE LevelOf(Total(g))
    BY DEF Level
<1>6. bad(h) => bad(g)
    BY <1>1
<1>7. ~unsure(g) => ~unsure(h)
    BY <1>4
<1> HIDE DEF unsure, bad
<1> DEFINE a == LevelOf(Total(h))
           b == LevelOf(Total(g))
<1>8. a \in 1..5 /\ b \in 1..5 /\ b <= a
    BY <1>3
<1> HIDE DEF a, b
<1>9. /\ Level(h) = IF unsure(h) THEN 0 ELSE IF bad(h) THEN 1 ELSE a
      /\ Level(g) = IF unsure(g) THEN 0 ELSE IF bad(g) THEN 1 ELSE b
    BY <1>5 DEF a, b
<1>10. CASE unsure(g)
  <2>1. Level(g) = 0
      BY <1>9, <1>10
  <2>2. Level(h) = 0 \/ Level(h) = 1 \/ Level(h) = a
      BY <1>9
  <2> QED
      BY <1>8, <2>1, <2>2
<1>11. CASE ~unsure(g) /\ bad(g)
  <2>1. Level(g) = 1
      BY <1>9, <1>11
  <2>2. Level(h) = 1 \/ Level(h) = a
      BY <1>7, <1>9, <1>11
  <2> QED
      BY <1>8, <2>1, <2>2
<1>12. CASE ~unsure(g) /\ ~bad(g)
  <2>1. Level(g) = b /\ Level(h) = a
      BY <1>6, <1>7, <1>9, <1>12
  <2> QED
      BY <1>8, <2>1
<1> QED
    BY <1>10, <1>11, <1>12

\* health_score.h: a measure that was there and gets worse does not raise the
\* level that is shown, whatever the readings are.
THEOREM HealthFalls == GradesSpec => HealthFallsWithItsParts
<1>1. ASSUME GradesIInv, [GradesNext]_gradesVars
      PROVE  [(/\ health'.ping >= health.ping /\ health'.jitter >= health.jitter
               /\ health'.loss >= health.loss /\ health'.dns >= health.dns
               /\ \A v \in {health.ping, health.jitter, health.loss, health.dns} : v >= 0
               /\ health'.slowPlan >= health.slowPlan /\ health'.fullDisk >= health.fullDisk
               /\ health'.checks = health.checks /\ health'.passed <= health.passed)
              => Level(health') <= Level(health)]_gradesVars
  <2> SUFFICES ASSUME /\ health'.ping >= health.ping /\ health'.jitter >= health.jitter
                      /\ health'.loss >= health.loss /\ health'.dns >= health.dns,
                      \A v \in {health.ping, health.jitter, health.loss, health.dns} : v >= 0,
                      /\ health'.slowPlan >= health.slowPlan /\ health'.fullDisk >= health.fullDisk
                      /\ health'.checks = health.checks /\ health'.passed <= health.passed
               PROVE  Level(health') <= Level(health)
      OBVIOUS
  <2>1. HealthSound(health) /\ HealthSound(health')
      BY <1>1, NextGrades DEF GradesIInv
  <2>2. HealthChanges \/ health' = health
      BY <1>1 DEF GradesNext, gradesVars
  <2>3. /\ health'.window = health.window \/ health'.window = 20
        /\ health'.old = health.old \/ health'.old = TRUE
      BY <2>1, <2>2, HealthChangesKeep
  <2>4. Worse(health, health')
    <3>1. /\ health.ping \in Readings /\ health.jitter \in Readings /\ health.dns \in Readings
        BY <2>1 DEF HealthSound
    <3>2. \A v \in Readings : v >= 0 => v > 0
        BY DEF Readings, NotMeasured
    <3>3. health.ping >= 0 /\ health.jitter >= 0 /\ health.loss >= 0 /\ health.dns >= 0
        OBVIOUS
    <3> QED
        BY <3>1, <3>2, <3>3 DEF Worse
  <2> QED
      BY <2>1, <2>3, <2>4, LevelFalls
<1> QED
    BY <1>1, AlwaysGrades, PTL DEF GradesSpec, HealthFallsWithItsParts

-----------------------------------------------------------------------------
(* A lost answer, a silent hop and a quiet channel.                        *)

\* estimate: a lost answer more leaves the answers as they are and makes the
\* server less available.
LEMMA LostAnswer ==
    ASSUME GradesIInv, NEW t,
           t = [samples |-> Append(server.samples, [at |-> server.now, latency |-> Lost]), now |-> server.now]
    PROVE  ServerConfidence(t) <= ServerConfidence(server)
<1> DEFINE Sample == [at : Nat, latency : Latencies \cup {Lost}]
           s == server.samples
           n == server.now
           x == [at |-> n, latency |-> Lost]
           u == Append(s, x)
           k == Len(s) + 1
           F == FreshSamples(server)
           G == FreshSamples(t)
<1>1. /\ s \in Seq(Sample) /\ n \in Nat /\ x \in Sample
      /\ Len(s) \in Nat /\ DOMAIN s = 1..Len(s)
      /\ \A i \in 1..Len(s) : s[i].at \in Nat
  <2>1. s \in Seq(Sample) /\ n \in Nat
      BY DEF GradesIInv
  <2>2. \A i \in 1..Len(s) : s[i] \in Sample
      BY <2>1, ElementOfSeq
  <2> QED
      BY <2>1, <2>2, LenProperties
<1>2. x.at = n /\ x.latency = Lost
    OBVIOUS
<1> HIDE DEF x
<1>3. /\ DOMAIN u = 1..k /\ u[k] = x /\ Len(u) = k
      /\ \A i \in 1..Len(s) : u[i] = s[i]
    BY <1>1, AppendProperties, LenProperties
<1>4. t.samples = u /\ t.now = n
    BY DEF x
<1> HIDE DEF u
<1>5. /\ F = {i \in 1..Len(s) : s[i].at <= n /\ n - s[i].at <= Window}
      /\ G = {i \in 1..k : u[i].at <= n /\ n - u[i].at <= Window}
    BY <1>1, <1>3, <1>4 DEF FreshSamples
<1>6. F \subseteq 1..Len(s) /\ k \notin F /\ k \in Nat
    BY <1>1, <1>5
<1>7. G = F \cup {k}
  <2>1. x.at <= n /\ n - x.at <= Window
      BY <1>1, <1>2, GradesAssumption
  <2>2. 1..k = 1..Len(s) \cup {k}
      BY <1>1
  <2> QED
      BY <1>3, <1>5, <2>1, <2>2
<1> HIDE DEF F, G
<1>8. Answers(t) = Answers(server)
  <2> DEFINE a == [i \in F |-> s[i].latency]
             b == [i \in G |-> u[i].latency]
  <2>1. Answers(server) = AnsweredOf(a) /\ Answers(t) = AnsweredOf(b)
      BY <1>4 DEF Answers, F, G
  <2>2. \A i \in F : i \in G /\ u[i] = s[i] /\ b[i] = a[i]
      BY <1>3, <1>6, <1>7
  <2>3. b[k] = Lost
      BY <1>2, <1>3, <1>7
  <2>4. DOMAIN a = F /\ DOMAIN b = G
      OBVIOUS
  <2> HIDE DEF a, b
  <2>5. {j \in DOMAIN b : b[j] # Lost} = {j \in DOMAIN a : a[j] # Lost}
      BY <1>7, <2>2, <2>3, <2>4
  <2> DEFINE D == {j \in DOMAIN a : a[j] # Lost}
  <2>6. \A i \in D : b[i] = a[i]
      BY <2>2, <2>4
  <2>7. AnsweredOf(a) = [i \in D |-> a[i]] /\ AnsweredOf(b) = [i \in D |-> b[i]]
      BY <2>5 DEF AnsweredOf
  <2> HIDE DEF D
  <2> QED
      BY <2>1, <2>6, <2>7
<1>9. /\ IsFiniteSet(F) /\ Cardinality(F) \in Nat
      /\ IsFiniteSet(G) /\ Cardinality(G) = Cardinality(F) + 1
  <2>1. \A a, b \in Int : IsFiniteSet(a..b)
      BY FS_Interval
  <2>2. 1 \in Int /\ Len(s) \in Int
      BY <1>1
  <2>3. IsFiniteSet(1..Len(s))
      BY <2>1, <2>2, Zenon
  <2>4. IsFiniteSet(F) /\ Cardinality(F) \in Nat
      BY <1>6, <2>3, FS_Subset, FS_CardinalityType
  <2> QED
      BY <1>6, <1>7, <2>4, FS_AddElement
<1> DEFINE ok == Answers(server)
           num == Number(ok)
<1>10. num \in Nat /\ (num # 0 => Cardinality(F) # 0)
  <2>1. DOMAIN ok \subseteq F
      BY DEF Answers, AnsweredOf, F
  <2>2. IsFiniteSet(DOMAIN ok) /\ Cardinality(DOMAIN ok) <= Cardinality(F)
      BY <1>9, <2>1, FS_Subset
  <2>3. Cardinality(DOMAIN ok) \in Nat
      BY <2>2, FS_CardinalityType
  <2> QED
      BY <1>9, <2>2, <2>3 DEF Number
<1> DEFINE c == Cardinality(F)
           a == (100 * num) \div c
           b == (100 * num) \div (c + 1)
<1>11. Availability(server) = a /\ Availability(t) = b
    BY <1>8, <1>9 DEF Availability, F, G
<1> DEFINE many == IF num >= ManySamples THEN 2 ELSE 1
           steady == IF 4 * Spread(ok) <= P50(ok) THEN 2
                     ELSE IF 10 * Spread(ok) <= 6 * P50(ok) THEN 1 ELSE 0
           there(v) == IF v >= 95 THEN 2 ELSE IF v >= 80 THEN 1 ELSE 0
           sure(v) == IF many + there(v) + steady >= 5 THEN 3
                      ELSE IF many + there(v) + steady >= 3 THEN 2 ELSE 1
<1>12. /\ ServerConfidence(server) = IF num = 0 THEN 0 ELSE IF num < MinSamples THEN 1 ELSE sure(a)
       /\ ServerConfidence(t) = IF num = 0 THEN 0 ELSE IF num < MinSamples THEN 1 ELSE sure(b)
    BY <1>8, <1>11 DEF ServerConfidence
<1>13. many \in Nat /\ steady \in Nat
    OBVIOUS
<1>14. CASE num = 0
    BY <1>12, <1>14
<1>15. CASE num # 0
  <2>1. 100 * num \in Nat /\ c \in Nat \ {0}
      BY <1>9, <1>10, <1>15
  <2>2. a \in Int /\ b \in Int /\ b <= a
    <3>1. c + 1 \in Nat \ {0}
        BY <2>1
    <3> DEFINE m == 100 * num
    <3> HIDE DEF c, m
    <3>2. m \div (c + 1) <= m \div c /\ m \div c \in Nat /\ m \div (c + 1) \in Nat
        BY <2>1, <3>1, DivFalls, DivNat DEF m
    <3> QED
        BY <3>2 DEF m
  <2> HIDE DEF a, b, many, steady
  <2>3. there(a) \in Nat /\ there(b) \in Nat /\ there(b) <= there(a)
      BY <2>2
  <2> HIDE DEF there
  <2>4. sure(a) \in Nat /\ sure(b) \in Nat /\ sure(b) <= sure(a)
      BY <1>13, <2>3
  <2> HIDE DEF sure
  <2> QED
      BY <1>12, <2>4
<1> QED
    BY <1>14, <1>15

\* server_confidence.h: a probe that is not answered never makes the program
\* surer of a server, whatever was measured before.
THEOREM FailureHelpsNothing == GradesSpec => FailureNeverRaisesConfidence
<1>1. ASSUME GradesIInv, [GradesNext]_gradesVars
      PROVE  [Len(server'.samples) > Len(server.samples)
               /\ server'.samples[Len(server'.samples)].latency = Lost
               => ServerConfidence(server') <= ServerConfidence(server)]_gradesVars
  <2> SUFFICES ASSUME Len(server'.samples) > Len(server.samples),
                      server'.samples[Len(server'.samples)].latency = Lost
               PROVE  ServerConfidence(server') <= ServerConfidence(server)
      OBVIOUS
  <2> DEFINE Sample == [at : Nat, latency : Latencies \cup {Lost}]
             s == server.samples
  <2>1. /\ server \in [samples : Seq(Sample), now : Nat] /\ s \in Seq(Sample) /\ server.now \in Nat
        /\ Len(s) \in Nat
      BY <1>1, LenProperties DEF GradesIInv
  <2>2. ServerProbed
    <3>1. ~(server'.samples = s)
        BY <2>1
    <3>2. ServerProbed \/ TimePassed \/ server' = server
        BY <1>1 DEF GradesNext, gradesVars
    <3>3. TimePassed => server'.samples = s
        BY <2>1 DEF TimePassed
    <3> QED
        BY <3>1, <3>2, <3>3
  <2>3. PICK l \in Latencies \cup {Lost} :
            server' = [server EXCEPT !.samples = Append(@, [at |-> server.now, latency |-> l])]
      BY <2>2 DEF ServerProbed
  <2> DEFINE x == [at |-> server.now, latency |-> l]
             u == Append(s, x)
  <2>4. server' = [samples |-> u, now |-> server.now]
      BY <2>1, <2>3
  <2>5. x \in Sample /\ x.latency = l
      BY <2>1
  <2> HIDE DEF x
  <2>6. Len(u) = Len(s) + 1 /\ u[Len(s) + 1] = x
      BY <2>1, <2>5, AppendProperties
  <2> HIDE DEF u
  <2>7. l = Lost
      BY <2>4, <2>5, <2>6
  <2>8. server' = [samples |-> Append(server.samples, [at |-> server.now, latency |-> Lost]),
                   now |-> server.now]
      BY <2>4, <2>7 DEF u, x
  <2> QED
      BY <1>1, <2>8, LostAnswer
<1> QED
    BY <1>1, AlwaysGrades, PTL DEF GradesSpec, FailureNeverRaisesConfidence

\* hopVerdict: a probe none of whose pings was answered is lost, and one lost
\* probe of two is a half.
THEOREM SilenceShows == GradesSpec => []SilenceIsSeen
<1>1. SilenceIsSeen
  <2> SUFFICES ASSUME NEW i \in 1..2, hop[i] = <<Lost, Lost>>
               PROVE  Verdict(ProbesOf(hop)) <= 2
      BY DEF SilenceIsSeen
  <2> DEFINE p == ProbesOf(hop)
             S == {j \in DOMAIN p : p[j] = Lost}
             c == Cardinality(S)
  <2>1. Number(AnsweredOf(hop[i])) = 0
    <3> DEFINE q == <<Lost, Lost>>
    <3>1. DOMAIN q = 1..2 /\ q[1] = Lost /\ q[2] = Lost
        OBVIOUS
    <3>2. {j \in DOMAIN q : q[j] # Lost} = {}
        BY <3>1
    <3> HIDE DEF q
    <3>3. DOMAIN AnsweredOf(q) = {}
        BY <3>2 DEF AnsweredOf
    <3>4. Number(AnsweredOf(q)) = 0
        BY <3>3, FS_EmptySet DEF Number
    <3> QED
        BY <3>4 DEF q
  <2>2. DOMAIN p = 1..2 /\ p[i] = Lost /\ Len(p) = 2
    <3>1. p = [j \in 1..2 |-> IF Number(AnsweredOf(hop[j])) = 0 THEN Lost ELSE Mean(AnsweredOf(hop[j]))]
        BY DEF ProbesOf
    <3> HIDE DEF p
    <3>2. DOMAIN p = 1..2 /\ p[i] = Lost
        BY <2>1, <3>1
    <3>3. Len(p) = 2
      <4>1. p \in [1..2 -> {p[1], p[2]}]
          BY <3>1
      <4>2. p \in Seq({p[1], p[2]})
          BY <4>1, SeqDef, 2 \in Nat
      <4>3. 1..Len(p) = 1..2 /\ Len(p) \in Nat
          BY <3>2, <4>2, LenProperties
      <4>4. 2 \in 1..Len(p) /\ ~(3 \in 1..Len(p))
          BY <4>3
      <4> DEFINE k == Len(p)
      <4>5. k \in Nat /\ 2 \in 1..k /\ ~(3 \in 1..k)
          BY <4>3, <4>4
      <4> HIDE DEF k
      <4>6. k = 2
          BY <4>5
      <4> QED
          BY <4>6 DEF k
    <3> QED
        BY <3>2, <3>3
  <2> HIDE DEF p
  <2>3. c \in Nat /\ c >= 1
    <3>1. \A a, b \in Int : IsFiniteSet(a..b)
        BY FS_Interval
    <3>2. 1 \in Int /\ 2 \in Int
        OBVIOUS
    <3>3. IsFiniteSet(1..2)
        BY <3>1, <3>2, Zenon
    <3>4. S \subseteq 1..2 /\ i \in S
        BY <2>2
    <3> HIDE DEF S
    <3>5. IsFiniteSet(S) /\ Cardinality(S) \in Nat
        BY <3>3, <3>4, FS_Subset, FS_CardinalityType
    <3>6. Cardinality(S) # 0
        BY <3>4, <3>5, FS_EmptySet
    <3> QED
        BY <3>5, <3>6
  <2>4. LossPercent(p) = (100 * c) \div 2
      BY <2>2 DEF LossPercent
  <2> HIDE DEF c
  <2>5. LossPercent(p) > 15
    <3>1. (100 * c) \div 2 = 50 * c
        BY <2>3
    <3> QED
        BY <2>3, <2>4, <3>1
  <2>6. Verdict(p) = 1 \/ Verdict(p) = 2
      BY <2>5 DEF Verdict
  <2> QED
      BY <2>6 DEF p
<1> QED
    BY <1>1, PTL

\* A channel has no weight exactly when no network is near it.
LEMMA QuietHasNoWeight ==
    ASSUME GradesIInv, NEW c \in {1, 6, 11}
    PROVE  /\ Cardinality(DisturbedBy(c)) \in Nat
           /\ Cardinality(DisturbedBy(c)) = 0 <=> \A n \in networks : Apart(c, n) > 2
<1> DEFINE W == DisturbedBy(c)
           most == 303
<1>1. \A n \in networks : n.channel \in 1..13 /\ n.strength \in 1..101
    BY GradesAssumption DEF GradesIInv, GradesTypeOK
<1>2. c \in 1..13
    OBVIOUS
<1>3. \A n \in networks : Apart(c, n) \in Nat
    BY <1>1, <1>2 DEF Apart
<1>4. \A n \in networks : Disturbance(c, n) \in Nat /\ Disturbance(c, n) <= 303
  <2> SUFFICES ASSUME NEW n \in networks
               PROVE  Disturbance(c, n) \in Nat /\ Disturbance(c, n) <= 303
      OBVIOUS
  <2> DEFINE d == Apart(c, n)
             e == n.strength
  <2>1. d \in Nat /\ e \in 1..101
      BY <1>1, <1>3
  <2>2. Disturbance(c, n) = IF d <= 2 THEN e * (3 - d) ELSE 0
      BY DEF Disturbance
  <2> HIDE DEF d, e
  <2>3. CASE d <= 2
    <3>1. d = 0 \/ d = 1 \/ d = 2
        BY <2>1, <2>3
    <3> QED
        BY <2>1, <2>2, <3>1
  <2>4. CASE ~(d <= 2)
      BY <2>2, <2>4
  <2> QED
      BY <2>3, <2>4
<1>5. \A n \in networks : (Disturbance(c, n) = 0) <=> (Apart(c, n) > 2)
  <2> SUFFICES ASSUME NEW n \in networks
               PROVE  (Disturbance(c, n) = 0) <=> (Apart(c, n) > 2)
      OBVIOUS
  <2> DEFINE d == Apart(c, n)
             e == n.strength
  <2>1. d \in Nat /\ e \in 1..101
      BY <1>1, <1>3
  <2>2. Disturbance(c, n) = IF d <= 2 THEN e * (3 - d) ELSE 0
      BY DEF Disturbance
  <2> HIDE DEF d, e
  <2>3. CASE d <= 2
    <3>1. d = 0 \/ d = 1 \/ d = 2
        BY <2>1, <2>3
    <3>2. e * (3 - d) > 0
        BY <2>1, <3>1
    <3> QED
        BY <2>1, <2>2, <2>3, <3>2 DEF d
  <2>4. CASE ~(d <= 2)
      BY <2>1, <2>2, <2>4 DEF d
  <2> QED
      BY <2>3, <2>4
<1>6. IsFiniteSet(W)
  <2>1. W \subseteq networks \X (1..most)
      BY <1>4 DEF DisturbedBy
  <2>2. \A a, b \in Int : IsFiniteSet(a..b)
      BY FS_Interval
  <2>3. 1 \in Int /\ most \in Int
      OBVIOUS
  <2> HIDE DEF most
  <2>4. IsFiniteSet(1..most)
      BY <2>2, <2>3, Zenon
  <2>5. IsFiniteSet(networks)
      BY DEF GradesIInv
  <2>6. IsFiniteSet(networks \X (1..most))
      BY <2>4, <2>5, FS_Product
  <2> HIDE DEF W
  <2> QED
      BY <2>1, <2>6, FS_Subset
<1>7. W = {} <=> \A n \in networks : Disturbance(c, n) = 0
  <2>1. ASSUME NEW n \in networks, Disturbance(c, n) # 0
        PROVE  W # {}
    <3>1. 1 \in 1..Disturbance(c, n)
        BY <1>4, <2>1
    <3>2. <<n, 1>> \in W
        BY <3>1 DEF DisturbedBy
    <3> QED
        BY <3>2
  <2>2. ASSUME \A n \in networks : Disturbance(c, n) = 0
        PROVE  W = {}
    <3>1. \A n \in networks : n \in networks => 1..Disturbance(c, n) = {}
        BY <2>2
    <3> QED
        BY <3>1 DEF DisturbedBy
  <2> QED
      BY <2>1, <2>2
<1> HIDE DEF W
<1>8. Cardinality(W) \in Nat /\ (Cardinality(W) = 0 <=> W = {})
    BY <1>6, FS_CardinalityType, FS_EmptySet
<1>9. Cardinality(W) = 0 <=> \A n \in networks : Apart(c, n) > 2
    BY <1>5, <1>7, <1>8
<1> QED
    BY <1>8, <1>9 DEF W

\* The least of some of the three channels is one of them.
LEMMA LeastChannel ==
    ASSUME NEW S \in SUBSET {1, 6, 11}, S # {}
    PROVE  Min(S) \in S
<1>1. \E x \in S : \A y \in S : x <= y
  <2>1. CASE 1 \in S
      BY <2>1
  <2>2. CASE 1 \notin S /\ 6 \in S
      BY <2>2
  <2>3. CASE 1 \notin S /\ 6 \notin S
    <3>1. \A y \in S : y = 11
        BY <2>3
    <3>2. \A y \in S : 11 <= y
        BY <3>1
    <3>3. 11 \in S
        BY <3>1, Zenon
    <3> QED
        BY <3>2, <3>3, Zenon
  <2> QED
      BY <2>1, <2>2, <2>3
<1> QED
    BY <1>1 DEF Min

\* bestChannel24: when one of the three channels is undisturbed, so is the
\* one that is advised, whatever networks are around.
THEOREM AdviceIsGood == GradesSpec => []AdviceIsQuiet
<1>1. ASSUME GradesIInv PROVE AdviceIsQuiet
  <2> SUFFICES ASSUME NEW c \in {1, 6, 11}, \A n \in networks : Apart(c, n) > 2
               PROVE  \A n \in networks : Apart(BestChannel, n) > 2
      BY DEF AdviceIsQuiet
  <2> DEFINE weight == [d \in {1, 6, 11} |-> Cardinality(DisturbedBy(d))]
             S == {b \in {1, 6, 11} : \A d \in {1, 6, 11} : weight[b] <= weight[d]}
  <2>1. \A d \in {1, 6, 11} : weight[d] \in Nat
      BY <1>1, QuietHasNoWeight
  <2>2. weight[c] = 0
      BY <1>1, QuietHasNoWeight
  <2>3. BestChannel = Min(S)
      BY DEF BestChannel
  <2>4. \A d \in {1, 6, 11} : weight[d] = Cardinality(DisturbedBy(d))
      OBVIOUS
  <2> HIDE DEF weight
  <2>5. c \in S
      BY <2>1, <2>2
  <2>6. S \in SUBSET {1, 6, 11}
      OBVIOUS
  <2> DEFINE b == BestChannel
  <2>7. b \in S
    <3> HIDE DEF S, b
    <3>1. Min(S) \in S
        BY <2>5, <2>6, LeastChannel
    <3> QED
        BY <2>3, <3>1 DEF b
  <2>8. b \in {1, 6, 11} /\ weight[b] <= weight[c]
      BY <2>7
  <2> HIDE DEF b, S
  <2>9. weight[b] = 0
      BY <2>1, <2>2, <2>8
  <2>10. \A n \in networks : Apart(b, n) > 2
    <3>1. Cardinality(DisturbedBy(b)) = 0
        BY <2>4, <2>8, <2>9
    <3> QED
        BY <1>1, <2>8, <3>1, QuietHasNoWeight
  <2> QED
      BY <2>10 DEF b
<1> QED
    BY <1>1, AlwaysGrades, PTL

\* The grades keep the order of what is measured, for all readings, samples,
\* estimates and networks.
THEOREM OrderIsKept == GradesSpec => GradesKeepTheOrder
BY GradesFall, HealthFalls, FailureHelpsNothing, BetterIsAnOrder, SilenceShows, AdviceIsGood, PTL
   DEF GradesKeepTheOrder

-----------------------------------------------------------------------------
(* All of them together, as the run checks them: a step of one component   *)
(* leaves the others as they are, so that a behaviour of the whole is one  *)
(* of every component.                                                     *)

LEMMA InitWatching ==
    ASSUME WatchingInit
    PROVE  /\ LifecycleInit /\ MonitoringInit /\ MultipathInit /\ StatisticsInit /\ GradesInit /\ Init
           /\ under \in Parts /\ awaited \in Callers
BY DEF WatchingInit, LifecycleRests, StatisticsRests, GradesRests

LEMMA NextWatching ==
    ASSUME [WatchingNext]_watchingVars
    PROVE  /\ [LifecycleNext]_lifecycleVars /\ [MonitoringNext]_monitoringVars
           /\ [MultipathNext]_multipathVars /\ [StatisticsNext]_statisticsVars
           /\ [GradesNext]_gradesVars /\ [Next]_vars
           /\ UNCHANGED <<under, awaited>>
<1>1. CASE LifecycleNext /\ UNCHANGED BesideThreads
    BY <1>1 DEF BesideThreads
<1>2. CASE MonitoringNext /\ UNCHANGED BesideService
    BY <1>2 DEF BesideService
<1>3. CASE MultipathNext /\ UNCHANGED BesidePaths
    BY <1>3 DEF BesidePaths
<1>4. CASE StatisticsNext /\ UNCHANGED BesideNumbers
    BY <1>4 DEF BesideNumbers
<1>5. CASE GradesNext /\ UNCHANGED BesideGrades
    BY <1>5 DEF BesideGrades
<1>6. CASE Next /\ UNCHANGED BesideJournal
    BY <1>6 DEF BesideJournal
<1>7. CASE UNCHANGED watchingVars
    BY <1>7 DEF watchingVars
<1> QED
    BY <1>1, <1>2, <1>3, <1>4, <1>5, <1>6, <1>7 DEF WatchingNext

LEMMA PartsBehave ==
    WatchingSpec =>
        /\ LifecycleSpec /\ MonitoringSpec /\ MultipathSpec
        /\ StatisticsSpec /\ GradesSpec /\ Spec
<1>1. WatchingInit => /\ LifecycleInit /\ MonitoringInit /\ MultipathInit
                      /\ StatisticsInit /\ GradesInit /\ Init
    BY InitWatching
<1>2. [WatchingNext]_watchingVars =>
          /\ [LifecycleNext]_lifecycleVars /\ [MonitoringNext]_monitoringVars
          /\ [MultipathNext]_multipathVars /\ [StatisticsNext]_statisticsVars
          /\ [GradesNext]_gradesVars /\ [Next]_vars
    BY NextWatching
<1> QED
    BY <1>1, <1>2, PTL DEF WatchingSpec, LifecycleSpec, MonitoringSpec, MultipathSpec,
       StatisticsSpec, GradesSpec, Spec

\* Every variable of the components has its type, in every behaviour of all
\* of them and for every value of the constants.
THEOREM WatchingTypeCorrect == WatchingSpec => []WatchingTypeOK
<1>1. WatchingInit => under \in Parts /\ awaited \in Callers
    BY InitWatching
<1>2. under \in Parts /\ awaited \in Callers /\ [WatchingNext]_watchingVars
        => (under \in Parts /\ awaited \in Callers)'
    BY NextWatching
<1>3. WatchingSpec => [](under \in Parts /\ awaited \in Callers)
    BY <1>1, <1>2, PTL DEF WatchingSpec
<1>4. /\ LifecycleIInv => LifecycleTypeOK
      /\ MonitoringIInv => MonitoringTypeOK
      /\ MultipathIInv => MultipathTypeOK
      /\ GradesIInv => GradesTypeOK
    BY DEF LifecycleIInv, MonitoringIInv, MultipathIInv, GradesIInv
<1> QED
    BY <1>3, <1>4, PartsBehave, AlwaysLifecycle, AlwaysMonitoring, AlwaysMultipath, AlwaysGrades,
       StatisticsTypeCorrect, TypeCorrect, PTL DEF WatchingTypeOK

\* What the components promise each by itself holds of all of them together.
THEOREM WatchingKeepsItsPromises ==
    WatchingSpec =>
        /\ [](ThreadsAreOwned /\ HistoryIsOfTheGames /\ NumbersAreOfTheirWindow /\ SavedStaysSaved)
        /\ PathsAreJudged /\ GradesKeepTheOrder /\ KeepsOrLoses
BY PartsBehave, LifecycleOwned, HistoryOfTheGames, NumbersOfTheirWindow, RecordStays,
   PathsJudged, OrderIsKept, JournalKeepsOrLoses, PTL

-----------------------------------------------------------------------------
(* Whoever waits comes back.                                               *)

\* The worker has ended, or has been told to.
Told(w) == workerAt[w] = "done" \/ (workerAt[w] # "none" /\ w \in cancelled)

\* The handle is that of the last run, and nobody has begun a later one.
HandleIsOfTheRun ==
    /\ handle # NoWorker => handle = source /\ workerAt[handle] # "none"
    /\ \A w \in Workers : w > source => workerAt[w] = "none"

\* Nobody joins a worker that goes on: stop() that has taken a handle cancels
\* the run first, and start() joins what has ended.
JoinsAreShort ==
    \A c \in Callers :
        /\ callerAt[c] \in {"start-joining", "joining"} => taken[c] # NoWorker
        /\ taken[c] # NoWorker => workerAt[taken[c]] # "none"
        /\ callerAt[c] = "start-joining" => workerAt[taken[c]] = "done"
        /\ callerAt[c] = "cancelling" /\ taken[c] # NoWorker => Told(taken[c]) \/ copied[c] = taken[c]
        /\ callerAt[c] \in {"notifying", "joining"} /\ taken[c] # NoWorker => Told(taken[c])

JoinInv == LifecycleIInv /\ HandleIsOfTheRun /\ JoinsAreShort

LEMMA InitJoin == LifecycleInit => JoinInv
<1>1. LifecycleInit => HandleIsOfTheRun /\ JoinsAreShort
    BY DEF LifecycleInit, HandleIsOfTheRun, JoinsAreShort
<1> QED
    BY <1>1, InitLifecycle DEF JoinInv

\* A worker goes its way: it is not created again, and what it was told stays.
WorkersGoTheirWay ==
    \A w \in Workers :
        /\ workerAt[w] # "none" => workerAt'[w] # "none"
        /\ workerAt[w] = "done" => workerAt'[w] = "done"
        /\ w \in cancelled => w \in cancelled'

LEMMA ToldStays ==
    ASSUME WorkersGoTheirWay, NEW w \in Workers, Told(w)
    PROVE  Told(w)'
BY DEF WorkersGoTheirWay, Told

\* What the others hold and wait for is not disturbed by a step of c.
LEMMA OthersKeepJoining ==
    ASSUME LifecycleTypeOK, JoinsAreShort, WorkersGoTheirWay, NEW c \in Callers,
           \A d \in Callers \ {c} : callerAt'[d] = callerAt[d] /\ taken'[d] = taken[d] /\ copied'[d] = copied[d],
           /\ callerAt'[c] \in {"start-joining", "joining"} => taken'[c] # NoWorker
           /\ taken'[c] # NoWorker => workerAt'[taken'[c]] # "none"
           /\ callerAt'[c] = "start-joining" => workerAt'[taken'[c]] = "done"
           /\ callerAt'[c] = "cancelling" /\ taken'[c] # NoWorker => Told(taken[c])' \/ copied'[c] = taken'[c]
           /\ callerAt'[c] \in {"notifying", "joining"} /\ taken'[c] # NoWorker => Told(taken[c])'
    PROVE  JoinsAreShort'
<1> SUFFICES ASSUME NEW d \in Callers \ {c}
             PROVE  /\ callerAt'[d] \in {"start-joining", "joining"} => taken'[d] # NoWorker
                    /\ taken'[d] # NoWorker => workerAt'[taken'[d]] # "none"
                    /\ callerAt'[d] = "start-joining" => workerAt'[taken'[d]] = "done"
                    /\ callerAt'[d] = "cancelling" /\ taken'[d] # NoWorker => Told(taken[d])' \/ copied'[d] = taken'[d]
                    /\ callerAt'[d] \in {"notifying", "joining"} /\ taken'[d] # NoWorker => Told(taken[d])'
    BY DEF JoinsAreShort
<1>1. callerAt'[d] = callerAt[d] /\ taken'[d] = taken[d] /\ copied'[d] = copied[d]
    OBVIOUS
<1>2. taken[d] # NoWorker => taken[d] \in Workers
    BY DEF LifecycleTypeOK
<1>3. /\ callerAt[d] \in {"start-joining", "joining"} => taken[d] # NoWorker
      /\ taken[d] # NoWorker => workerAt[taken[d]] # "none"
      /\ callerAt[d] = "start-joining" => workerAt[taken[d]] = "done"
      /\ callerAt[d] = "cancelling" /\ taken[d] # NoWorker => Told(taken[d]) \/ copied[d] = taken[d]
      /\ callerAt[d] \in {"notifying", "joining"} /\ taken[d] # NoWorker => Told(taken[d])
    BY DEF JoinsAreShort
<1>4. taken[d] # NoWorker /\ Told(taken[d]) => Told(taken[d])'
    BY <1>1, <1>2 DEF WorkersGoTheirWay, Told
<1>5. taken[d] # NoWorker =>
        /\ workerAt[taken[d]] # "none" => workerAt'[taken[d]] # "none"
        /\ workerAt[taken[d]] = "done" => workerAt'[taken[d]] = "done"
    BY <1>2 DEF WorkersGoTheirWay
<1> QED
    BY <1>1, <1>3, <1>4, <1>5

LEMMA StartJoins ==
    ASSUME JoinInv, NEW c \in Callers, StartBegin(c) \/ StartJoined(c) \/ StartRun(c)
    PROVE  HandleIsOfTheRun' /\ JoinsAreShort'
<1>1. LifecycleTypeOK /\ NewestIsAlive /\ HandleIsOfTheRun /\ JoinsAreShort /\ NothingForgotten
    BY DEF JoinInv, LifecycleIInv
<1>2. \A d \in Callers \ {c} : callerAt'[d] = callerAt[d] /\ taken'[d] = taken[d] /\ copied'[d] = copied[d]
    BY <1>1 DEF StartBegin, StartJoined, StartRun, Arrive, LifecycleTypeOK
<1>3. CASE StartBegin(c)
  <2>1. UNCHANGED <<workerAt, source, cancelled, copied>> /\ handle' = NoWorker /\ taken'[c] = handle
      BY <1>1, <1>3 DEF StartBegin, LifecycleTypeOK
  <2>2. callerAt'[c] = IF handle = NoWorker THEN "starting" ELSE "start-joining"
      BY <1>1, <1>3 DEF StartBegin, Arrive, LifecycleTypeOK
  <2>3. handle # NoWorker => handle \in Workers /\ workerAt[handle] = "done"
    <3>1. Alive = {}
        BY <1>1, <1>3 DEF StartBegin, NewestIsAlive
    <3> QED
        BY <1>1, <3>1 DEF HandleIsOfTheRun, Alive, LifecycleTypeOK
  <2>4. HandleIsOfTheRun' /\ WorkersGoTheirWay
      BY <1>1, <2>1 DEF HandleIsOfTheRun, WorkersGoTheirWay
  <2> QED
      BY <1>1, <1>2, <2>1, <2>2, <2>3, <2>4, OthersKeepJoining
<1>4. CASE StartJoined(c)
  <2>1. UNCHANGED <<workerAt, source, cancelled, copied, handle>> /\ taken'[c] = NoWorker
      BY <1>1, <1>4 DEF StartJoined, LifecycleTypeOK
  <2>2. callerAt'[c] = "starting"
      BY <1>1, <1>4 DEF StartJoined, Arrive, LifecycleTypeOK
  <2>3. HandleIsOfTheRun' /\ WorkersGoTheirWay
      BY <1>1, <2>1 DEF HandleIsOfTheRun, WorkersGoTheirWay
  <2> QED
      BY <1>1, <1>2, <2>1, <2>2, <2>3, OthersKeepJoining
<1>5. CASE StartRun(c)
  <2>1. callerAt'[c] = "idle" /\ taken'[c] = NoWorker /\ UNCHANGED <<cancelled, taken, copied>>
      BY <1>1, <1>5 DEF StartRun, Arrive, LifecycleTypeOK, NothingForgotten
  <2>2. HandleIsOfTheRun' /\ WorkersGoTheirWay
    <3>1. CASE UNCHANGED <<life, handle, source, workerAt, terminated>>
        BY <1>1, <2>1, <3>1 DEF HandleIsOfTheRun, WorkersGoTheirWay
    <3>2. CASE source' = source + 1 /\ handle' = source + 1 /\ WorkerGoes(source + 1, "top")
      <4>1. c \in Starting
          BY <1>5 DEF StartRun, Starting
      <4>2. source + 1 \in Workers /\ source \in Nat
          BY <1>1, <4>1, NumberIsFree, RunsCounted DEF JoinInv, LifecycleIInv
      <4>3. workerAt[source + 1] = "none"
          BY <1>1, <4>2 DEF HandleIsOfTheRun
      <4>4. workerAt' = [workerAt EXCEPT ![source + 1] = "top"] /\ workerAt \in [Workers -> WorkerPlaces]
          BY <1>1, <3>2 DEF WorkerGoes, LifecycleTypeOK
      <4>5. workerAt'[source + 1] = "top" /\ \A w \in Workers : w # source + 1 => workerAt'[w] = workerAt[w]
          BY <4>2, <4>4
      <4>6. \A w \in Workers : w > source + 1 => w > source /\ w # source + 1
          BY <4>2 DEF Workers
      <4>7. HandleIsOfTheRun'
          BY <1>1, <3>2, <4>5, <4>6 DEF HandleIsOfTheRun
      <4>8. WorkersGoTheirWay
          BY <2>1, <4>3, <4>5 DEF WorkersGoTheirWay
      <4> QED
          BY <4>7, <4>8
    <3> QED
        BY <1>5, <3>1, <3>2 DEF StartRun
  <2> QED
      BY <1>1, <1>2, <2>1, <2>2, OthersKeepJoining
<1> QED
    BY <1>3, <1>4, <1>5

LEMMA StopCallJoins ==
    ASSUME JoinInv, NEW c \in Callers, StopBegin(c) \/ StopCancel(c) \/ StopNotify(c) \/ StopJoined(c)
    PROVE  HandleIsOfTheRun' /\ JoinsAreShort'
<1>1. LifecycleTypeOK /\ NewestIsAlive /\ HandleIsOfTheRun /\ JoinsAreShort /\ NothingForgotten
    BY DEF JoinInv, LifecycleIInv
<1>2. \A d \in Callers \ {c} : callerAt'[d] = callerAt[d] /\ taken'[d] = taken[d] /\ copied'[d] = copied[d]
    BY <1>1 DEF StopBegin, StopCancel, StopNotify, StopJoined, Arrive, LifecycleTypeOK
<1>3. CASE StopBegin(c)
  <2>1. /\ UNCHANGED <<workerAt, source, cancelled>> /\ handle' = NoWorker /\ taken'[c] = handle
        /\ copied'[c] = IF life = "Stopped" THEN 0 ELSE source
        /\ callerAt'[c] = "cancelling"
      BY <1>1, <1>3 DEF StopBegin, Arrive, LifecycleTypeOK
  <2>2. HandleIsOfTheRun' /\ WorkersGoTheirWay
      BY <1>1, <2>1 DEF HandleIsOfTheRun, WorkersGoTheirWay
  <2>3. handle # NoWorker => handle \in Workers /\ handle = source /\ workerAt[handle] # "none"
      BY <1>1 DEF HandleIsOfTheRun, LifecycleTypeOK
  <2>4. life = "Stopped" /\ handle # NoWorker => workerAt[handle] = "done"
      BY <1>1, <2>3 DEF NewestIsAlive, Alive
  <2>5. taken'[c] # NoWorker => Told(taken[c])' \/ copied'[c] = taken'[c]
      BY <2>1, <2>3, <2>4 DEF Told
  <2> QED
      BY <1>1, <1>2, <2>1, <2>2, <2>3, <2>5, OthersKeepJoining
<1>4. CASE StopCancel(c)
  <2>1. /\ UNCHANGED <<workerAt, source, handle, taken, copied>>
        /\ cancelled' = cancelled \cup ({copied[c]} \cap Workers)
        /\ callerAt[c] = "cancelling" /\ callerAt'[c] = "notifying"
      BY <1>1, <1>4 DEF StopCancel, Arrive, LifecycleTypeOK
  <2>2. HandleIsOfTheRun' /\ WorkersGoTheirWay
      BY <1>1, <2>1 DEF HandleIsOfTheRun, WorkersGoTheirWay
  <2>3. taken[c] # NoWorker => taken[c] \in Workers /\ workerAt[taken[c]] # "none"
      BY <1>1 DEF JoinsAreShort, LifecycleTypeOK
  <2>4. taken[c] # NoWorker => Told(taken[c]) \/ copied[c] = taken[c]
      BY <1>1, <2>1 DEF JoinsAreShort
  <2>5. taken'[c] # NoWorker => Told(taken[c])'
      BY <2>1, <2>3, <2>4 DEF Told
  <2> QED
      BY <1>1, <1>2, <2>1, <2>2, <2>3, <2>5, OthersKeepJoining
<1>5. CASE StopNotify(c)
  <2>1. /\ UNCHANGED <<source, handle, taken, cancelled>> /\ workerAt' = Notified
        /\ callerAt[c] = "notifying"
        /\ callerAt'[c] = IF taken[c] = NoWorker THEN "idle" ELSE "joining"
      BY <1>1, <1>5 DEF StopNotify, Arrive, LifecycleTypeOK
  <2>2. WorkersGoTheirWay /\ \A w \in Workers : workerAt'[w] = "none" <=> workerAt[w] = "none"
      BY <1>1, <2>1 DEF WorkersGoTheirWay, Notified
  <2>3. HandleIsOfTheRun'
      BY <1>1, <2>1, <2>2 DEF HandleIsOfTheRun, LifecycleTypeOK
  <2>4. taken[c] # NoWorker => taken[c] \in Workers /\ workerAt[taken[c]] # "none" /\ Told(taken[c])
      BY <1>1, <2>1 DEF JoinsAreShort, LifecycleTypeOK
  <2>5. taken'[c] # NoWorker => Told(taken[c])' /\ workerAt'[taken'[c]] # "none"
      BY <2>1, <2>2, <2>4 DEF WorkersGoTheirWay, Told
  <2> QED
      BY <1>1, <1>2, <2>1, <2>2, <2>3, <2>5, OthersKeepJoining
<1>6. CASE StopJoined(c)
  <2>1. /\ UNCHANGED <<workerAt, source, cancelled, handle, copied>> /\ taken'[c] = NoWorker
        /\ callerAt'[c] = "idle"
      BY <1>1, <1>6 DEF StopJoined, Arrive, LifecycleTypeOK
  <2>2. HandleIsOfTheRun' /\ WorkersGoTheirWay
      BY <1>1, <2>1 DEF HandleIsOfTheRun, WorkersGoTheirWay
  <2> QED
      BY <1>1, <1>2, <2>1, <2>2, OthersKeepJoining
<1> QED
    BY <1>3, <1>4, <1>5, <1>6

LEMMA WorkerJoins ==
    ASSUME JoinInv, NEW w \in Workers, WorkerStep(w)
    PROVE  HandleIsOfTheRun' /\ JoinsAreShort'
<1>1. LifecycleTypeOK /\ NewestIsAlive /\ HandleIsOfTheRun /\ JoinsAreShort
    BY DEF JoinInv, LifecycleIInv
<1>2. UNCHANGED <<handle, source, callerAt, taken, copied>> /\ workerAt[w] \notin {"none", "done"}
    BY DEF WorkerStep, Finish, callerVars, Look, Waits, Wakes, Callback
<1>3. \E p \in WorkerPlaces \ {"none"} : WorkerGoes(w, p)
    BY DEF WorkerStep, Look, Waits, Wakes, Callback, Finish, WorkerPlaces
<1>4. cancelled \subseteq cancelled'
    BY DEF WorkerStep, Callback, Finish
<1>5. \A v \in Workers : workerAt'[v] = "none" <=> workerAt[v] = "none"
    BY <1>1, <1>2, <1>3 DEF WorkerGoes, LifecycleTypeOK
<1>6. WorkersGoTheirWay
    BY <1>1, <1>2, <1>3, <1>4 DEF WorkersGoTheirWay, WorkerGoes, LifecycleTypeOK
<1>7. HandleIsOfTheRun'
    BY <1>1, <1>2, <1>5 DEF HandleIsOfTheRun, LifecycleTypeOK
<1>8. JoinsAreShort'
  <2> SUFFICES ASSUME NEW c \in Callers
               PROVE  /\ callerAt[c] \in {"start-joining", "joining"} => taken[c] # NoWorker
                      /\ taken[c] # NoWorker => workerAt'[taken[c]] # "none"
                      /\ callerAt[c] = "start-joining" => workerAt'[taken[c]] = "done"
                      /\ callerAt[c] = "cancelling" /\ taken[c] # NoWorker =>
                            Told(taken[c])' \/ copied[c] = taken[c]
                      /\ callerAt[c] \in {"notifying", "joining"} /\ taken[c] # NoWorker => Told(taken[c])'
      BY <1>2 DEF JoinsAreShort
  <2>1. taken[c] # NoWorker => taken[c] \in Workers
      BY <1>1 DEF LifecycleTypeOK
  <2>2. taken[c] # NoWorker =>
          /\ workerAt[taken[c]] # "none" => workerAt'[taken[c]] # "none"
          /\ workerAt[taken[c]] = "done" => workerAt'[taken[c]] = "done"
          /\ Told(taken[c]) => Told(taken[c])'
      BY <1>2, <1>6, <2>1 DEF WorkersGoTheirWay, Told
  <2> QED
      BY <1>1, <2>2 DEF JoinsAreShort
<1> QED
    BY <1>7, <1>8

LEMMA NextJoin == JoinInv /\ [LifecycleNext]_lifecycleVars => JoinInv'
<1> SUFFICES ASSUME JoinInv, [LifecycleNext]_lifecycleVars PROVE HandleIsOfTheRun' /\ JoinsAreShort'
    BY NextLifecycle DEF JoinInv
<1>1. CASE UNCHANGED lifecycleVars
    BY <1>1 DEF JoinInv, HandleIsOfTheRun, JoinsAreShort, Told, lifecycleVars, callerVars
<1>2. ASSUME NEW c \in use.starters, StartBegin(c) PROVE HandleIsOfTheRun' /\ JoinsAreShort'
    BY <1>2, Starter, StartJoins DEF JoinInv, LifecycleIInv
<1>3. ASSUME NEW c \in Callers, StopBegin(c) \/ CallerStep(c) PROVE HandleIsOfTheRun' /\ JoinsAreShort'
    BY <1>3, StartJoins, StopCallJoins DEF CallerStep
<1>4. ASSUME NEW w \in Workers, WorkerStep(w) PROVE HandleIsOfTheRun' /\ JoinsAreShort'
    BY <1>4, WorkerJoins
<1> QED
    BY <1>1, <1>2, <1>3, <1>4 DEF LifecycleNext

LEMMA AlwaysJoin == LifecycleSpec => []JoinInv
BY InitJoin, NextJoin, PTL DEF LifecycleSpec

\* A caller that joins a worker, which has been told to stop, and how many
\* steps the worker has left.
Joins(c, w) == under = "threads" /\ callerAt[c] = "joining" /\ taken[c] = w /\ Told(w)
Ended(c, w) == Joins(c, w) /\ workerAt[w] = "done"
Ends1(c, w) == Joins(c, w) /\ workerAt[w] = "finishing"
Ends2(c, w) == Joins(c, w) /\ workerAt[w] \in {"top", "probing", "called"}
Ends3(c, w) == Joins(c, w) /\ workerAt[w] \in {"calling", "asleep"}
Ends4(c, w) == Joins(c, w) /\ workerAt[w] = "waiting"

\* A caller that is in a call is moved on by nobody but itself.
LEMMA OnlyItself ==
    ASSUME JoinInv, NEW c \in Callers, callerAt[c] # "idle", [LifecycleNext]_lifecycleVars
    PROVE  CallerStep(c) \/ (callerAt'[c] = callerAt[c] /\ taken'[c] = taken[c])
<1>1. LifecycleTypeOK
    BY DEF JoinInv, LifecycleIInv
<1>2. ASSUME NEW d \in Callers, StartBegin(d) \/ StopBegin(d)
      PROVE  callerAt'[c] = callerAt[c] /\ taken'[c] = taken[c]
    BY <1>1, <1>2 DEF StartBegin, StopBegin, Arrive, LifecycleTypeOK
<1>3. ASSUME NEW d \in Callers, d # c, CallerStep(d)
      PROVE  callerAt'[c] = callerAt[c] /\ taken'[c] = taken[c]
    BY <1>1, <1>3 DEF CallerStep, StartJoined, StartRun, StopCancel, StopNotify, StopJoined, Arrive,
       LifecycleTypeOK
<1>4. ASSUME NEW w \in Workers, WorkerStep(w)
      PROVE  callerAt'[c] = callerAt[c] /\ taken'[c] = taken[c]
    BY <1>4 DEF WorkerStep, Finish, callerVars
<1>5. CASE UNCHANGED lifecycleVars
    BY <1>5 DEF lifecycleVars, callerVars
<1>6. \A d \in use.starters : d \in Callers
    BY <1>1, Starter
<1> QED
    BY <1>2, <1>3, <1>4, <1>5, <1>6 DEF LifecycleNext

\* A worker that was told to stop is moved on by itself or by a signal, and
\* each time it comes nearer to its end.
Nearer(w) ==
    \/ workerAt[w] = "waiting" /\ workerAt'[w] = "asleep"
    \/ workerAt[w] \in {"calling", "asleep"} /\ workerAt'[w] \in {"called", "top"}
    \/ workerAt[w] \in {"top", "probing", "called"} /\ workerAt'[w] = "finishing"
    \/ workerAt[w] = "finishing" /\ workerAt'[w] = "done"

LEMMA WorkerComesNearer ==
    ASSUME LifecycleTypeOK, NEW w \in Workers, w \in cancelled, WorkerStep(w)
    PROVE  Nearer(w)
<1>1. CASE Look(w)
    BY <1>1 DEF Look, WorkerGoes, LifecycleTypeOK, Nearer
<1>2. CASE Callback(w)
    BY <1>2 DEF Callback, WorkerGoes, LifecycleTypeOK, Nearer
<1>3. CASE Waits(w)
    BY <1>3 DEF Waits, WorkerGoes, LifecycleTypeOK, Nearer
<1>4. CASE Wakes(w)
    BY <1>4 DEF Wakes, WorkerGoes, LifecycleTypeOK, Nearer
<1>5. CASE Finish(w)
    BY <1>5 DEF Finish, WorkerGoes, LifecycleTypeOK, Nearer
<1> QED
    BY <1>1, <1>2, <1>3, <1>4, <1>5 DEF WorkerStep

\* Nobody sends such a worker back, and nobody takes back what it was told.
LEMMA WorkerStaysOrComesNearer ==
    ASSUME JoinInv, NEW w \in Workers, Told(w), [LifecycleNext]_lifecycleVars
    PROVE  Told(w)' /\ (workerAt'[w] = workerAt[w] \/ Nearer(w))
<1>1. LifecycleTypeOK /\ HandleIsOfTheRun /\ RunsAreBounded
    BY DEF JoinInv, LifecycleIInv
<1> DEFINE Fine == cancelled \subseteq cancelled' /\ (workerAt'[w] = workerAt[w] \/ Nearer(w))
<1>2. ASSUME UNCHANGED lifecycleVars PROVE Fine
    BY <1>2 DEF lifecycleVars
<1>3. ASSUME NEW c \in use.starters, StartBegin(c) PROVE Fine
    BY <1>3 DEF StartBegin
<1>4. ASSUME NEW c \in Callers, StopBegin(c) PROVE Fine
    BY <1>4 DEF StopBegin
<1>5. ASSUME NEW c \in Callers, CallerStep(c) PROVE Fine
  <2>1. CASE StartRun(c)
    <3>1. CASE WorkerGoes(source + 1, "top")
      <4>1. source + 1 \in Workers /\ source \in Nat
          BY <1>1, <2>1, NumberIsFree, RunsCounted DEF StartRun, Starting
      <4>2. w # source + 1
          BY <1>1, <4>1 DEF HandleIsOfTheRun, Told
      <4> QED
          BY <1>1, <2>1, <3>1, <4>2 DEF WorkerGoes, LifecycleTypeOK, StartRun
    <3> QED
        BY <2>1, <3>1 DEF StartRun
  <2>2. CASE StopNotify(c)
      BY <1>1, <2>2 DEF StopNotify, Notified, LifecycleTypeOK, Nearer
  <2>3. CASE StartJoined(c) \/ StopCancel(c) \/ StopJoined(c)
      BY <2>3 DEF StartJoined, StopCancel, StopJoined
  <2> QED
      BY <1>5, <2>1, <2>2, <2>3 DEF CallerStep
<1>6. ASSUME NEW v \in Workers, WorkerStep(v) PROVE Fine
  <2>1. cancelled \subseteq cancelled'
      BY <1>6 DEF WorkerStep, Callback, Finish
  <2>2. CASE v = w
    <3>1. w \in cancelled
        BY <1>6, <2>2 DEF WorkerStep, Look, Callback, Waits, Wakes, Finish, Told
    <3> QED
        BY <1>1, <1>6, <2>1, <2>2, <3>1, WorkerComesNearer
  <2>3. CASE v # w
      BY <1>1, <1>6, <2>1, <2>3 DEF WorkerStep, Look, Callback, Waits, Wakes, Finish, WorkerGoes,
         LifecycleTypeOK
  <2> QED
      BY <2>2, <2>3
<1>7. Fine
    BY <1>2, <1>3, <1>4, <1>5, <1>6 DEF LifecycleNext
<1> QED
    BY <1>7 DEF Told, Nearer

\* One step of everything, seen by a caller that joins.
LEMMA JoinGoesOn ==
    ASSUME JoinInv, NEW c \in Callers, NEW w \in Workers, Joins(c, w),
           UNCHANGED under, [LifecycleNext]_lifecycleVars
    PROVE  (Joins(c, w)' /\ (workerAt'[w] = workerAt[w] \/ Nearer(w)))
           \/ (workerAt[w] = "done" /\ callerAt'[c] = "idle")
<1>1. callerAt[c] = "joining" /\ taken[c] = w /\ Told(w) /\ under = "threads"
    BY DEF Joins
<1>2. Told(w)' /\ (workerAt'[w] = workerAt[w] \/ Nearer(w))
    BY <1>1, WorkerStaysOrComesNearer
<1>3. CASE CallerStep(c)
    BY <1>1, <1>3 DEF CallerStep, StartJoined, StartRun, StopCancel, StopNotify, StopJoined, Arrive,
       JoinInv, LifecycleIInv, LifecycleTypeOK
<1>4. CASE callerAt'[c] = callerAt[c] /\ taken'[c] = taken[c]
    BY <1>1, <1>2, <1>4 DEF Joins
<1> QED
    BY <1>1, <1>3, <1>4, OnlyItself

\* The caller is in no call.
Idle(c) == callerAt[c] = "idle"

\* The join ends: the worker is scheduled until it has left its loop, then
\* the caller.
LEMMA JoinReturns ==
    ASSUME NEW c \in Callers, NEW w \in Workers
    PROVE  /\ []JoinInv /\ [][WatchingNext]_watchingVars /\ []NobodyIsStuck
           /\ WF_watchingVars(CallerProceeds(c)) /\ WF_watchingVars(WorkerProceeds(w))
           => [](Joins(c, w) => <>Idle(c))
<1>1. JoinInv /\ Joins(c, w) => Ended(c, w) \/ Ends1(c, w) \/ Ends2(c, w) \/ Ends3(c, w) \/ Ends4(c, w)
    BY DEF Joins, Told, Ended, Ends1, Ends2, Ends3, Ends4, JoinInv, LifecycleIInv, LifecycleTypeOK, WorkerPlaces
<1>2. ASSUME JoinInv, [WatchingNext]_watchingVars
      PROVE  /\ Ended(c, w) => Ended(c, w)' \/ Idle(c)'
             /\ Ends1(c, w) => Ends1(c, w)' \/ Ended(c, w)'
             /\ Ends2(c, w) => Ends2(c, w)' \/ Ends1(c, w)'
             /\ Ends3(c, w) => Ends3(c, w)' \/ Ends2(c, w)'
             /\ Ends4(c, w) => Ends4(c, w)' \/ Ends3(c, w)'
  <2>1. UNCHANGED under /\ [LifecycleNext]_lifecycleVars
      BY <1>2, NextWatching
  <2>2. Joins(c, w) => (Joins(c, w)' /\ (workerAt'[w] = workerAt[w] \/ Nearer(w)))
                       \/ (workerAt[w] = "done" /\ callerAt'[c] = "idle")
      BY <1>2, <2>1, JoinGoesOn
  <2> QED
      BY <2>2 DEF Idle, Ended, Ends1, Ends2, Ends3, Ends4, Nearer
<1>3. ASSUME JoinInv, <<WorkerProceeds(w)>>_watchingVars
      PROVE  /\ Ends1(c, w) => Ended(c, w)'
             /\ Ends2(c, w) => Ends1(c, w)'
             /\ Ends3(c, w) => Ends2(c, w)'
             /\ Ends4(c, w) => Ends3(c, w)'
  <2>1. UNCHANGED under /\ LifecycleNext /\ WorkerStep(w)
      BY <1>3 DEF WorkerProceeds, WorkerRuns, LifecycleNext, BesideThreads
  <2>2. Joins(c, w) => (Joins(c, w)' /\ (workerAt'[w] = workerAt[w] \/ Nearer(w)))
                       \/ (workerAt[w] = "done" /\ callerAt'[c] = "idle")
      BY <1>3, <2>1, JoinGoesOn
  <2>3. Joins(c, w) /\ workerAt[w] # "done" => Nearer(w)
      BY <1>3, <2>1, WorkerComesNearer DEF JoinInv, LifecycleIInv, Joins, Told
  <2> QED
      BY <2>2, <2>3 DEF Ended, Ends1, Ends2, Ends3, Ends4, Nearer
<1>4. JoinInv /\ Ended(c, w) /\ <<CallerProceeds(c)>>_watchingVars => Idle(c)'
    BY DEF CallerProceeds, CallerRuns, CallerStep, StartJoined, StartRun, StopCancel, StopNotify, StopJoined,
       Arrive, Idle, Ended, Joins, JoinInv, LifecycleIInv, LifecycleTypeOK
<1>5. NobodyIsStuck =>
        /\ Ended(c, w) => CallerCan(c)
        /\ Ends1(c, w) \/ Ends2(c, w) \/ Ends3(c, w) \/ Ends4(c, w) => WorkerCan(w)
    BY DEF NobodyIsStuck, CallerDue, Alive, Ended, Ends1, Ends2, Ends3, Ends4, Joins
<1> QED
    BY <1>1, <1>2, <1>3, <1>4, <1>5, PTL DEF CallerCan, WorkerCan

\* The caller has come so far in its call.
At(c, place) == under = "threads" /\ callerAt[c] = place

\* The places of a call, one after the other.
LEMMA CallGoesOn ==
    ASSUME JoinInv, NEW c \in Callers, UNCHANGED under, [LifecycleNext]_lifecycleVars
    PROVE  /\ At(c, "start-joining") => At(c, "start-joining")' \/ At(c, "starting")'
           /\ At(c, "starting") => At(c, "starting")' \/ Idle(c)'
           /\ At(c, "cancelling") => At(c, "cancelling")' \/ At(c, "notifying")'
           /\ At(c, "notifying") => At(c, "notifying")' \/ At(c, "joining")' \/ Idle(c)'
<1>1. CASE callerAt[c] # "idle" /\ callerAt'[c] = callerAt[c]
    BY <1>1 DEF At
<1>2. CASE CallerStep(c)
    BY <1>2 DEF CallerStep, StartJoined, StartRun, StopCancel, StopNotify, StopJoined, Arrive, Idle, At,
       JoinInv, LifecycleIInv, LifecycleTypeOK
<1>3. CASE callerAt[c] = "idle"
    BY <1>3 DEF At
<1> QED
    BY <1>1, <1>2, <1>3, OnlyItself

\* A call whose join ends comes to its own end.
LEMMA CallReturns ==
    ASSUME NEW c \in Callers
    PROVE  /\ []JoinInv /\ [][WatchingNext]_watchingVars /\ []NobodyIsStuck
           /\ WF_watchingVars(CallerProceeds(c)) /\ [](At(c, "joining") => <>Idle(c))
           => [](under = "threads" => <>Idle(c))
<1>1. JoinInv /\ under = "threads" =>
        \/ Idle(c) \/ At(c, "joining") \/ At(c, "start-joining") \/ At(c, "starting")
        \/ At(c, "cancelling") \/ At(c, "notifying")
    BY DEF JoinInv, LifecycleIInv, LifecycleTypeOK, CallerPlaces, Idle, At
<1>2. ASSUME JoinInv, [WatchingNext]_watchingVars
      PROVE  /\ At(c, "start-joining") => At(c, "start-joining")' \/ At(c, "starting")'
             /\ At(c, "starting") => At(c, "starting")' \/ Idle(c)'
             /\ At(c, "cancelling") => At(c, "cancelling")' \/ At(c, "notifying")'
             /\ At(c, "notifying") => At(c, "notifying")' \/ At(c, "joining")' \/ Idle(c)'
    BY <1>2, NextWatching, CallGoesOn
<1>3. ASSUME JoinInv, <<CallerProceeds(c)>>_watchingVars
      PROVE  /\ At(c, "start-joining") => At(c, "starting")'
             /\ At(c, "starting") => Idle(c)'
             /\ At(c, "cancelling") => At(c, "notifying")'
             /\ At(c, "notifying") => At(c, "joining")' \/ Idle(c)'
    BY <1>3 DEF CallerProceeds, CallerRuns, CallerStep, StartJoined, StartRun, StopCancel, StopNotify,
       StopJoined, Arrive, Idle, At, BesideThreads, JoinInv, LifecycleIInv, LifecycleTypeOK
<1>4. JoinInv /\ NobodyIsStuck =>
        (At(c, "start-joining") \/ At(c, "starting") \/ At(c, "cancelling") \/ At(c, "notifying")
            => CallerCan(c))
    BY DEF NobodyIsStuck, CallerDue, At, JoinInv, JoinsAreShort
<1> QED
    BY <1>1, <1>2, <1>3, <1>4, PTL DEF CallerCan

\* What the fairness of all says of one.
LEMMA EachIsScheduled ==
    ASSUME NEW c \in Callers, NEW w \in Workers, WatchingFairness
    PROVE  CallerScheduled(c) /\ WorkerScheduled(w)
BY DEF WatchingFairness

\* Every call of the caller that is followed returns, whichever worker it
\* joins.
LEMMA EveryCallReturns ==
    /\ []JoinInv /\ [][WatchingNext]_watchingVars /\ []NobodyIsStuck /\ []WatchingFairness
    => [](under = "threads" /\ awaited \in Callers => <>(callerAt[awaited] = "idle"))
<1> SUFFICES ASSUME []JoinInv, [][WatchingNext]_watchingVars, []NobodyIsStuck, []WatchingFairness
             PROVE  under = "threads" /\ awaited \in Callers => <>(callerAt[awaited] = "idle")
    BY PTL
<1>1. ASSUME NEW c \in Callers PROVE under = "threads" => <>Idle(c)
  <2>1. ASSUME NEW w \in Workers PROVE Joins(c, w) => <>Idle(c)
    <3>1. WatchingFairness => CallerScheduled(c) /\ WorkerScheduled(w)
        BY EachIsScheduled
    <3> QED
        BY <3>1, JoinReturns, PTL DEF CallerScheduled, WorkerScheduled
  <2> DEFINE Returns == <>Idle(c)
  <2>2. ASSUME NEW w \in Workers PROVE Joins(c, w) => Returns
      BY <2>1
  <2> HIDE DEF Returns
  <2>3. JoinInv /\ At(c, "joining") => \E w \in Workers : Joins(c, w)
      BY DEF JoinInv, JoinsAreShort, LifecycleIInv, LifecycleTypeOK, At, Joins
  <2>4. JoinInv => (At(c, "joining") => Returns)
      BY <2>2, <2>3
  <2>5. WatchingFairness => CallerScheduled(c)
      BY DEF WatchingFairness
  <2> QED
      BY <2>4, <2>5, CallReturns, PTL DEF CallerScheduled, Returns
<1>2. ASSUME NEW c \in Callers PROVE under = "threads" /\ awaited = c => <>(callerAt[awaited] = "idle")
  <2>1. awaited = c /\ [WatchingNext]_watchingVars => (awaited = c)'
      BY NextWatching
  <2>2. awaited = c /\ Idle(c) => callerAt[awaited] = "idle"
      BY DEF Idle
  <2> QED
      BY <1>1, <2>1, <2>2, PTL
<1> DEFINE Comes == <>(callerAt[awaited] = "idle")
<1>3. ASSUME NEW c \in Callers PROVE under = "threads" /\ awaited = c => Comes
    BY <1>2
<1> HIDE DEF Comes
<1>4. under = "threads" /\ awaited \in Callers => Comes
    BY <1>3
<1> QED
    BY <1>4 DEF Comes

-----------------------------------------------------------------------------
(* stop() of the multipath engine.                                         *)

\* What stop() waits for has been told to end.
StopIsSerious == stopping => ~active

LEMMA InitStop == MultipathInit => StopIsSerious
BY DEF MultipathInit, StopIsSerious

LEMMA NextStop == StopIsSerious /\ [MultipathNext]_multipathVars => StopIsSerious'
<1> SUFFICES ASSUME StopIsSerious, [MultipathNext]_multipathVars PROVE StopIsSerious'
    OBVIOUS
<1>1. CASE UNCHANGED multipathVars
    BY <1>1 DEF multipathVars, StopIsSerious
<1>2. ASSUME NEW gw \in Gateways, AddRoute(gw) \/ RemoveRoute(gw) PROVE StopIsSerious'
    BY <1>2 DEF AddRoute, RemoveRoute, StopIsSerious
<1>3. ASSUME NEW auto \in BOOLEAN, NEW asLibrary \in BOOLEAN, Start(auto, asLibrary) PROVE StopIsSerious'
    BY <1>3 DEF Start, StopIsSerious
<1>4. CASE Stop \/ StopJoins
    BY <1>4 DEF Stop, StopJoins, StopIsSerious
<1>5. CASE ProberStep
    BY <1>5 DEF ProberStep, Snapshot, Probe, WriteBack, Evaluate, Compare, Switch, Sleeps, ProberKeeps,
       StopIsSerious
<1> QED
    BY <1>1, <1>2, <1>3, <1>4, <1>5 DEF MultipathNext

\* Among the healthy paths there is a best one, the least of those with the
\* highest score.
LEMMA LeastId ==
    ASSUME NEW S \in SUBSET Nat, S # {}
    PROVE  \E i \in S : \A j \in S : i <= j
<1> DEFINE R == {ss \in Nat \X Nat : ss[1] < ss[2]}
<1>1. R = OpToRel(<, Nat)
    BY DEF OpToRel
<1>2. \E x \in S : \A y \in S : ~(<<y, x>> \in OpToRel(<, Nat))
    BY NatLessThanWellFounded, WFMin, Zenon
<1>3. PICK x \in S : \A y \in S : ~(<<y, x>> \in R)
  <2> HIDE DEF R
  <2> QED
      BY <1>1, <1>2, Zenon
<1>4. \A y \in S : x <= y
  <2> SUFFICES ASSUME NEW y \in S PROVE x <= y
      OBVIOUS
  <2>1. x \in Nat /\ y \in Nat /\ ~(<<y, x>> \in R)
      BY <1>3
  <2> QED
      BY <2>1
<1> QED
    BY <1>4

LEMMA BestIsFound ==
    ASSUME MultipathTypeOK, Healthy # {}
    PROVE  \E i \in DOMAIN metrics : IsBest(i)
<1>1. \A i \in Healthy : i \in DOMAIN metrics /\ metrics[i].score \in {0, 3, 4}
  <2>1. ASSUME NEW m \in Samples \cup {Fresh}, m.healthy PROVE m.score \in {0, 3, 4}
    <3>1. CASE m = [healthy |-> FALSE, score |-> 1]
        BY <2>1, <3>1
    <3>2. CASE m \in [healthy : {TRUE}, score : {0, 3}]
        BY <3>2
    <3>3. CASE m = Fresh
        BY <3>3 DEF Fresh
    <3> QED
        BY <3>1, <3>2, <3>3 DEF Samples
  <2> QED
      BY <2>1 DEF Healthy, MultipathTypeOK
<1>2. \E k \in Healthy : \A j \in Healthy : metrics[j].score <= metrics[k].score
  <2>1. CASE \E k \in Healthy : metrics[k].score = 4
      BY <1>1, <2>1
  <2>2. CASE (\E k \in Healthy : metrics[k].score = 3) /\ ~\E k \in Healthy : metrics[k].score = 4
      BY <1>1, <2>2
  <2>3. CASE ~\E k \in Healthy : metrics[k].score \in {3, 4}
      BY <1>1, <2>3
  <2> QED
      BY <2>1, <2>2, <2>3
<1>3. PICK k \in Healthy : \A j \in Healthy : metrics[j].score <= metrics[k].score
    BY <1>2
<1> DEFINE T == {i \in Healthy : metrics[i].score = metrics[k].score}
<1>4. T \subseteq Nat /\ k \in T
    BY PathNumbers DEF Healthy, MultipathTypeOK
<1>5. PICK i \in T : \A j \in T : i <= j
  <2> HIDE DEF T
  <2> QED
      BY <1>4, LeastId
<1>6. ASSUME NEW j \in Healthy
      PROVE  metrics[j].score <= metrics[i].score /\ (j < i => metrics[j].score < metrics[i].score)
  <2>1. metrics[j].score \in Nat /\ metrics[i].score \in Nat /\ metrics[i].score = metrics[k].score
        /\ metrics[j].score <= metrics[i].score
      BY <1>1, <1>3
  <2>2. j \in Nat /\ i \in Nat
      BY <1>4, PathNumbers DEF Healthy, MultipathTypeOK
  <2>3. j < i => metrics[j].score # metrics[i].score
      BY <1>5, <2>1, <2>2
  <2> QED
      BY <2>1, <2>3
<1>7. i \in Healthy
    BY DEF Healthy
<1> HIDE DEF T
<1> QED
    BY <1>6, <1>7 DEF IsBest, Healthy

\* At every place of its loop the thread has something to do.
LEMMA ProberIsDue ==
    ASSUME MultipathTypeOK, prober # "none"
    PROVE  ProberDue
BY BestIsFound DEF ProberDue

\* Where the thread stands while stop() waits for it.
Ends(place) == under = "paths" /\ stopping /\ prober = place

\* Told to stop, the thread runs through the rest of its round, and nobody
\* else moves it; with its end the wait is over.
LEMMA ProberComesNearer ==
    ASSUME StopIsSerious, under = "paths", stopping, ProberStep
    PROVE  /\ stopping'
           /\ \/ prober = "probing" /\ prober' \in {"none", "writing"}
              \/ prober = "writing" /\ prober' = "evaluating"
              \/ prober = "evaluating" /\ prober' \in {"comparing", "sleeping"}
              \/ prober = "comparing" /\ prober' \in {"switching", "sleeping"}
              \/ prober = "switching" /\ prober' = "sleeping"
              \/ prober = "sleeping" /\ prober' = "top"
              \/ prober = "top" /\ prober' = "none"
<1>1. ~active
    BY DEF StopIsSerious
<1>2. CASE Snapshot
    BY <1>1, <1>2 DEF Snapshot, ProberKeeps
<1>3. CASE Probe
    BY <1>1, <1>3 DEF Probe, ProberKeeps
<1>4. CASE WriteBack
    BY <1>4 DEF WriteBack, ProberKeeps
<1>5. CASE Evaluate
    BY <1>5 DEF Evaluate, ProberKeeps
<1>6. CASE Compare
    BY <1>6 DEF Compare, ProberKeeps
<1>7. CASE Switch \/ Sleeps
    BY <1>7 DEF Switch, Sleeps, ProberKeeps
<1> QED
    BY <1>2, <1>3, <1>4, <1>5, <1>6, <1>7 DEF ProberStep

LEMMA NobodyElseMovesIt ==
    ASSUME stopping, [MultipathNext]_multipathVars
    PROVE  ProberStep \/ StopJoins \/ UNCHANGED <<stopping, prober>>
<1>1. CASE UNCHANGED multipathVars
    BY <1>1 DEF multipathVars, proberVars
<1>2. ASSUME NEW gw \in Gateways, AddRoute(gw) \/ RemoveRoute(gw) PROVE UNCHANGED <<stopping, prober>>
    BY <1>2 DEF AddRoute, RemoveRoute, proberVars
<1>3. ASSUME NEW auto \in BOOLEAN, NEW asLibrary \in BOOLEAN, Start(auto, asLibrary) PROVE FALSE
    BY <1>3 DEF Start
<1>4. Stop => FALSE
    BY DEF Stop
<1> QED
    BY <1>1, <1>2, <1>3, <1>4 DEF MultipathNext

\* The places of the thread one after the other, in any step.
StopGoesOn ==
    /\ Ends("probing") => Ends("probing")' \/ Ends("none")' \/ Ends("writing")'
    /\ Ends("writing") => Ends("writing")' \/ Ends("evaluating")'
    /\ Ends("evaluating") => Ends("evaluating")' \/ Ends("comparing")' \/ Ends("sleeping")'
    /\ Ends("comparing") => Ends("comparing")' \/ Ends("switching")' \/ Ends("sleeping")'
    /\ Ends("switching") => Ends("switching")' \/ Ends("sleeping")'
    /\ Ends("sleeping") => Ends("sleeping")' \/ Ends("top")'
    /\ Ends("top") => Ends("top")' \/ Ends("none")'
    /\ Ends("none") => Ends("none")' \/ ~stopping'

\* The same in a step of the thread itself.
StopComesNearer ==
    /\ Ends("probing") => Ends("none")' \/ Ends("writing")'
    /\ Ends("writing") => Ends("evaluating")'
    /\ Ends("evaluating") => Ends("comparing")' \/ Ends("sleeping")'
    /\ Ends("comparing") => Ends("switching")' \/ Ends("sleeping")'
    /\ Ends("switching") => Ends("sleeping")'
    /\ Ends("sleeping") => Ends("top")'
    /\ Ends("top") => Ends("none")'

LEMMA StopStep ==
    ASSUME StopIsSerious, [MultipathNext]_multipathVars, UNCHANGED under
    PROVE  StopGoesOn
<1>1. CASE ~stopping \/ under # "paths"
    BY <1>1 DEF StopGoesOn, Ends
<1>2. CASE stopping /\ under = "paths" /\ ProberStep
    BY <1>2, ProberComesNearer DEF StopGoesOn, Ends
<1>3. CASE StopJoins
    BY <1>3 DEF StopJoins, StopGoesOn, Ends
<1>4. CASE stopping /\ UNCHANGED <<stopping, prober>>
    BY <1>4 DEF StopGoesOn, Ends
<1> QED
    BY <1>1, <1>2, <1>3, <1>4, NobodyElseMovesIt

\* stop() returns: the thread runs to its end, then the join does.
LEMMA StopAlwaysReturns ==
    /\ []MultipathIInv /\ []StopIsSerious /\ [][WatchingNext]_watchingVars /\ []NobodyIsStuck
    /\ PathsScheduled
    => [](under = "paths" /\ stopping => <>~stopping)
<1>1. MultipathIInv /\ under = "paths" /\ stopping =>
        \/ Ends("none") \/ Ends("top") \/ Ends("probing") \/ Ends("writing") \/ Ends("evaluating")
        \/ Ends("comparing") \/ Ends("switching") \/ Ends("sleeping")
    BY DEF MultipathIInv, MultipathTypeOK, Ends
<1>2. StopIsSerious /\ [WatchingNext]_watchingVars => StopGoesOn
    BY NextWatching, StopStep
<1>3. StopIsSerious /\ <<ProberProceeds>>_watchingVars => StopComesNearer
  <2> SUFFICES ASSUME StopIsSerious, ProberProceeds PROVE StopComesNearer
      OBVIOUS
  <2>1. ProberStep /\ under' = under
      BY DEF ProberProceeds, BesidePaths
  <2>2. CASE ~stopping \/ under # "paths"
      BY <2>2 DEF StopComesNearer, Ends
  <2>3. CASE stopping /\ under = "paths"
      BY <2>1, <2>3, ProberComesNearer DEF StopComesNearer, Ends
  <2> QED
      BY <2>2, <2>3
<1>4. Ends("none") /\ <<StopProceeds>>_watchingVars => ~stopping'
    BY DEF StopProceeds, StopJoins
<1>5. MultipathIInv /\ NobodyIsStuck =>
        /\ Ends("none") => StopCan
        /\ Ends("top") \/ Ends("probing") \/ Ends("writing") \/ Ends("evaluating")
           \/ Ends("comparing") \/ Ends("switching") \/ Ends("sleeping") => ProberCan
    BY ProberIsDue DEF NobodyIsStuck, Ends, MultipathIInv
<1> QED
    BY <1>1, <1>2, <1>3, <1>4, <1>5, PTL DEF StopGoesOn, StopComesNearer, PathsScheduled, ProberCan, StopCan

LEMMA PathsAreScheduled == WatchingFairness => PathsScheduled
BY DEF WatchingFairness

\* Whoever waits comes back: start() and stop() of the monitors and stop() of
\* the multipath engine, for any number of callers, runs and routes.  Besides
\* the specification it needs its fairness of every suffix of a behaviour,
\* which is the same fairness, and that nobody who is due is stuck: ENABLED is
\* not within the prover's reach.  On the instance of the run WaitsEnd fails
\* with it.
THEOREM WaitsAlwaysEnd == WatchingSpec /\ []WatchingFairness /\ []NobodyIsStuck => WaitsEnd
<1>1. WatchingSpec => []JoinInv
    BY PartsBehave, AlwaysJoin, PTL
<1>2. WatchingSpec => []MultipathIInv
    BY PartsBehave, AlwaysMultipath, PTL
<1>3. WatchingSpec => []StopIsSerious
    BY PartsBehave, InitStop, NextStop, PTL DEF MultipathSpec
<1>4. WatchingSpec => [](awaited \in Callers)
    BY WatchingTypeCorrect, PTL DEF WatchingTypeOK
<1>5. WatchingSpec => [][WatchingNext]_watchingVars
    BY PTL DEF WatchingSpec
<1>6. under = "threads" /\ [WatchingNext]_watchingVars => (under = "threads")'
    BY NextWatching
<1>7. under = "paths" /\ [WatchingNext]_watchingVars => (under = "paths")'
    BY NextWatching
<1>8. under = "threads" /\ callerAt[awaited] = "idle" => ~Waiting
    BY DEF Waiting
<1>9. under = "paths" /\ ~stopping => ~Waiting
    BY DEF Waiting
<1>10. Waiting => under = "threads" \/ (under = "paths" /\ stopping)
    BY DEF Waiting
<1> QED
    BY <1>1, <1>2, <1>3, <1>4, <1>5, <1>6, <1>7, <1>8, <1>9, <1>10, EveryCallReturns, StopAlwaysReturns,
       PathsAreScheduled, PTL DEF WaitsEnd
==============================================================================
