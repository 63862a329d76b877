------------------------------ MODULE Monitoring ------------------------------
(***************************************************************************)
(* The monitoring service of one user over several runs of the program:    *)
(* the game watcher's thread, the queue of calls it posts to the service,  *)
(* the session of the current game, the history with its file, the evening *)
(* measurement and the autopilot's detached threads.                       *)
(*                                                                         *)
(*   the watcher   one round of checkProcesses posts starts, then ends     *)
(*   the service   takes queued calls in order, ticks once a second        *)
(*   the history   rewrites its file in place: a crash cuts it             *)
(*   the pilots    apply a profile and queue their announcement            *)
(*                                                                         *)
(* The watcher's own start() and stop() are WorkerLifecycle.               *)
(***************************************************************************)
EXTENDS Naturals, FiniteSets, SequencesExt

CONSTANTS
    Pids,        \* the processes of games a behaviour has
    GameOf,      \* the game of each
    Profiled,    \* the games whose profile is applied automatically
    MaxRecords,  \* kMaxRecords
    MaxDays,     \* bound on the days
    MaxProgramRuns,  \* bound on the runs of the program
    NoGame

Games == {GameOf[p] : p \in Pids}
Scheduled == "scheduled-evening"
\* A run of the program sees a process at most once.
MaxSessions == MaxProgramRuns * Cardinality(Pids)
Serials == 1..MaxSessions

ASSUME MonitoringAssumption ==
    /\ Profiled \subseteq Games
    /\ IsFiniteSet(Pids)
    /\ MaxRecords \in Nat \ {0} /\ MaxProgramRuns \in Nat /\ MaxDays \in Nat \ {0}
    /\ NoGame \notin Games

VARIABLES
    alive, spent,    \* the processes that run, and those that have ended
                     \* before the watcher had noticed its end
    runs,            \* how often the program was started
    up,              \* whether it runs
    known,           \* known_game_pids_ of the watcher
    calls,           \* the queued calls to the service
    current,         \* current_game_
    session,         \* which session it is: counted by handleGameStart
    sums,            \* the sessions whose samples are in session_*_sum_
    openRecord,      \* current_ of the history while recording_, or NoGame
    records,         \* records_
    saving,          \* whether the file is being rewritten
    historyFile,     \* history.json
    day, evening,    \* today, and whether the target time has passed
    lastEvening,     \* SettingsKeys::LastEvening, kept in the settings
    evenings,        \* ghost: the evening measurements of each day
    pilots,          \* the sessions whose autopilot thread runs
    announced        \* ghost: gameStarted signals of each session

worldVars == <<alive, spent, day, evening>>
sessionVars == <<current, session, sums>>
historyVars == <<openRecord, records, saving, historyFile>>
monitoringVars == <<worldVars, runs, up, known, calls, sessionVars, historyVars,
                    lastEvening, evenings, pilots, announced>>

GameRecord == [game : Games \cup {Scheduled}, serial : 0..MaxSessions,
           from : SUBSET Serials, whole : BOOLEAN]
Call == [kind : {"start", "end"}, pid : Pids] \cup [kind : {"applied"}, serial : Serials]

MonitoringTypeOK ==
    /\ alive \subseteq Pids /\ spent \subseteq Pids /\ known \subseteq Pids
    /\ runs \in 0..MaxProgramRuns /\ up \in BOOLEAN
    /\ calls \in Seq(Call)
    /\ current \in Games \cup {NoGame} /\ session \in 0..MaxSessions
    /\ sums \subseteq Serials
    /\ openRecord \in GameRecord \cup {NoGame}
    /\ records \in Seq(GameRecord) /\ Len(records) <= MaxRecords
    /\ historyFile \in Seq(GameRecord) /\ saving \in BOOLEAN
    /\ day \in 1..MaxDays /\ evening \in BOOLEAN /\ lastEvening \in 0..MaxDays
    /\ evenings \in [1..MaxDays -> Nat]
    /\ pilots \subseteq Serials
    /\ announced \in [Serials -> Nat]

MonitoringInit ==
    /\ alive = {} /\ spent = {}
    /\ runs = 0 /\ up = FALSE
    /\ known = {} /\ calls = <<>>
    /\ current = NoGame /\ session = 0 /\ sums = {}
    /\ openRecord = NoGame /\ records = <<>> /\ saving = FALSE /\ historyFile = <<>>
    /\ day = 1 /\ evening = FALSE /\ lastEvening = 0
    /\ evenings = [d \in 1..MaxDays |-> 0]
    /\ pilots = {} /\ announced = [s \in Serials |-> 0]

-----------------------------------------------------------------------------
(* The world.                                                              *)

LaunchGame(p) ==
    /\ p \notin alive \cup spent
    /\ alive' = alive \cup {p}
    /\ UNCHANGED <<spent, day, evening>>

ExitGame(p) ==
    /\ p \in alive
    /\ alive' = alive \ {p}
    /\ spent' = spent \cup {p}
    /\ UNCHANGED <<day, evening>>

TimePasses ==
    /\ \/ ~evening /\ evening' = TRUE /\ day' = day
       \/ evening /\ day < MaxDays /\ evening' = FALSE /\ day' = day + 1
    /\ UNCHANGED <<alive, spent>>

World ==
    /\ \/ \E p \in Pids : LaunchGame(p) \/ ExitGame(p)
       \/ TimePasses
    /\ UNCHANGED <<runs, up, known, calls, sessionVars, historyVars, lastEvening,
                   evenings, pilots, announced>>

-----------------------------------------------------------------------------
(* The game watcher.                                                       *)

\* The calls of a round: the starts, and then the ends.
RoundCalls(starts, ends) ==
    [i \in DOMAIN starts |-> [kind |-> "start", pid |-> starts[i]]]
    \o [i \in DOMAIN ends |-> [kind |-> "end", pid |-> ends[i]]]

\* collectObservedGames: every process it did not know, in the order of a hash
\* map, and every one that has gone.
WatcherRound ==
    /\ up
    /\ alive # known
    /\ \E starts \in SetToSeqs(alive \ known), ends \in SetToSeqs(known \ alive) :
          calls' = calls \o RoundCalls(starts, ends)
    /\ known' = alive
    /\ UNCHANGED <<worldVars, runs, up, sessionVars, historyVars, lastEvening,
                   evenings, pilots, announced>>

-----------------------------------------------------------------------------
(* SessionHistory.                                                         *)

RecordOf(game, serial) == [game |-> game, serial |-> serial, from |-> {}, whole |-> TRUE]

\* push_back, and the oldest go when there are more than kMaxRecords.
Pushed(list, r) ==
    IF Len(list) < MaxRecords THEN Append(list, r) ELSE Append(Tail(list), r)

\* Mutant: the flag recording_ is not looked at.
RecordEndAnyway(from) ==
    /\ openRecord' = openRecord
    /\ IF openRecord = NoGame
       THEN UNCHANGED <<records, saving>>
       ELSE records' = Pushed(records, [openRecord EXCEPT !.from = from]) /\ saving' = TRUE

\* recordEndLocked: nothing without an open record.
RecordEnd(from) ==
    /\ openRecord' = NoGame
    /\ IF openRecord = NoGame
       THEN UNCHANGED <<records, saving>>
       ELSE records' = Pushed(records, [openRecord EXCEPT !.from = from]) /\ saving' = TRUE

\* saveToFileLocked has written everything.
SaveDone ==
    /\ up /\ saving
    /\ saving' = FALSE
    /\ historyFile' = records
    /\ UNCHANGED <<worldVars, runs, up, known, calls, sessionVars, openRecord, records,
                   lastEvening, evenings, pilots, announced>>

\* What an interrupted save leaves: the first lines of the file.  The record
\* that was cut is read back as far as it goes.
CutFiles == {SubSeq(records, 1, n) : n \in 0..Len(records)} \cup
    {Append(SubSeq(records, 1, n), [records[n + 1] EXCEPT !.whole = FALSE, !.from = {}]) :
        n \in 0..(Len(records) - 1)}

\* clear() of the history's page.
ClearHistory ==
    /\ up /\ ~saving /\ records # <<>>
    /\ records' = <<>>
    /\ saving' = TRUE
    /\ UNCHANGED <<worldVars, runs, up, known, calls, sessionVars, openRecord, historyFile,
                   lastEvening, evenings, pilots, announced>>

-----------------------------------------------------------------------------
(* MonitoringService, on the thread of the user interface.                 *)

\* Mutant: the sums of the last session are kept.
ResetKeepingSums == UNCHANGED sums

\* The sums handleGameStart sets to zero.
ResetSums == sums' = {}

\* Mutant: the worker's result is announced only when something was applied.
AnnounceApplied(s) == announced' \in {announced, [announced EXCEPT ![s] = @ + 1]}

\* gameStarted, whatever the autopilot could apply.
Announce(s) == announced' = [announced EXCEPT ![s] = @ + 1]

\* A second game simply takes the place of the first, whose open record is
\* overwritten by recordStart.
HandleGameStart(p) ==
    /\ session' = session + 1
    /\ current' = GameOf[p]
    /\ ResetSums
    /\ openRecord' = RecordOf(GameOf[p], session + 1)
    /\ IF GameOf[p] \in Profiled
       THEN pilots' = pilots \cup {session + 1} /\ UNCHANGED announced
       ELSE Announce(session + 1) /\ UNCHANGED pilots
    /\ UNCHANGED <<records, saving>>

\* Ends whatever session there is: the name of the game is only for show.
HandleGameEnd ==
    /\ RecordEnd(sums)
    /\ current' = NoGame
    /\ UNCHANGED <<session, sums, pilots, announced>>

Deliver ==
    /\ up /\ ~saving
    /\ calls # <<>>
    /\ calls' = Tail(calls)
    /\ LET c == Head(calls) IN
       \/ c.kind = "start" /\ HandleGameStart(c.pid)
       \/ c.kind = "end" /\ HandleGameEnd
       \/ /\ c.kind = "applied"
          /\ Announce(c.serial)
          /\ UNCHANGED <<sessionVars, openRecord, records, saving, pilots>>
    /\ UNCHANGED <<worldVars, runs, up, known, historyFile, lastEvening, evenings>>

\* The autopilot's thread has applied what it could.
PilotDone(s) ==
    /\ up /\ s \in pilots
    /\ pilots' = pilots \ {s}
    /\ calls' = Append(calls, [kind |-> "applied", serial |-> s])
    /\ UNCHANGED <<worldVars, runs, up, known, sessionVars, historyVars, lastEvening,
                   evenings, announced>>

\* onTick with a ping: a sample of the session, if there is one.
OnTick ==
    /\ up /\ ~saving
    /\ current # NoGame
    /\ sums' = sums \cup {session}
    /\ UNCHANGED <<worldVars, runs, up, known, calls, current, session, historyVars,
                   lastEvening, evenings, pilots, announced>>

\* checkSchedule: once after the target time of a day, by the date in the
\* settings.  It uses the history's one open record for itself.
CheckSchedule ==
    /\ up /\ ~saving
    /\ evening /\ lastEvening # day
    /\ lastEvening' = day
    /\ evenings' = [evenings EXCEPT ![day] = @ + 1]
    /\ records' = Pushed(records, RecordOf(Scheduled, 0))
    /\ openRecord' = NoGame
    /\ saving' = TRUE
    /\ UNCHANGED <<worldVars, runs, up, known, calls, sessionVars, historyFile, pilots, announced>>

-----------------------------------------------------------------------------
(* The program.                                                            *)

\* Mutant: the date of the last measurement is a member of the service.
RememberedEveningInMemory == 0

\* The settings outlive the program.
RememberedEvening == lastEvening

\* The constructor of the history loads the file; start().
StartProgram ==
    /\ ~up /\ runs < MaxProgramRuns
    /\ runs' = runs + 1
    /\ up' = TRUE
    /\ records' = historyFile
    /\ known' = {}
    /\ lastEvening' = RememberedEvening
    /\ UNCHANGED <<worldVars, calls, sessionVars, openRecord, saving, historyFile, evenings, pilots, announced>>

\* What ends with the process.
Vanish ==
    /\ up' = FALSE /\ saving' = FALSE
    /\ calls' = <<>> /\ pilots' = {} /\ known' = {}
    /\ current' = NoGame /\ sums' = {} /\ openRecord' = NoGame /\ records' = <<>>
    /\ UNCHANGED <<worldVars, runs, session, lastEvening, evenings, announced>>

\* The destructor: stop(), which ends the session there is, and the save.
QuitProgram ==
    /\ up /\ ~saving
    /\ historyFile' = IF current = NoGame \/ openRecord = NoGame THEN records
               ELSE Pushed(records, [openRecord EXCEPT !.from = sums])
    /\ Vanish

CrashProgram ==
    /\ up
    /\ IF saving THEN historyFile' \in CutFiles ELSE UNCHANGED historyFile
    /\ Vanish

-----------------------------------------------------------------------------
MonitoringNext ==
    \/ World \/ WatcherRound
    \/ SaveDone \/ ClearHistory
    \/ Deliver \/ OnTick \/ CheckSchedule
    \/ \E s \in Serials : PilotDone(s)
    \/ StartProgram \/ QuitProgram \/ CrashProgram

MonitoringSpec == MonitoringInit /\ [][MonitoringNext]_monitoringVars

-----------------------------------------------------------------------------
(* Properties.                                                             *)

\* Every session is in the history at most once and in the order of their
\* starts, across restarts, cut files and the end that stop() makes of a
\* session whose own end is still queued.
RecordedOnce ==
    \A i, j \in DOMAIN records :
        i < j /\ records[i].serial # 0 /\ records[j].serial # 0
            => records[i].serial < records[j].serial

\* The averages of a record come from the samples of its own session.
OwnSamples == \A i \in DOMAIN records :
    records[i].serial # 0 => records[i].from \subseteq {records[i].serial}

\* The evening measurement is made at most once a day, however often the
\* program is started (settings_keys.h: once a day, not at every start).
OneEveningADay == \A d \in 1..MaxDays : evenings[d] <= 1

OnItsWay(s) == s \in pilots \/ \E i \in DOMAIN calls : calls[i].kind = "applied" /\ calls[i].serial = s

\* The start of a game is announced once, by the service or by the autopilot's
\* thread, whether that applied anything or not: never twice, and for the
\* current game the announcement has been made or is on its way.
AnnouncedOnce ==
    /\ \A s \in Serials : announced[s] <= 1 /\ (OnItsWay(s) => announced[s] = 0)
    /\ up /\ current # NoGame => announced[session] = 1 \/ OnItsWay(session)

\* What the services leave behind is of the games that were played: their
\* records, their averages, the evening of the day, the announcement.
HistoryIsOfTheGames == RecordedOnce /\ OwnSamples /\ OneEveningADay /\ AnnouncedOnce
=============================================================================
