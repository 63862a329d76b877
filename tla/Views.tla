--------------------------------- MODULE Views ---------------------------------
(***************************************************************************)
(* What the window shows of the monitoring: the first page with its graph  *)
(* and its advice, the live page with its charts and its log, the page of  *)
(* past sessions and the line at the bottom of the window. Every page asks *)
(* the one service for what has been, when it is built, and hears of what  *)
(* comes by the service's signals.                                         *)
(***************************************************************************)
EXTENDS Integers, SequencesExt

CONSTANTS
    Sessions,    \* sessions as they are recorded: [ping, jitter, loss, evening]
    PingAnswers,  \* the answers of the target, -1 for none
    MaxPoints,   \* the values a chart and the service's series hold
    MaxLog,      \* the entries of the log
    MaxCards,    \* the sessions the history page shows
    HistorySize,  \* kMaxRecords
    LastOnes,    \* the sessions the advice is about
    MaxViewEvents    \* bound on the events of a behaviour

ASSUME ViewsAssumption ==
    /\ {MaxPoints, MaxLog, MaxCards, HistorySize, LastOnes} \subseteq Nat \ {0} /\ MaxViewEvents \in Nat
    /\ Sessions \subseteq [ping : Nat, jitter : Nat, loss : Nat, evening : BOOLEAN]
    /\ PingAnswers \subseteq Int

VARIABLES
    events,    \* how many there have been
    history,   \* the sessions of the history, oldest first
    diagnosis, \* the sentence of the last diagnosis, or ""
    losses,    \* loss_hist_: 1 for every second without an answer
    graph,     \* the graph of the first page
    tips,    \* its card of advice
    live,      \* the live page has been built
    log,       \* its log, oldest first
    said,      \* ghost: all that has been put into the log
    past,      \* the page of past sessions has been built
    sessionCards,     \* what it lists, newest first
    counted,   \* the number of sessions it speaks of
    status,    \* the line at the bottom
    exported     \* the loss the exported report gives, or -1 before one is written

viewsVars ==
    <<events, history, diagnosis, losses, graph, tips, live, log, said, past, sessionCards,
      counted, status, exported>>

Kept(n, s) == SubSeq(s, IF Len(s) > n THEN Len(s) - n + 1 ELSE 1, Len(s))
Total(s) == FoldLeft(LAMBDA sum, n : sum + n, 0, s)
Column(s, part) == [i \in DOMAIN s |-> s[i][part]]
Worst(s, part) == Max({0} \cup {s[i][part] : i \in DOMAIN s})
Number(s, Holds(_)) == Len(SelectSeq(s, Holds))
Happens == events < MaxViewEvents /\ events' = events + 1

-----------------------------------------------------------------------------
(* The service.                                                              *)

\* getAveragePing and its neighbours; averages are compared, never divided.
AverageAbove(s, part, limit) == Total(Column(s, part)) > limit * Len(s)

\* getRecommendations: the last diagnosis first, then what the past sessions tell.
LossAdvice(s) ==
    IF AverageAbove(s, "loss", 2) THEN <<"loss">> ELSE IF Worst(s, "loss") > 3 THEN <<"a lossy game">> ELSE <<>>
JitterAdvice(s) ==
    IF AverageAbove(s, "jitter", 6) THEN <<"jitter">> ELSE IF Worst(s, "jitter") > 10 THEN <<"a jittery game">> ELSE <<>>
PingAdvice(s) == IF AverageAbove(s, "ping", 90) THEN <<"ping">> ELSE <<>>
EveningAdvice(s) ==
    LET evenings == SelectSeq(s, LAMBDA r : r.evening)
        bad == Number(evenings, LAMBDA r : r.loss > 1)
    IN  IF Len(evenings) >= 3 /\ bad > 0 /\ bad * 2 >= Len(evenings) THEN <<"evenings">> ELSE <<>>

Recommendations(s, d) ==
    LET last == Kept(LastOnes, s)
        first == IF d = "" THEN <<>> ELSE <<d>>
        all == first \o LossAdvice(last) \o JitterAdvice(last) \o PingAdvice(last) \o EveningAdvice(last)
    IN  IF all # <<>> THEN all ELSE IF last = <<>> THEN <<"play">> ELSE <<"stable">>

\* Mutant: the list is cut before the record is added.
RecordedAfterCut(r) == Append(Kept(HistorySize, history), r)

\* recordEndWithScore, of a game or of the measurement in the evening.
Recorded(r) == Kept(HistorySize, Append(history, r))

-----------------------------------------------------------------------------
(* What the pages do on a signal.                                            *)

\* addPoint: an answer that is missing is drawn as zero.
Drawn(s, ms) == Kept(MaxPoints, Append(s, IF ms >= 0 THEN ms ELSE 0))

\* Mutant: the entry above the new one is taken out, not the oldest.
AddLogEntryToFull(s, e) == IF Len(s) < MaxLog THEN Append(s, e) ELSE Append(SubSeq(s, 1, MaxLog - 1), e)

\* addLogEntry.
AddLogEntry(s, e) == Kept(MaxLog, Append(s, e))

Writes(entry) ==
    IF live THEN log' = AddLogEntry(log, entry) /\ said' = Append(said, entry)
    ELSE UNCHANGED <<log, said>>

\* refreshHistory: the newest sessions, and the averages over all of them.
Newest(s) == Reverse(Kept(MaxCards, s))
Refreshed(s) == /\ sessionCards' = Newest(s)
                /\ counted' = Len(s)
RefillCards(s) == IF past THEN Refreshed(s) ELSE UNCHANGED <<sessionCards, counted>>

-----------------------------------------------------------------------------
(* The events.                                                               *)

\* onTick: the second's answer goes to every page, and the line says that all is well.
GraphTick(ms) ==
    /\ Happens
    /\ losses' = Kept(MaxPoints, Append(losses, IF ms >= 0 THEN 0 ELSE 1))
    /\ graph' = Drawn(graph, ms)
    /\ Writes(IF ms >= 0 THEN "ping" ELSE "lost")
    /\ status' = "online"
    /\ UNCHANGED <<history, diagnosis, tips, live, past, sessionCards, counted, exported>>

\* Mutant: the signals go out before the record is written.
GameEndsHastily(r) ==
    /\ Happens
    /\ history' = Recorded(r)
    /\ Writes("game ended")
    /\ RefillCards(history) /\ tips' = Recommendations(history, diagnosis)
    /\ status' = Recommendations(history', diagnosis)[1]
    /\ UNCHANGED <<diagnosis, losses, graph, live, past, exported>>

\* handleGameEnd: the record, the signals gameEnded and sessionRecorded, the first advice.
GameEnds(r) ==
    /\ Happens
    /\ history' = Recorded(r)
    /\ Writes("game ended")
    /\ RefillCards(history') /\ tips' = Recommendations(history', diagnosis)
    /\ status' = Recommendations(history', diagnosis)[1]
    /\ UNCHANGED <<diagnosis, losses, graph, live, past, exported>>

\* checkSchedule: the record of the evening, announced by the tray only.
EveningMeasured(r) ==
    /\ Happens
    /\ history' = Recorded(r)
    /\ UNCHANGED <<diagnosis, losses, graph, tips, live, log, said, past, sessionCards, counted, status, exported>>

\* applyDiagnosticReport: a report with nothing to say leaves the line as it is.
ApplyDiagnosticReport(d) ==
    /\ Happens
    /\ diagnosis' = d
    /\ status' = IF d = "" THEN status ELSE d
    /\ UNCHANGED <<history, losses, graph, tips, live, log, said, past, sessionCards, counted, exported>>

\* The pages are built when they are first opened.
OpenLive ==
    /\ ~live /\ live' = TRUE
    /\ UNCHANGED <<events, history, diagnosis, losses, graph, tips, log, said, past, sessionCards, counted, status, exported>>
OpenPast ==
    /\ ~past /\ past' = TRUE /\ Refreshed(history)
    /\ UNCHANGED <<events, history, diagnosis, losses, graph, tips, live, log, said, status, exported>>

\* The buttons of the history page.
Refresh ==
    /\ past /\ Refreshed(history)
    /\ UNCHANGED <<events, history, diagnosis, losses, graph, tips, live, log, said, past, status, exported>>
Clear ==
    /\ past /\ Happens
    /\ history' = <<>> /\ Refreshed(history')
    /\ UNCHANGED <<diagnosis, losses, graph, tips, live, log, said, past, status, exported>>

\* onExportClicked: the mean of the series of ones and zeros goes into the report as it is, where
\* it stands for per cent; here in hundredths of a per cent.
ReportedLoss ==
    IF losses = <<>> THEN 0
    ELSE (100 * Cardinality({i \in DOMAIN losses : losses[i] = 1})) \div Len(losses)
OnExportClicked ==
    /\ live /\ Happens
    /\ exported' = ReportedLoss
    /\ UNCHANGED <<history, diagnosis, losses, graph, tips, live, log, said, past, sessionCards, counted, status>>

-----------------------------------------------------------------------------
\* The first page is built with the window.
ViewsInit ==
    /\ events = 0 /\ history \in {<<>>} \cup {<<r>> : r \in Sessions} /\ diagnosis = "" /\ losses = <<>>
    /\ graph = <<>> /\ tips = Recommendations(history, "")
    /\ live = FALSE /\ log = <<>> /\ said = <<>>
    /\ past = FALSE /\ sessionCards = <<>> /\ counted = 0
    /\ status = "ready" /\ exported = -1

ViewsNext ==
    \/ \E ms \in PingAnswers : GraphTick(ms)
    \/ \E r \in Sessions : GameEnds(r)
    \/ \E r \in Sessions : EveningMeasured(r)
    \/ \E d \in {"", "change the route"} : ApplyDiagnosticReport(d)
    \/ OpenLive \/ OpenPast \/ Refresh \/ Clear \/ OnExportClicked

ViewsSpec == ViewsInit /\ [][ViewsNext]_viewsVars

-----------------------------------------------------------------------------
ViewsTypeOK ==
    /\ events \in 0 .. MaxViewEvents
    /\ history \in Seq(Sessions) /\ Len(history) <= HistorySize
    /\ Range(losses) \subseteq {0, 1} /\ Len(losses) <= MaxPoints
    /\ Range(graph) \subseteq Nat /\ Len(graph) <= MaxPoints
    /\ live \in BOOLEAN /\ past \in BOOLEAN /\ exported \in -1 .. 100 /\ counted \in 0 .. HistorySize
    /\ Len(sessionCards) <= MaxCards /\ Range(sessionCards) \subseteq Sessions

\* The log is what has been said last, in its order, whatever has been dropped at its limit.
LogIsTheLatest == log = Kept(MaxLog, said)

\* The end of a game is on every page at once: the list, where it has been built, begins with
\* the session, and the advice is the one of the history that has the session (the record is
\* written before the signal goes out).
EndOfGameIsSeen ==
    [][\A r \in Sessions : GameEnds(r) =>
          /\ past => sessionCards'[1] = r /\ counted' = Len(history')
          /\ tips' = Recommendations(history', diagnosis)]_viewsVars

\* session_history_widget.cpp: "the list is brought up to date by itself when the service
\* records a finished session; new measurements used to be seen after a click only".
HistoryIsFresh == past => counted = Len(history) /\ sessionCards = Newest(history)

\* getRecommendations: the diagnosis comes first "so that the user sees it in the line of the
\* state" (of the window).
DiagnosisIsInTheLine ==
    [][\A ms \in PingAnswers : GraphTick(ms) /\ status = diagnosis /\ diagnosis # "" => status' = diagnosis]_viewsVars
=============================================================================
