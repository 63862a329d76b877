------------------------------ MODULE Statistics ------------------------------
(***************************************************************************)
(* The counters beside the monitoring service: the collector of a          *)
(* session's totals, the jitter window and the packet-loss monitor's     *)
(* thread.  Each locks itself and knows nothing of the others, so a        *)
(* behaviour is about one of them, its subject: a call is one step, a      *)
(* round of the loss monitor is several.                                   *)
(*                                                                         *)
(* A measured value is a member of Values; an average is its sum and its   *)
(* divisor.                                                                *)
(***************************************************************************)
EXTENDS Integers, SequencesExt

CONSTANTS
    Values,       \* what can be measured, natural numbers
    MaxSnapshots, \* max_snapshots_
    WindowSizes,  \* what setWindowSize() may be called with
    LossHistory,  \* the rounds an average loss is taken over (100)
    MaxCalls      \* bound on the calls of each counter

Channels == {"ping", "jitter", "loss"}
NoValue == -1

ASSUME StatisticsAssumption ==
    /\ Values \subseteq Nat /\ WindowSizes \subseteq Nat \ {0}
    /\ MaxSnapshots \in Nat /\ LossHistory \in Nat \ {0} /\ MaxCalls \in Nat

VARIABLES
    subject,    \* which of the three the behaviour is about
    collector,  \* recording_, current_session_ and past_sessions_
    heard,      \* ghost: what each channel was given in this session; sessions started
    jitter,     \* window_size_, latency_samples_, jitter_samples_, last_latency_
    loss,       \* running_, where the thread stands, stats_, loss_history_
    rounds      \* ghost: the rounds of the loss monitor since the last reset

statisticsVars == <<subject, collector, heard, jitter, loss, rounds>>

NoSession == [total |-> [c \in Channels |-> 0], samples |-> 0, snapshots |-> <<>>]
Sum(s) == FoldSeq(+, 0, s)
LastOf(s, n) == SubSeq(s, 1 + (IF Len(s) > n THEN Len(s) - n ELSE 0), Len(s))
Distance(a, b) == IF a > b THEN a - b ELSE b - a

StatisticsInit ==
    /\ subject \in {"collector", "jitter", "loss"}
    /\ collector = [recording |-> FALSE, session |-> NoSession, past |-> <<>>]
    /\ heard = [channel |-> [c \in Channels |-> <<>>], started |-> 0]
    /\ jitter \in [window : WindowSizes, latencies : {<<>>}, jitters : {<<>>}, last : {NoValue}]
    /\ loss = [running |-> FALSE, thread |-> "none", result |-> 0, history |-> <<>>,
               sum |-> 0, of |-> 0]
    /\ rounds = <<>>

-----------------------------------------------------------------------------
(* StatsCollector.                                                         *)

CollectorStart ==
    /\ heard.started < 2
    /\ collector' = [collector EXCEPT !.recording = TRUE, !.session = NoSession]
    /\ heard' = [channel |-> [c \in Channels |-> <<>>], started |-> heard.started + 1]

\* Mutant: a second stop() is not noticed.
CollectorStopAgain ==
    /\ Len(collector.past) < 3
    /\ collector' = [collector EXCEPT !.recording = FALSE,
                                      !.past = Append(@, collector.session)]
    /\ UNCHANGED heard

CollectorStop ==
    /\ collector.recording
    /\ collector' = [collector EXCEPT !.recording = FALSE,
                                      !.past = Append(@, collector.session)]
    /\ UNCHANGED heard

\* recordPing, recordJitter and recordPacketLoss: one divisor for all three.
Record(c, v) ==
    /\ collector.recording /\ collector.session.samples < MaxCalls
    /\ collector' = [collector EXCEPT !.session.total[c] = @ + v, !.session.samples = @ + 1]
    /\ heard' = [heard EXCEPT !.channel[c] = Append(@, v)]

\* A mean per channel of what was recorded, the oldest snapshot dropped.
RecordSnapshot(snapshot) ==
    /\ collector.recording /\ collector.session.samples < MaxCalls
    /\ collector' = [collector EXCEPT
            !.session.total = [c \in Channels |-> @[c] + snapshot[c]],
            !.session.samples = @ + 1,
            !.session.snapshots = LastOf(Append(@, snapshot), MaxSnapshots)]
    /\ heard' = [heard EXCEPT !.channel = [c \in Channels |-> Append(@[c], snapshot[c])]]

CollectorStep ==
    \/ CollectorStart \/ CollectorStop
    \/ \E v \in Values : \/ \E c \in Channels : Record(c, v)
                         \/ RecordSnapshot([c \in Channels |-> v])

\* saveSession prints each channel's total over the samples of all of them.
AverageOf(session) == [c \in Channels |-> [sum |-> session.total[c], of |-> session.samples]]

-----------------------------------------------------------------------------
(* JitterCalculator.                                                       *)

\* Mutant: the jitter samples outlive reset().
ResetJitterHalf == jitter' = [jitter EXCEPT !.latencies = <<>>, !.last = NoValue]

ResetJitter == jitter' = [jitter EXCEPT !.latencies = <<>>, !.jitters = <<>>, !.last = NoValue]

\* Both windows lose at most their oldest sample.
Slide(s, v) == LET t == Append(s, v) IN IF Len(t) > jitter.window THEN Tail(t) ELSE t

AddSample(v) == jitter' = [jitter EXCEPT
    !.latencies = Slide(@, v),
    !.jitters = IF jitter.last = NoValue THEN @ ELSE Slide(@, Distance(v, jitter.last)),
    !.last = v]

SetWindowSize(n) == jitter' = [jitter EXCEPT !.window = n]

JitterStep ==
    \/ \E v \in Values : AddSample(v)
    \/ \E n \in WindowSizes : SetWindowSize(n)
    \/ ResetJitter

\* The differences calculateJitter averages.
Differences(s) == [i \in 1..(Len(s) - 1) |-> Distance(s[i], s[i + 1])]

-----------------------------------------------------------------------------
(* PacketLossMonitor: start(), stop() and the rounds of its thread.        *)

LossStart ==
    /\ ~loss.running /\ loss.thread = "none"
    /\ loss' = [loss EXCEPT !.running = TRUE, !.thread = "measuring"]
    /\ UNCHANGED rounds

LossStop ==
    /\ loss.running
    /\ loss' = [loss EXCEPT !.running = FALSE]
    /\ UNCHANGED rounds

\* measure(): lost packets over sent ones, none sent when the address is bad.
LossMeasure(v) ==
    /\ loss.thread = "measuring"
    /\ loss' = IF loss.running THEN [loss EXCEPT !.thread = "writing", !.result = v]
               ELSE [loss EXCEPT !.thread = "none"]
    /\ UNCHANGED rounds

\* Mutant: the average is taken after stats_ was stored.
LossWriteEarly ==
    /\ loss.thread = "writing" /\ Len(rounds) < MaxCalls
    /\ loss' = [loss EXCEPT !.thread = "reporting", !.sum = 0, !.of = 0,
                            !.history = LastOf(Append(@, loss.result), LossHistory)]
    /\ rounds' = Append(rounds, loss.result)

LossWrite ==
    /\ loss.thread = "writing" /\ Len(rounds) < MaxCalls
    /\ LET history == LastOf(Append(loss.history, loss.result), LossHistory) IN
       loss' = [loss EXCEPT !.thread = "reporting", !.history = history,
                            !.sum = Sum(history), !.of = Len(history)]
    /\ rounds' = Append(rounds, loss.result)

\* The callback, then a sleep that stop() does not cut short.
LossReport ==
    /\ loss.thread = "reporting"
    /\ loss' = [loss EXCEPT !.thread = "measuring"]
    /\ UNCHANGED rounds

LossReset ==
    /\ loss' = [loss EXCEPT !.history = <<>>, !.sum = 0, !.of = 0]
    /\ rounds' = <<>>

LossStep ==
    \/ LossStart \/ LossStop \/ LossWrite \/ LossReport \/ LossReset
    \/ \E v \in Values : LossMeasure(v)

StatisticsNext ==
    /\ UNCHANGED subject
    /\ \/ subject = "collector" /\ CollectorStep /\ UNCHANGED <<jitter, loss, rounds>>
       \/ subject = "jitter" /\ JitterStep /\ UNCHANGED <<collector, heard, loss, rounds>>
       \/ subject = "loss" /\ LossStep /\ UNCHANGED <<collector, heard, jitter>>

StatisticsSpec == StatisticsInit /\ [][StatisticsNext]_statisticsVars

StatisticsTypeOK ==
    /\ collector.recording \in BOOLEAN
    /\ Len(collector.session.snapshots) <= MaxSnapshots
    /\ \A c \in Channels : collector.session.total[c] \in Nat
    /\ \A l \in Range(jitter.latencies) : l \in Values
    /\ loss.thread \in {"none", "measuring", "writing", "reporting"}
    /\ Len(loss.history) <= LossHistory

-----------------------------------------------------------------------------
(* Properties.                                                             *)

\* A session that was started is filed at most once, however often stop() is
\* called: by the end of the game, by the service's own stop.
SessionsEndOnce == Len(collector.past) <= heard.started

\* The jitter the page shows is the jitter of the latencies in the window,
\* through resets and changes of the window's size in any order.
JitterOfTheWindow ==
    /\ Len(jitter.jitters) <= Len(jitter.latencies)
    /\ LastOf(jitter.jitters, Len(jitter.latencies) - 1) = Differences(jitter.latencies)

\* The average a round reports is that of the last rounds since resetStats(),
\* which may be called between any two steps of the thread.
LossAverageIsOfItsRounds ==
    loss.thread = "reporting" /\ rounds # <<>> =>
        /\ loss.sum = Sum(LastOf(rounds, LossHistory))
        /\ loss.of = Len(LastOf(rounds, LossHistory))

\* What the collector, the jitter calculator and the loss monitor hand out is
\* of the sessions, the window and the rounds it is named after.
NumbersAreOfTheirWindow == SessionsEndOnce /\ JitterOfTheWindow /\ LossAverageIsOfItsRounds

\* What the test at unit_tests.cpp:2688 says of the counters of single
\* channels: the averages are correct, so none leaves the range of the values
\* its own channel was given.
AveragesAreOfTheirChannel ==
    \A c \in Channels : heard.channel[c] # <<>> =>
        LET average == AverageOf(collector.session)[c] IN
        \E low, high \in ToSet(heard.channel[c]) :
            low * average.of <= average.sum /\ average.sum <= high * average.of
=============================================================================
