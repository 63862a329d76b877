-------------------------------- MODULE Grades --------------------------------
(***************************************************************************)
(* What the program makes of a measurement: the grade of the connection,   *)
(* the health score, the confidence in a server, the verdict on a hop and  *)
(* the advice of a Wi-Fi channel.  A behaviour is about one of them and is *)
(* a measurement that goes on: each step changes one reading.              *)
(*                                                                         *)
(* Grades and levels are numbers, greater ones better, 0 unknown.          *)
(* Fractions are percentages rounded down; the share of the allowed loss   *)
(* is in quarters, of which the code takes the root.                       *)
(***************************************************************************)
EXTENDS Integers, Sequences, FiniteSets, FiniteSetsExt

CONSTANTS
    Pings, Jitters, Losses,  \* readings of the connection, the loss in tenths of a percent
    Latencies,               \* what a probe of a server or a hop measures
    ManySamples,             \* answers that count double for a server
    Window,                  \* how long a sample counts
    MaxSamples,              \* bound on the samples of a server and the clock
    Estimates,               \* the estimates of servers that are compared
    Neighbours               \* the networks around, [channel, strength]

Lost == -1

ASSUME GradesAssumption ==
    /\ Pings \subseteq Int /\ Jitters \subseteq Int /\ Losses \subseteq Int
    /\ Latencies \subseteq Nat \ {0}
    /\ ManySamples \in Nat /\ Window \in Nat /\ MaxSamples \in Nat
    /\ Estimates \subseteq [p50 : Nat, spread : Nat, confidence : 0..3]
    /\ Neighbours \subseteq [channel : 1..13, strength : 1..101]

VARIABLES
    graded,   \* what is graded
    line,     \* the readings of the connection
    health,   \* the inputs of the health score
    server,   \* the samples of a server, [at, latency], and the clock
    servers,  \* the estimates of three servers
    hop,      \* the two probes of a hop, two pings each
    networks  \* the networks around

gradesVars == <<graded, line, health, server, servers, hop, networks>>

\* Mutant: a value beyond the last limit keeps the best score.
StepOpenEnded(value, limits, points) ==
    LET within == {i \in DOMAIN limits : value <= limits[i]}
    IN  IF within = {} THEN 100 ELSE points[Min(within)]

\* The first of the limits, which ascend, that a value stays within.
Step(value, limits, points) ==
    LET within == {i \in DOMAIN limits : value <= limits[i]}
    IN  IF within = {} THEN 0 ELSE points[Min(within)]

-----------------------------------------------------------------------------
(* ConnectionGrader.                                                       *)

PingScore(ping) == Step(ping, <<20, 40, 60, 80, 100, 150, 200>>, <<100, 90, 80, 70, 60, 40, 20>>)
JitterScore(jitter) == Step(jitter, <<5, 10, 20, 30, 50, 100>>, <<100, 90, 75, 60, 40, 20>>)
LossScore(loss) == Step(loss, <<1, 5, 10, 20, 50, 100>>, <<100, 90, 80, 60, 40, 20>>)
GradeFromScore(score) == 6 - Cardinality({l \in {95, 85, 70, 55, 40} : score < l})

\* evaluate: no grade only when there is no reading at all.
Grade(l) ==
    IF l.ping <= 0 /\ l.jitter <= 0 /\ l.loss <= 0 THEN 0
    ELSE GradeFromScore((4 * PingScore(l.ping) + 3 * JitterScore(l.jitter) + 3 * LossScore(l.loss)) \div 10)

-----------------------------------------------------------------------------
(* The health score.  -1 is what was not measured.                         *)

NotMeasured == -1
Clamped(x) == IF x < 0 THEN 0 ELSE IF x > 100 THEN 100 ELSE x

\* Mutant: a value beyond the worst is below 0, which reads as not measured.
PointsUnclamped(value, best, worst) ==
    IF value <= 0 THEN NotMeasured ELSE ((worst - value) * 100) \div (worst - best)

\* scale
Points(value, best, worst) ==
    IF value <= 0 THEN NotMeasured ELSE Clamped(((worst - value) * 100) \div (worst - best))

\* The root of one quarter is a half.
LossPoints(quarters) ==
    IF quarters < 0 THEN NotMeasured
    ELSE IF quarters < 1 THEN 100 ELSE IF quarters < 4 THEN 50 ELSE 0

\* One round of the sum over the parts: what was not measured has no weight.
NoPart == [points |-> 0, weight |-> 0]
Added(sum, points, weight) ==
    IF points < 0 THEN sum
    ELSE [points |-> sum.points + points * weight, weight |-> sum.weight + weight]
Share(sum) == IF sum.weight = 0 THEN NotMeasured ELSE sum.points \div sum.weight

NetworkScore(h) ==
    LET ping   == Added(NoPart, Points(h.ping, 40, 180), 35)
        jitter == Added(ping, Points(h.jitter, 2, 20), 25)
        loss   == Added(jitter, LossPoints(h.loss), 30)
    IN  Share(Added(loss, Points(h.dns, 15, 150), 10))

SystemScore(h) == 100 - 15 * h.slowPlan - 20 * h.fullDisk

ReadyScore(h) == IF h.checks = 0 THEN NotMeasured ELSE (100 * h.passed) \div h.checks

\* confidence: the window of the measurement, how old it is, and what it covers.
Confidence(h) == IF NetworkScore(h) < 0 THEN 0
                 ELSE (Clamped((h.window * 100) \div 60) * (IF h.old THEN 20 ELSE 100)) \div 100

Total(h) ==
    LET network == Added(NoPart, NetworkScore(h), 40)
        system  == Added(network, SystemScore(h), 25)
    IN  Share(Added(system, ReadyScore(h), 20))

LevelOf(total) == 5 - Cardinality({l \in {30, 55, 75, 90} : total < l})

\* compute: nothing is shown of what is not sure; a bad network is critical.
Level(h) ==
    IF Confidence(h) < 40 THEN 0
    ELSE IF NetworkScore(h) < 30 THEN 1
    ELSE LevelOf(Total(h))

-----------------------------------------------------------------------------
(* The confidence in a server.                                             *)

\* What was measured before the clock was set back counts again when it is due.
FreshSamples(s) == {i \in DOMAIN s.samples : s.samples[i].at <= s.now /\ s.now - s.samples[i].at <= Window}

\* Mutant: a sample counts whether it was answered or not.
AnsweredOfAny(measured) == measured

\* The answers among what was measured, each at its place.
AnsweredOf(measured) == [i \in {j \in DOMAIN measured : measured[j] # Lost} |-> measured[i]]
Answers(s) == AnsweredOf([i \in FreshSamples(s) |-> s.samples[i].latency])
MinSamples == 3

\* The answer of rank k.
Ranked(ok, k) == CHOOSE x \in {ok[i] : i \in DOMAIN ok} :
    /\ Cardinality({i \in DOMAIN ok : ok[i] < x}) < k
    /\ Cardinality({i \in DOMAIN ok : ok[i] <= x}) >= k

Number(ok) == Cardinality(DOMAIN ok)
P50(ok) == Ranked(ok, (Number(ok) \div 2) + 1)
Spread(ok) == Ranked(ok, Min({Number(ok), ((Number(ok) * 95) \div 100) + 1})) - P50(ok)

Availability(s) == (100 * Number(Answers(s))) \div Cardinality(FreshSamples(s))

\* estimate: 0 without data, 1 low, 2 medium, 3 high.
ServerConfidence(s) ==
    LET ok == Answers(s)
        points == (IF Number(ok) >= ManySamples THEN 2 ELSE 1)
                + (IF Availability(s) >= 95 THEN 2 ELSE IF Availability(s) >= 80 THEN 1 ELSE 0)
                + (IF 4 * Spread(ok) <= P50(ok) THEN 2 ELSE IF 10 * Spread(ok) <= 6 * P50(ok) THEN 1 ELSE 0)
    IN  IF Number(ok) = 0 THEN 0
        ELSE IF Number(ok) < MinSamples THEN 1
        ELSE IF points >= 5 THEN 3 ELSE IF points >= 3 THEN 2 ELSE 1

\* Mutant: the noise is that of the steadier server.
BetterThanTheSteadier(a, b) ==
    /\ a.confidence >= 2 /\ b.confidence >= 2
    /\ b.p50 - a.p50 > (IF a.spread < b.spread THEN a.spread ELSE b.spread)

\* confidentBetter
Better(a, b) ==
    /\ a.confidence >= 2 /\ b.confidence >= 2
    /\ b.p50 - a.p50 > (IF a.spread > b.spread THEN a.spread ELSE b.spread)

-----------------------------------------------------------------------------
(* The verdict on a hop, and the channel.                                  *)

Mean(ok) == IF Number(ok) = 0 THEN 0
            ELSE MapThenSumSet(LAMBDA i : ok[i], DOMAIN ok) \div Number(ok)

\* twoProbeJitter, benchmarkServer: a probe is the mean of the pings that
\* were answered.
ProbesOf(h) ==
    [i \in 1..2 |-> IF Number(AnsweredOf(h[i])) = 0 THEN Lost ELSE Mean(AnsweredOf(h[i]))]

\* Mutant: the share of lost probes is taken as a whole number.
LossPercentWhole(probes) ==
    100 * (Cardinality({i \in DOMAIN probes : probes[i] = Lost}) \div Len(probes))

LossPercent(probes) ==
    (100 * Cardinality({i \in DOMAIN probes : probes[i] = Lost})) \div Len(probes)

\* summarizeProbes
HopJitter(ok) == IF Number(ok) < 2 THEN 0
                 ELSE IF ok[1] > ok[2] THEN ok[1] - ok[2] ELSE ok[2] - ok[1]

\* hopVerdict: 1 dead, 2 bad, 3 warn, 4 ok.
Verdict(probes) ==
    LET ok == AnsweredOf(probes)
    IN  IF Number(ok) = 0 THEN 1
        ELSE IF LossPercent(probes) > 15 \/ Mean(ok) > 120 THEN 2
        ELSE IF LossPercent(probes) > 2 \/ HopJitter(ok) > 12 THEN 3
        ELSE 4

Apart(c, n) == IF c > n.channel THEN c - n.channel ELSE n.channel - c

\* Mutant: a network disturbs its own channel and the next.
DisturbanceNarrow(c, n) == IF Apart(c, n) <= 1 THEN n.strength * (2 - Apart(c, n)) ELSE 0

Disturbance(c, n) == IF Apart(c, n) <= 2 THEN n.strength * (3 - Apart(c, n)) ELSE 0

\* The weight of a channel, unit by unit.
DisturbedBy(c) == UNION {{n} \X (1 .. Disturbance(c, n)) : n \in networks}

\* bestChannel24: the first of the three with the least weight.
BestChannel ==
    LET weight == [c \in {1, 6, 11} |-> Cardinality(DisturbedBy(c))]
    IN  Min({c \in {1, 6, 11} : \A d \in {1, 6, 11} : weight[c] <= weight[d]})

-----------------------------------------------------------------------------
GradesInit ==
    /\ graded \in {"line", "health", "server", "servers", "hop", "channel"}
    /\ line = [ping |-> 0, jitter |-> 0, loss |-> 0]
    /\ health = [ping |-> NotMeasured, jitter |-> NotMeasured, loss |-> NotMeasured,
                 dns |-> NotMeasured, slowPlan |-> 0, fullDisk |-> 0, checks |-> 0, passed |-> 0,
                 window |-> 60, old |-> FALSE]
    /\ server = [samples |-> <<>>, now |-> 0]
    /\ servers = [i \in 1..3 |-> [p50 |-> 0, spread |-> 0, confidence |-> 0]]
    /\ hop = <<<<>>, <<>>>>
    /\ networks = {}

Measured ==
    \E p \in Pings, j \in Jitters, l \in Losses :
        line' \in {[line EXCEPT !.ping = p], [line EXCEPT !.jitter = j], [line EXCEPT !.loss = l]}

HealthChanges ==
    \/ \E v \in {1, 30, 100, 200, 400} : health' \in {[health EXCEPT !.ping = v], [health EXCEPT !.dns = v]}
    \/ \E v \in {1, 12, 30} : health' = [health EXCEPT !.jitter = v]
    \/ \E v \in {0, 1, 4} : health' = [health EXCEPT !.loss = v]
    \/ health' \in {[health EXCEPT !.slowPlan = 1], [health EXCEPT !.fullDisk = 1],
                    [health EXCEPT !.checks = 2, !.passed = 2], [health EXCEPT !.checks = 2, !.passed = 1],
                    [health EXCEPT !.window = 20], [health EXCEPT !.old = TRUE]}

ServerProbed ==
    /\ Len(server.samples) < MaxSamples
    /\ \E l \in Latencies \cup {Lost} :
          server' = [server EXCEPT !.samples = Append(@, [at |-> server.now, latency |-> l])]

\* The clock of the system goes on, or is set back.
TimePassed == \E n \in {server.now + 1, server.now - 1} \cap (0..Window + 1) : server' = [server EXCEPT !.now = n]

Estimated == \E i \in 1..3, e \in Estimates : servers' = [servers EXCEPT ![i] = e]

HopProbed ==
    \E i \in 1..2, l \in Latencies \cup {Lost} :
        /\ Len(hop[i]) < 2
        /\ hop' = [hop EXCEPT ![i] = Append(@, l)]

NetworkFound ==
    /\ Cardinality(networks) < 2
    /\ \E n \in Neighbours : networks' = networks \cup {n}

GradesNext ==
    /\ UNCHANGED graded
    /\ \/ graded = "line" /\ Measured /\ UNCHANGED <<health, server, servers, hop, networks>>
       \/ graded = "health" /\ HealthChanges /\ UNCHANGED <<line, server, servers, hop, networks>>
       \/ /\ graded = "server" /\ (ServerProbed \/ TimePassed)
          /\ UNCHANGED <<line, health, servers, hop, networks>>
       \/ graded = "servers" /\ Estimated /\ UNCHANGED <<line, health, server, hop, networks>>
       \/ graded = "hop" /\ HopProbed /\ UNCHANGED <<line, health, server, servers, networks>>
       \/ graded = "channel" /\ NetworkFound /\ UNCHANGED <<line, health, server, servers, hop>>

GradesSpec == GradesInit /\ [][GradesNext]_gradesVars
-----------------------------------------------------------------------------
GradesTypeOK ==
    /\ graded \in {"line", "health", "server", "servers", "hop", "channel"}
    /\ line \in [ping : Pings \cup {0}, jitter : Jitters \cup {0}, loss : Losses \cup {0}]
    /\ servers \in [1..3 -> [p50 : Nat, spread : Nat, confidence : 0..3]]
    /\ \A i \in DOMAIN server.samples : server.samples[i].at \in Nat
    /\ networks \subseteq Neighbours

Known(l) == l.ping > 0 /\ l.jitter > 0 /\ l.loss > 0

\* ConnectionGrader::evaluate: a line that measures worse in every respect,
\* and was measured in each, is not graded better.
GradeFallsWithTheLine ==
    [][Known(line) /\ line'.ping >= line.ping /\ line'.jitter >= line.jitter /\ line'.loss >= line.loss
        => Grade(line') <= Grade(line)]_gradesVars

\* health_score.h: a measure that was there and gets worse does not raise the
\* level that is shown; the score of the clamped parts falls, and a part never
\* drops out because it is too bad.
HealthFallsWithItsParts ==
    [][(/\ health'.ping >= health.ping /\ health'.jitter >= health.jitter
        /\ health'.loss >= health.loss /\ health'.dns >= health.dns
        /\ \A v \in {health.ping, health.jitter, health.loss, health.dns} : v >= 0
        /\ health'.slowPlan >= health.slowPlan /\ health'.fullDisk >= health.fullDisk
        /\ health'.checks = health.checks /\ health'.passed <= health.passed)
       => Level(health') <= Level(health)]_gradesVars

\* server_confidence.h: a probe that is not answered never makes the program
\* surer of a server.
FailureNeverRaisesConfidence ==
    [][Len(server'.samples) > Len(server.samples)
        /\ server'.samples[Len(server'.samples)].latency = Lost
        => ServerConfidence(server') <= ServerConfidence(server)]_gradesVars

\* confidentBetter: servers of the map that are confidently better than each
\* other form an order: none is better than itself by way of another.
BetterIsTransitive ==
    Better(servers[1], servers[2]) /\ Better(servers[2], servers[3]) => Better(servers[1], servers[3])

\* hopVerdict: a hop that left a whole probe unanswered is bad or dead.
SilenceIsSeen ==
    \A i \in 1..2 : Len(hop[1]) = 2 /\ Len(hop[2]) = 2 /\ hop[i] = <<Lost, Lost>> => Verdict(ProbesOf(hop)) <= 2

\* bestChannel24: when one of the three channels is undisturbed, so is the
\* one that is advised.
AdviceIsQuiet ==
    (\E c \in {1, 6, 11} : \A n \in networks : Apart(c, n) > 2)
        => \A n \in networks : Apart(BestChannel, n) > 2

\* The grades keep the order of what is measured: worse values are not graded
\* better, one lost answer does not help, better is an order, and advice holds.
GradesKeepTheOrder ==
    /\ [](BetterIsTransitive /\ SilenceIsSeen /\ AdviceIsQuiet)
    /\ GradeFallsWithTheLine /\ HealthFallsWithItsParts /\ FailureNeverRaisesConfidence
=============================================================================
