------------------------------- MODULE Diagnosis -------------------------------
(***************************************************************************)
(* The page of diagnostics: the examination of the route to the server of  *)
(* a game, which the user can cancel, and the eleven checks at the start   *)
(* of a game.  Both work on a detached thread each and post their result   *)
(* to the window.                                                          *)
(*                                                                         *)
(* A probe is answered in time, answered late, or lost.  What the program  *)
(* calls bad is more than 2% of loss, 80 ms or 15 ms of jitter: with the   *)
(* dozen probes of a sample one lost probe is enough.                      *)
(***************************************************************************)
EXTENDS Naturals, Sequences, Sublists

CONSTANTS
    Probes,     \* probes that fit in the time of a sample
    MaxRoutes,  \* bound on examinations of the route
    MaxLaunches \* bound on runs of the checks

Enough == 3     \* answers a sample needs

ASSUME DiagnosisAssumption ==
    /\ Probes \in Nat /\ Probes >= Enough
    /\ MaxRoutes \in Nat /\ MaxLaunches \in Nat

VARIABLES
    half,           \* "route" or "launch": the two share nothing
    gameUp,         \* the game runs
    routes,         \* the work of every examination started so far
    routeRunning,   \* m_routeRunning_, and the button it disables
    cancelled,      \* the examinations whose token is cancelled
    hasReport,      \* m_hasRouteReport_: there is a report to export
    onPage,         \* the examination the page shows the end of, 0 for none
    advice,         \* the examination the recommendation is of, 0 for none
    launchRunning,  \* m_running_
    checks,         \* the checks of the run that works or has posted, as add() leaves them
    cards,          \* the checks as the page lists them
    launches        \* runs of the checks so far

routeVars == <<gameUp, routes, routeRunning, cancelled, hasReport, onPage, advice>>
launchVars == <<launchRunning, checks, cards, launches>>
diagnosisVars == <<half, routeVars, launchVars>>

Samples == {"none", "good", "bad"}
Outcomes == {"Improvement", "NoImprovement", "Local", "Insufficient"}
Errors == {"GameNotDetected", "EndpointNotObserved", "Cancelled"}
Stages == {"locate", "observe", "resolve", "gateway", "direct", "probe", "posted", "over"}

-----------------------------------------------------------------------------
(* DiagnosticsService::run, one stage after the other.                     *)

LatestRun == Len(routes)
NewRoute == [stage |-> "locate", sent |-> 0, received |-> 0, slow |-> FALSE,
             gateway |-> "none", direct |-> "none", reference |-> "none",
             result |-> "Insufficient", trouble |-> FALSE]

Moves(r, work) == routes' = [routes EXCEPT ![r] = work]
Goes(r, stage) == Moves(r, [routes[r] EXCEPT !.stage = stage])
\* Of the work only its result leaves the thread.
Posted(result, trouble) == [NewRoute EXCEPT !.stage = "posted", !.result = result, !.trouble = trouble]
Ends(r, result) == Moves(r, Posted(result, routes[r].trouble))
Fresh(work) == [work EXCEPT !.sent = 0, !.received = 0, !.slow = FALSE]

\* The game is looked for among the processes, then its connections.
Locate(r) ==
    /\ routes[r].stage = "locate"
    /\ \/ ~gameUp /\ Ends(r, "GameNotDetected")
       \/ gameUp /\ r \in cancelled /\ Ends(r, "Cancelled")
       \/ gameUp /\ r \notin cancelled /\ Goes(r, "observe")

Observe(r) ==
    /\ routes[r].stage = "observe"
    /\ \/ r \in cancelled /\ Ends(r, "Cancelled")
       \/ r \notin cancelled /\ Ends(r, "EndpointNotObserved")
       \/ r \notin cancelled /\ gameUp /\ Goes(r, "resolve")

\* Without a gateway its sample is left out.
AfterGateway(r, work) ==
    Moves(r, IF r \in cancelled THEN Posted("Cancelled", work.trouble)
             ELSE [Fresh(work) EXCEPT !.stage = "direct"])

ResolveName(r) ==
    /\ routes[r].stage = "resolve"
    /\ Goes(r, "gateway") \/ AfterGateway(r, routes[r])

\* One round of the loop of NetworkSampler::sample.
Probe(r) ==
    /\ routes[r].stage \in {"gateway", "direct"}
    /\ r \notin cancelled /\ routes[r].sent < Probes
    /\ \E answer, late \in BOOLEAN :
          /\ late => answer
          /\ Moves(r, [routes[r] EXCEPT !.sent = @ + 1,
                                        !.received = IF answer THEN @ + 1 ELSE @,
                                        !.slow = @ \/ late,
                                        !.trouble = @ \/ late \/ ~answer])

SampleOver(r) == r \in cancelled \/ routes[r].sent = Probes

\* What sample() returns: nothing when it was cancelled or hardly answered.
Sampled(r) ==
    IF r \in cancelled \/ routes[r].received < Enough THEN "none"
    ELSE IF routes[r].slow \/ routes[r].received < routes[r].sent THEN "bad" ELSE "good"

GatewayDone(r) ==
    /\ routes[r].stage = "gateway" /\ SampleOver(r)
    /\ AfterGateway(r, [routes[r] EXCEPT !.gateway = Sampled(r)])

\* A direct sample that came to nothing is a report all the same.
DirectDone(r) ==
    /\ routes[r].stage = "direct" /\ SampleOver(r)
    /\ IF Sampled(r) = "none" THEN Ends(r, "Insufficient")
       ELSE Moves(r, [routes[r] EXCEPT !.stage = "probe", !.direct = Sampled(r)])

\* Mutant: a gateway that did not answer is a bad one.
ClassifyGateway(work) ==
    IF work.gateway # "good" THEN "Local"
    ELSE IF work.direct = "good" THEN "NoImprovement" ELSE "Insufficient"

\* The classification, the local network first.
Classify(work) ==
    IF work.gateway = "bad" THEN "Local"
    ELSE IF work.direct = "good" THEN "NoImprovement"
    ELSE CASE work.reference = "good" -> "Improvement"
           [] work.reference = "bad" -> "Local"
           [] work.reference = "none" -> "Insufficient"

\* ProbeClient::measure: the best answer of the public addresses, none when
\* it is cancelled or nothing answers.
Measure(r) ==
    /\ routes[r].stage = "probe"
    /\ \E reference \in (IF r \in cancelled THEN {"none"} ELSE Samples) :
          LET work == [routes[r] EXCEPT !.reference = reference] IN
          Moves(r, Posted(Classify(work), work.trouble \/ reference # "good"))

RouteWorks(r) ==
    /\ Locate(r) \/ Observe(r) \/ ResolveName(r) \/ Probe(r) \/ GatewayDone(r)
          \/ DirectDone(r) \/ Measure(r)
    /\ UNCHANGED <<gameUp, routeRunning, cancelled, hasReport, onPage, advice>>

-----------------------------------------------------------------------------
(* The page.                                                               *)

\* Mutant: the report of before can still be exported.
RunRouteKeepingReport ==
    /\ ~routeRunning /\ LatestRun < MaxRoutes
    /\ routeRunning' = TRUE
    /\ routes' = Append(routes, NewRoute)
    /\ UNCHANGED <<gameUp, cancelled, hasReport, onPage, advice>>

\* runRouteDiagnostics, with a token of its own.
RunRoute ==
    /\ ~routeRunning /\ LatestRun < MaxRoutes
    /\ routeRunning' = TRUE
    /\ hasReport' = FALSE
    /\ routes' = Append(routes, NewRoute)
    /\ onPage' = 0
    /\ UNCHANGED <<gameUp, cancelled, advice>>

CancelRoute ==
    /\ routeRunning
    /\ cancelled' = cancelled \cup {LatestRun}
    /\ UNCHANGED <<gameUp, routes, routeRunning, hasReport, onPage, advice>>

\* The result is delivered to the page; a report goes to the monitoring
\* service too, which has no recommendation for one without an outcome.
Deliver(r) ==
    /\ routes[r].stage = "posted"
    /\ Goes(r, "over")
    /\ routeRunning' = FALSE /\ onPage' = r
    /\ IF routes[r].result \in Outcomes
       THEN hasReport' = TRUE /\ advice' = IF routes[r].result = "Insufficient" THEN 0 ELSE r
       ELSE UNCHANGED <<hasReport, advice>>
    /\ UNCHANGED <<gameUp, cancelled>>

GameComesOrGoes ==
    /\ gameUp' = ~gameUp
    /\ UNCHANGED <<routes, routeRunning, cancelled, hasReport, onPage, advice>>

RouteThreads == \E r \in DOMAIN routes : RouteWorks(r) \/ Deliver(r)
RouteStep == RunRoute \/ CancelRoute \/ GameComesOrGoes \/ RouteThreads

-----------------------------------------------------------------------------
(* The checks at the start of a game.                                      *)

\* The severity a check has when it fails, and whether it has a fix.
Declared == <<[severity |-> 2, fix |-> FALSE],  \* internet
              [severity |-> 1, fix |-> TRUE],   \* DNS
              [severity |-> 1, fix |-> TRUE],   \* MTU
              [severity |-> 1, fix |-> TRUE],   \* power plan
              [severity |-> 1, fix |-> TRUE],   \* game DVR
              [severity |-> 0, fix |-> TRUE],   \* fullscreen optimisations
              [severity |-> 1, fix |-> FALSE],  \* disk
              [severity |-> 1, fix |-> FALSE],  \* memory
              [severity |-> 1, fix |-> FALSE],  \* conflicting processes
              [severity |-> 0, fix |-> FALSE],  \* process of the game
              [severity |-> 2, fix |-> FALSE]>> \* libraries

\* Mutant: a check that fails keeps the severity it has.
AddAsDeclared(declared, passed) ==
    [severity |-> IF passed THEN 0 ELSE declared.severity, passed |-> passed, fix |-> declared.fix]

\* LaunchDiagnostics::add
Add(declared, passed) ==
    [severity |-> IF passed THEN 0 ELSE IF declared.severity = 0 THEN 1 ELSE declared.severity,
     passed |-> passed, fix |-> declared.fix]

\* runDiagnostics, by the button or by the start of a game; one that comes
\* while another runs is dropped.
RunLaunch ==
    /\ ~launchRunning /\ launches < MaxLaunches
    /\ launchRunning' = TRUE /\ launches' = launches + 1 /\ checks' = <<>>
    /\ UNCHANGED cards

Check ==
    /\ launchRunning /\ Len(checks) < Len(Declared)
    /\ \E passed \in BOOLEAN : checks' = Append(checks, Add(Declared[Len(checks) + 1], passed))
    /\ UNCHANGED <<launchRunning, cards, launches>>

OfSeverity(list, n) == Sublist(list, {i \in DOMAIN list : list[i].severity = n})

\* renderResults: errors first, then warnings, then the rest.
ShowChecks ==
    /\ launchRunning /\ Len(checks) = Len(Declared)
    /\ launchRunning' = FALSE
    /\ cards' = OfSeverity(checks, 2) \o OfSeverity(checks, 1) \o OfSeverity(checks, 0)
    /\ UNCHANGED <<checks, launches>>

\* An exception of the worker is posted as an error; the page stays.
LaunchFails ==
    /\ launchRunning
    /\ launchRunning' = FALSE
    /\ UNCHANGED <<checks, cards, launches>>

LaunchThreads == Check \/ ShowChecks \/ LaunchFails
LaunchStep == RunLaunch \/ LaunchThreads

-----------------------------------------------------------------------------
DiagnosisInit ==
    /\ half \in {"route", "launch"}
    /\ gameUp \in BOOLEAN /\ routes = <<>> /\ routeRunning = FALSE /\ cancelled = {}
    /\ hasReport = FALSE /\ onPage = 0 /\ advice = 0
    /\ launchRunning = FALSE /\ checks = <<>> /\ cards = <<>> /\ launches = 0

DiagnosisNext ==
    /\ UNCHANGED half
    /\ \/ half = "route" /\ RouteStep /\ UNCHANGED launchVars
       \/ half = "launch" /\ LaunchStep /\ UNCHANGED routeVars

\* A thread that works goes on, and the window delivers what is posted.
DiagnosisRuns ==
    /\ UNCHANGED half
    /\ \/ half = "route" /\ RouteThreads /\ UNCHANGED launchVars
       \/ half = "launch" /\ LaunchThreads /\ UNCHANGED routeVars

DiagnosisSpec ==
    DiagnosisInit /\ [][DiagnosisNext]_diagnosisVars /\ WF_diagnosisVars(DiagnosisRuns)

DiagnosisTypeOK ==
    /\ \A r \in DOMAIN routes :
          /\ routes[r].stage \in Stages /\ routes[r].result \in Outcomes \cup Errors
          /\ routes[r].received <= routes[r].sent /\ routes[r].sent <= Probes
          /\ {routes[r].gateway, routes[r].direct, routes[r].reference} \subseteq Samples
    /\ cancelled \subseteq DOMAIN routes
    /\ {onPage, advice} \subseteq 0..LatestRun
    /\ Len(checks) <= Len(Declared)

-----------------------------------------------------------------------------
(* Properties.                                                             *)

\* A report that can be exported is the one the page shows, and of the last
\* examination: a new run, whatever it ends with, puts an old report away.
ExportIsOnThePage == hasReport =>
    /\ ~routeRunning /\ onPage = LatestRun
    /\ routes[LatestRun].result \in Outcomes

\* A network in which no probe was lost and none was late is not blamed: no
\* outcome speaks of a problem unless something was measured that is one.
GoodNetworkIsNotBlamed == \A r \in DOMAIN routes :
    routes[r].stage \in {"posted", "over"} /\ routes[r].result \in {"Local", "Improvement"}
        => routes[r].trouble

\* The button comes back, however an examination ends, also when it is
\* cancelled in the middle of a sample; and so does that of the checks.
ButtonsAreGivenBack == (routeRunning ~> ~routeRunning) /\ (launchRunning ~> ~launchRunning)

\* Every check has a card, and no card of a check that failed stands behind
\* one of a check that passed.
FailedChecksComeFirst == \A i, j \in DOMAIN cards :
    /\ Len(cards) = Len(Declared)
    /\ i < j /\ ~cards[j].passed => ~cards[i].passed

\* What diagnostics_widget.cpp:423 says of the token: the service looks at it
\* between the stages and stops.  So an examination that is cancelled before
\* it ends has no report.
CancelIsHeard == [][
    \A r \in cancelled :
        routes[r].stage \notin {"posted", "over"} /\ routes'[r].stage = "posted"
            => routes'[r].result \notin Outcomes]_diagnosisVars
=============================================================================
