-------------------------------- MODULE MCPages --------------------------------
(***************************************************************************)
(* The pages of the window and the command line, for TLC: one front end    *)
(* over the gate, the setup page and the change center over the journal,   *)
(* the ways of the setup page, the diagnosis, the switches, the network    *)
(* tools, the frame with the knowledge page, the views of the monitoring,  *)
(* the settings dialog and the console.  They share no variable, and each  *)
(* goes its own way: a behaviour for TLC is about one of them, and the     *)
(* others stay as they began.                                              *)
(***************************************************************************)
EXTENDS BoostGate, ChangePages, SetupPage, Diagnosis, Switches, NetTools, Shell, Views, Console, Preferences

WindowPagesSpec ==
    /\ Spec /\ PagesSpec /\ SetupSpec /\ DiagnosisSpec /\ SwitchesSpec /\ NetToolsSpec
    /\ ShellSpec /\ ViewsSpec /\ ConsoleSpec /\ PreferencesSpec

\* Every variable has its type.
WindowTypeOK ==
    /\ TypeOK /\ PagesTypeOK /\ SetupTypeOK /\ DiagnosisTypeOK /\ SwitchesTypeOK /\ NetToolsTypeOK
    /\ ShellTypeOK /\ ViewsTypeOK /\ ConsoleTypeOK /\ PreferencesTypeOK

\* What is asked of the engine, by a page or on the command line, is what is
\* done, and what is done is what is said; what is chosen in the settings stays:
\* the properties of ChangePages, SetupPage, Console and Preferences.
ChangesAreShown ==
    /\ [](SetupButtonIsRight /\ EveryTickHasItsRow /\ AppliedIsNotBlamed /\ ButtonCountsTicks /\ SavedIsLoaded)
    /\ ListOutlivesFailure
    /\ [](EveryOptionIsHeard /\ MistakesChangeNothing /\ CodeTellsOutcome)
    /\ PreferencesAreKept

\* What is measured is what is shown, on the page it belongs to, whatever came
\* in between: the properties of Diagnosis, Switches, NetTools, Shell and Views.
MeasuredIsShown ==
    /\ [](ExportIsOnThePage /\ GoodNetworkIsNotBlamed /\ FailedChecksComeFirst)
    /\ [](HalvesDiffer /\ ItemShowsOverlay) /\ MeasurementRestores /\ AnnouncedAfterRecovery
    /\ [](BestIsOfAll /\ ManagerOutlivesItsThread /\ RowsAreOfTheirPreset /\ AddressIsFresh)
    /\ [](BarTellsThePage /\ FixIsOfTheArticle) /\ TabsAreBuiltWhenShown /\ BestAreChosen
    /\ []LogIsTheLatest /\ EndOfGameIsSeen

-----------------------------------------------------------------------------
(* The instance.                                                           *)

MCPings == {-1, 70, 90, 120}
MCThresholds == {<<50, 1>>, <<100, 3>>}
MCOptions == {"FullscreenOptimizations", "TcpParameters", "Mtu", "VirtualMemory"}
MCAdapters == <<"vpn", "lan">>

\* Every option, its value missing, wrong, empty or an option itself, and two
\* commands on one line.
MCLines == {
    <<>>, <<"cs">>, <<"--target", "1.1.1.1", "--ping", "5">>, <<"--ping", "many">>, <<"--ping">>,
    <<"--boost", "--game", "cs">>, <<"--game", "cs">>, <<"--game", "dota">>, <<"--game", "">>,
    <<"--dns-apply", "1.1.1.1", "--boost">>, <<"--dns-apply", "1.1.1.1", "1.0.0.1", "--revert">>,
    <<"--history-clear", "--boots">>, <<"--boost", "--dns-apply">>, <<"--revert">>, <<"--watch">>,
    <<"--multipath">>, <<"--speedtest", "--target", "--boost">>, <<"--import-profile", "f">>,
    <<"--export-profile", "f", "--history">>, <<"--help", "--boost">>, <<"--list-games">>,
    <<"--dns", "s">>, <<"--boost-status">>, <<"--history-clear">>, <<"--boost">>}
MCDashed == {
    "--target", "--ping", "--boost", "--game", "--dns-apply", "--revert", "--history-clear", "--boots",
    "--watch", "--multipath", "--speedtest", "--import-profile", "--export-profile", "--history",
    "--help", "--list-games", "--dns", "--boost-status"}

MCTabs == [p \in {2, 3} |-> 2]
Article(title, game, words, itsFix) == [title |-> title, game |-> game, words |-> words, fix |-> itsFix]
MCArticles == <<
    Article("lag", "cs", {"route"}, "dns_tcp"), Article("drops", "dota", {"router", "loss"}, ""),
    Article("stutter", "cs", {"fps"}, "")>>
MCReports == {
    [outcome |-> "InsufficientData", game |-> "cs", words |-> {}],
    [outcome |-> "LocalNetworkProblem", game |-> "dota", words |-> {"router", "loss"}],
    [outcome |-> "NoImprovementFound", game |-> "", words |-> {"fps"}],
    [outcome |-> "ImprovementLikely", game |-> "cs", words |-> {"route", "loss"}]}

MCSessions == {
    [ping |-> 100, jitter |-> 7, loss |-> 0, evening |-> FALSE],
    [ping |-> 20, jitter |-> 1, loss |-> 4, evening |-> TRUE]}
MCAnswers == {-1, 30}

-----------------------------------------------------------------------------
VARIABLES
    under \* the part a behaviour is about

WindowParts ==
    {"gate", "changes", "setup", "diagnosis", "switches", "network", "frame", "views", "console",
     "preferences"}
windowVars == <<under, vars, pagesVars, setupVars, diagnosisVars, switchesVars,
                netToolsVars, shellVars, viewsVars, consoleVars, preferencesVars>>

SetupRests == SetupInit /\ machine.up = {} /\ ~machine.game
DiagnosisRests == DiagnosisInit /\ half = "route" /\ ~gameUp
SwitchesRest == SwitchesInit /\ switch = "boost" /\ ~overlay.visible
NetToolsRest == NetToolsInit /\ tool = "speed"
ViewsRest == ViewsInit /\ history = <<>>
ConsoleRests == ConsoleInit /\ line = <<>> /\ ~revertable

WindowInit ==
    /\ under \in WindowParts
    /\ Init /\ PagesInit /\ ShellInit /\ PreferencesInit
    /\ IF under = "setup" THEN SetupInit /\ machine.up \in {{}, Names} ELSE SetupRests
    /\ IF under = "diagnosis" THEN DiagnosisInit ELSE DiagnosisRests
    /\ IF under = "switches" THEN SwitchesInit ELSE SwitchesRest
    /\ IF under = "network" THEN NetToolsInit ELSE NetToolsRest
    /\ IF under = "views" THEN ViewsInit ELSE ViewsRest
    /\ IF under = "console" THEN ConsoleInit ELSE ConsoleRests

BesideGate == <<under, pagesVars, setupVars, diagnosisVars, switchesVars, netToolsVars,
                shellVars, viewsVars, consoleVars, preferencesVars>>
BesideChanges == <<under, vars, setupVars, diagnosisVars, switchesVars, netToolsVars,
                   shellVars, viewsVars, consoleVars, preferencesVars>>
BesideSetup == <<under, vars, pagesVars, diagnosisVars, switchesVars, netToolsVars,
                 shellVars, viewsVars, consoleVars, preferencesVars>>
BesideDiagnosis == <<under, vars, pagesVars, setupVars, switchesVars, netToolsVars,
                     shellVars, viewsVars, consoleVars, preferencesVars>>
BesideSwitches == <<under, vars, pagesVars, setupVars, diagnosisVars, netToolsVars,
                    shellVars, viewsVars, consoleVars, preferencesVars>>
BesideNetwork == <<under, vars, pagesVars, setupVars, diagnosisVars, switchesVars,
                   shellVars, viewsVars, consoleVars, preferencesVars>>
BesideFrame == <<under, vars, pagesVars, setupVars, diagnosisVars, switchesVars,
                 netToolsVars, viewsVars, consoleVars, preferencesVars>>
BesideViews == <<under, vars, pagesVars, setupVars, diagnosisVars, switchesVars,
                 netToolsVars, shellVars, consoleVars, preferencesVars>>
BesideConsole == <<under, vars, pagesVars, setupVars, diagnosisVars, switchesVars,
                   netToolsVars, shellVars, viewsVars, preferencesVars>>
BesidePreferences == <<under, vars, pagesVars, setupVars, diagnosisVars, switchesVars,
                       netToolsVars, shellVars, viewsVars, consoleVars>>

WindowNext ==
    \/ under = "gate" /\ Next /\ UNCHANGED BesideGate
    \/ under = "changes" /\ PagesNext /\ UNCHANGED BesideChanges
    \/ under = "setup" /\ SetupNext /\ UNCHANGED BesideSetup
    \/ under = "diagnosis" /\ DiagnosisNext /\ UNCHANGED BesideDiagnosis
    \/ under = "switches" /\ SwitchesNext /\ UNCHANGED BesideSwitches
    \/ under = "network" /\ NetToolsNext /\ UNCHANGED BesideNetwork
    \/ under = "frame" /\ ShellNext /\ UNCHANGED BesideFrame
    \/ under = "views" /\ ViewsNext /\ UNCHANGED BesideViews
    \/ under = "console" /\ ConsoleNext /\ UNCHANGED BesideConsole
    \/ under = "preferences" /\ PreferencesNext /\ UNCHANGED BesidePreferences

PageProceeds(a) == under = "changes" /\ ActorRuns(a)
SetupProceeds == under = "setup" /\ WorkerSteps
DiagnosisProceeds == under = "diagnosis" /\ DiagnosisRuns
NetworkProceeds == under = "network" /\ NetToolsRuns
ConsoleProceeds == under = "console" /\ (Read \/ Command)

\* The threads of the pages and the event loop go on, and so does the console;
\* users, games, the network and the other front ends owe nothing.
PageScheduled(a) == WF_pagesVars(PageProceeds(a))
OthersScheduled ==
    /\ WF_setupVars(SetupProceeds)
    /\ WF_diagnosisVars(DiagnosisProceeds)
    /\ WF_netToolsVars(NetworkProceeds)
    /\ WF_consoleVars(ConsoleProceeds)
WindowFairness == (\A a \in Pages : PageScheduled(a)) /\ OthersScheduled

WindowSpec == WindowInit /\ [][WindowNext]_windowVars /\ WindowFairness

-----------------------------------------------------------------------------
\* Whatever a click starts gives its buttons back: the pages of the journal,
\* the setup page, the diagnosis and the map; and a call of the console ends,
\* watches or probes.  It is PagesComeBack, PageIsGivenBack, ButtonsAreGivenBack,
\* MapButtonsComeBack or CallEnds, for what the behaviour is about.
AtWork(a) ==
    \/ under = "changes" /\ desk[a].at # "idle"
    \/ /\ a = "setup"
       /\ \/ under = "setup" /\ Running
          \/ under = "diagnosis" /\ (routeRunning \/ launchRunning)
          \/ under = "network" /\ ~map.buttons
          \/ under = "console" /\ phase \notin Ended \cup {"--watch", "probing"}
WorkEnds == \A a \in Pages : AtWork(a) ~> ~AtWork(a)

PageCan(a) == ENABLED <<PageProceeds(a)>>_pagesVars
SetupCan == ENABLED <<SetupProceeds>>_setupVars
DiagnosisCan == ENABLED <<DiagnosisProceeds>>_diagnosisVars
NetworkCan == ENABLED <<NetworkProceeds>>_netToolsVars
ConsoleCan == ENABLED <<ConsoleProceeds>>_consoleVars

\* Work that was started has a next step: what the liveness theorem assumes of
\* ENABLED.
WorkGoesOn ==
    /\ under = "changes" => \A a \in Pages : AtWork(a) => PageCan(a)
    /\ under = "setup" /\ AtWork("setup") => SetupCan
    /\ under = "diagnosis" /\ AtWork("setup") => DiagnosisCan
    /\ under = "network" /\ AtWork("setup") => NetworkCan
    /\ under = "console" /\ AtWork("setup") => ConsoleCan
=============================================================================
