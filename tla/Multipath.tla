------------------------------- MODULE Multipath -------------------------------
(***************************************************************************)
(* The multipath engine: gateways are paths, a thread probes them without  *)
(* the lock and may switch to a better one.  The page and the console      *)
(* start and stop it; routes are added and removed by whoever uses it as a *)
(* library, as the tests do.  What the callbacks show is left out.         *)
(*                                                                         *)
(* A critical section of paths_mutex_ is one step.  The metrics of a path  *)
(* are its health and its score, a small number; those of a path that was  *)
(* not probed yet are Fresh, whose zeroes give it the full hundred points. *)
(***************************************************************************)
EXTENDS Naturals, Sequences, FiniteSets, Functions

CONSTANTS
    Adapters,    \* the gateways of the network adapters that are up
    Gateways,    \* the gateways addRoute() may be called with
    MaxPathIds,  \* bound on the paths one run of the engine creates
    MaxStarts,   \* bound on the runs
    Threshold,   \* switch_threshold_ms, in scores
    MaxPaths     \* max_paths

Fresh == [healthy |-> TRUE, score |-> 4]
Samples == {[healthy |-> FALSE, score |-> 1]} \cup [healthy : {TRUE}, score : {0, 3}]
PathIds == 0..(MaxPathIds - 1)

ASSUME MultipathAssumption ==
    /\ Adapters \subseteq Gateways
    /\ MaxPathIds \in Nat \ {0} /\ MaxStarts \in Nat
    /\ Threshold \in Nat /\ MaxPaths \in Nat

VARIABLES
    active,      \* active_
    gateway,     \* path_gateways_, a function of the ids there are
    metrics,     \* path_metrics_, a function of the same ids
    measured,    \* ghost: the gateway each of them was measured at
    nextId,      \* next_path_id_
    activePath,  \* active_path_id_
    autoSwitch,  \* config_.auto_switch
    starts,      \* runs of the engine
    prober,      \* where probe_thread_ stands
    targets,     \* its snapshot: the gateway of each id
    samples,     \* what it measured
    best,        \* the path getBestPath() gave it, and its score
    stopping     \* stop() holds stop_mutex_ and joins

engineVars == <<gateway, metrics, measured, nextId>>
proberVars == <<prober, targets, samples, best>>
multipathVars == <<active, engineVars, activePath, autoSwitch, starts, proberVars, stopping>>

Empty == [i \in {} |-> 0]

MultipathTypeOK ==
    /\ active \in BOOLEAN /\ stopping \in BOOLEAN /\ autoSwitch \in BOOLEAN
    /\ DOMAIN gateway \subseteq PathIds /\ \A i \in DOMAIN gateway : gateway[i] \in Gateways
    /\ DOMAIN metrics = DOMAIN gateway /\ \A i \in DOMAIN metrics : metrics[i] \in Samples \cup {Fresh}
    /\ DOMAIN measured = DOMAIN gateway
    /\ nextId \in 0..MaxPathIds /\ activePath \in PathIds /\ best \in [id : PathIds, score : Nat]
    /\ starts \in 0..MaxStarts
    /\ prober \in {"none", "top", "probing", "writing", "evaluating", "comparing",
                  "switching", "sleeping"}
    /\ DOMAIN targets \subseteq PathIds
    /\ DOMAIN samples \subseteq DOMAIN targets /\ \A i \in DOMAIN samples : samples[i] \in Samples

MultipathInit ==
    /\ active = FALSE /\ stopping = FALSE /\ autoSwitch = TRUE /\ starts = 0
    /\ gateway = Empty /\ metrics = Empty /\ measured = Empty
    /\ nextId = 0 /\ activePath = 0
    /\ prober = "none" /\ targets = Empty /\ samples = Empty /\ best = [id |-> 0, score |-> 0]

-----------------------------------------------------------------------------
(* Paths.                                                                  *)

\* RouteAnalyzer::getInterfaces lists the adapters that are up and fills in
\* the name, the address and the kind of each: never the gateway.
ReportedGateways == {}

\* The paths start() makes of the interfaces, whose order Windows chooses.
InitialPaths ==
    {f \in UNION {[0..(n - 1) -> ReportedGateways] : n \in 0..Cardinality(ReportedGateways)} :
        /\ \A i, j \in DOMAIN f : f[i] = f[j] => i = j
        /\ Cardinality(DOMAIN f) =
             IF Cardinality(ReportedGateways) < MaxPaths THEN Cardinality(ReportedGateways)
             ELSE MaxPaths}

\* Mutant: the id of a removed path is given out again.
NewIdReused == CHOOSE i \in 0..Cardinality(DOMAIN gateway) :
    i \notin DOMAIN gateway /\ \A j \in 0..i : j = i \/ j \in DOMAIN gateway

\* next_path_id_
NewId == nextId

AddRoute(gw) ==
    /\ nextId < MaxPathIds
    /\ ~\E i \in DOMAIN gateway : gateway[i] = gw
    /\ LET ids == DOMAIN gateway \cup {NewId} IN
       /\ gateway' = [i \in ids |-> IF i = NewId THEN gw ELSE gateway[i]]
       /\ metrics' = [i \in ids |-> IF i = NewId THEN Fresh ELSE metrics[i]]
       /\ measured' = [i \in ids |-> IF i = NewId THEN gw ELSE measured[i]]
    /\ nextId' = nextId + 1
    /\ UNCHANGED <<active, activePath, autoSwitch, starts, proberVars, stopping>>

RemoveRoute(gw) ==
    /\ \E i \in DOMAIN gateway : gateway[i] = gw
    /\ LET kept == {i \in DOMAIN gateway : gateway[i] # gw} IN
       /\ gateway' = Restrict(gateway, kept)
       /\ metrics' = Restrict(metrics, kept)
       /\ measured' = Restrict(measured, kept)
    /\ UNCHANGED <<active, nextId, activePath, autoSwitch, starts, proberVars, stopping>>

\* getBestPath: the first of the healthy paths with the highest score.
Healthy == {i \in DOMAIN metrics : metrics[i].healthy}
IsBest(i) ==
    /\ i \in Healthy
    /\ \A j \in Healthy : /\ metrics[j].score <= metrics[i].score
                          /\ j < i => metrics[j].score < metrics[i].score

-----------------------------------------------------------------------------
(* The page and the console.                                               *)

\* start(): the maps are emptied, the active path is not.  The page and the
\* console stop an engine that has found no path; a library user adds one.
Start(auto, asLibrary) ==
    /\ ~active /\ ~stopping /\ starts < MaxStarts
    /\ starts' = starts + 1
    /\ autoSwitch' = auto
    /\ gateway' \in InitialPaths
    /\ metrics' = [i \in DOMAIN gateway' |-> Fresh]
    /\ measured' = gateway'
    /\ nextId' = Cardinality(DOMAIN gateway')
    /\ prober' = "top"
    /\ stopping' = (DOMAIN gateway' = {} /\ ~asLibrary)
    /\ active' = ~stopping'
    /\ UNCHANGED <<activePath, targets, samples, best>>

\* stop(), from the page's button and from the destructor.
Stop ==
    /\ active /\ ~stopping
    /\ active' = FALSE
    /\ stopping' = TRUE
    /\ UNCHANGED <<engineVars, activePath, autoSwitch, starts, proberVars>>

StopJoins ==
    /\ stopping /\ prober = "none"
    /\ stopping' = FALSE
    /\ UNCHANGED <<active, engineVars, activePath, autoSwitch, starts, proberVars>>

-----------------------------------------------------------------------------
(* The thread: probeLoop.                                                  *)

ProberKeeps == UNCHANGED <<active, nextId, gateway, autoSwitch, starts, stopping>>

\* Mutant: the loop does not look at active_.
SnapshotForever ==
    /\ prober = "top"
    /\ prober' = "probing" /\ targets' = gateway /\ samples' = Empty
    /\ UNCHANGED <<metrics, measured, activePath, best>>
    /\ ProberKeeps

Snapshot ==
    /\ prober = "top"
    /\ \/ active /\ prober' = "probing" /\ targets' = gateway
       \/ ~active /\ prober' = "none" /\ UNCHANGED targets
    /\ samples' = Empty
    /\ UNCHANGED <<metrics, measured, activePath, best>>
    /\ ProberKeeps

\* One target after the other, without the lock; stop() is noticed between.
Probe ==
    /\ prober = "probing"
    /\ \/ /\ ~active /\ DOMAIN samples # DOMAIN targets
          /\ prober' = "none" /\ UNCHANGED samples
       \/ /\ active
          /\ \E i \in DOMAIN targets \ DOMAIN samples, s \in Samples :
                samples' = [j \in DOMAIN samples \cup {i} |-> IF j = i THEN s ELSE samples[j]]
          /\ UNCHANGED prober
       \/ /\ DOMAIN samples = DOMAIN targets
          /\ prober' = "writing" /\ UNCHANGED samples
    /\ UNCHANGED <<metrics, measured, activePath, targets, best>>
    /\ ProberKeeps

\* Mutant: a result makes an entry for its path again.
WrittenAnyway == DOMAIN metrics \cup DOMAIN samples

\* Back under the lock: a path that has gone meanwhile is skipped.
Written == DOMAIN metrics

WriteBack ==
    /\ prober = "writing"
    /\ metrics' = [i \in Written |-> IF i \in DOMAIN samples THEN samples[i] ELSE metrics[i]]
    /\ measured' = [i \in Written |->
                      IF i \in DOMAIN samples THEN targets[i] ELSE measured[i]]
    /\ prober' = "evaluating"
    /\ UNCHANGED <<activePath, targets, samples, best>>
    /\ ProberKeeps

\* evaluatePathSwitch: the best path is read under one lock, the active one,
\* which counts as zero once it has gone, under another.
Evaluate ==
    /\ prober = "evaluating"
    /\ \/ /\ autoSwitch
          /\ \E i \in DOMAIN metrics :
                /\ IsBest(i) /\ i # activePath
                /\ best' = [id |-> i, score |-> metrics[i].score]
          /\ prober' = "comparing"
       \/ /\ ~autoSwitch \/ Healthy = {} \/ IsBest(activePath)
          /\ prober' = "sleeping" /\ UNCHANGED best
    /\ UNCHANGED <<metrics, measured, activePath, targets, samples>>
    /\ ProberKeeps

\* Mutant: the threshold is not looked at.
WorthSwitchingAlways == TRUE

WorthSwitching ==
    best.score > Threshold + (IF activePath \in DOMAIN metrics THEN metrics[activePath].score ELSE 0)

Compare ==
    /\ prober = "comparing"
    /\ prober' = IF WorthSwitching THEN "switching" ELSE "sleeping"
    /\ UNCHANGED <<metrics, measured, activePath, targets, samples, best>>
    /\ ProberKeeps

\* switchToPath: a path that has gone is not switched to.
Switch ==
    /\ prober = "switching"
    /\ prober' = "sleeping"
    /\ \/ /\ best.id \in DOMAIN metrics
          /\ activePath' = best.id
       \/ best.id \notin DOMAIN metrics /\ UNCHANGED activePath
    /\ UNCHANGED <<metrics, measured, targets, samples, best>>
    /\ ProberKeeps

\* The sleep is in pieces of a tenth of a second.
Sleeps ==
    /\ prober = "sleeping"
    /\ prober' = "top"
    /\ UNCHANGED <<metrics, measured, activePath, targets, samples, best>>
    /\ ProberKeeps

ProberStep == Snapshot \/ Probe \/ WriteBack \/ Evaluate \/ Compare \/ Switch \/ Sleeps

MultipathNext ==
    \/ \E gw \in Gateways : AddRoute(gw) \/ RemoveRoute(gw)
    \/ \E auto, asLibrary \in BOOLEAN : Start(auto, asLibrary)
    \/ Stop \/ StopJoins \/ ProberStep

MultipathSpec == MultipathInit /\ [][MultipathNext]_multipathVars

-----------------------------------------------------------------------------
(* Properties.                                                             *)

\* The metrics of a path were measured at its own gateway, though the probe
\* runs without the lock while routes are removed, added again under another
\* id, and the whole engine is restarted with the ids from zero.
MetricsOfTheirGateway == \A i \in DOMAIN measured : measured[i] = gateway[i]

\* With auto_switch the choice does not flap: every switch goes to a path
\* whose score, when it was found best, beat what the path in use had when
\* they were compared by more than the threshold, though probes, new and
\* removed routes and restarts come in between.
SwitchesAreWorthIt == [][
    prober = "comparing" /\ prober' = "switching" =>
        /\ autoSwitch
        /\ best.id # activePath
        /\ activePath \in DOMAIN metrics => best.score > metrics[activePath].score + Threshold
        /\ best.score > Threshold
    ]_multipathVars

\* A path is chosen by what was measured of it, and for a reason.
PathsAreJudged == []MetricsOfTheirGateway /\ SwitchesAreWorthIt

\* The thread has something to do: at the evaluation it has found the best
\* path, or there is none, or nothing to decide.
ProberDue ==
    /\ prober # "none"
    /\ prober = "evaluating" => ~autoSwitch \/ Healthy = {} \/ \E i \in DOMAIN metrics : IsBest(i)

\* stop() waits for the thread, which notices between two probes, whatever
\* routes are added meanwhile.
StopReturns == stopping ~> ~stopping

\* What multipath_engine.cpp:44 says of start(): every interface with its own
\* gateway is a candidate for a path.
InterfacesArePaths == [][
    starts' # starts => \A gw \in Adapters : \E i \in DOMAIN gateway' : gateway'[i] = gw
    ]_multipathVars
=============================================================================
