----------------------------- MODULE SingleFixes -----------------------------
(***************************************************************************)
(* Fixes that are made one at a time, past the remediation service: the    *)
(* buttons of the diagnosis's cards, on the window's thread, and the       *)
(* autopilot, on a detached thread of its own that makes the fixes of a    *)
(* game's profile when the game starts. Each fix is a transaction of one   *)
(* action. The two threads meet at the mutex of the engine, which is only  *)
(* ever tried, and at the settings themselves.                             *)
(***************************************************************************)
EXTENDS Naturals, Sequences, FiniteSets, SequencesExt

CONSTANTS
    ProfileFixes,  \* for each profile with auto_apply, the toggles that are on
    CardFixes,     \* the fix_action of the cards that are shown
    MaxFixes,      \* bound on the transactions
    MaxTurnabouts  \* bound on adapters and games that come and go

NeedAdapter == {"dns", "mtu"}
NeedGame == {"priority", "fullscreen_opt"}
\* mapLegacy: what the bridge has an action for.
Legacy == {"power_plan", "game_dvr", "tcp", "cs2_maxping"} \cup NeedAdapter \cup NeedGame

ASSUME SingleFixesAssumption == MaxFixes \in Nat /\ MaxTurnabouts \in Nat

Fixers == {"pilot", "card"}

VARIABLES
    adapter,     \* there is an adapter with a gateway
    game,        \* the process of the game, 0 without one
    turnabouts,  \* how often one of them has come or gone
    set,         \* the settings the engine has
    record,      \* the transactions a rollback would accept, oldest first
    unsure,      \* ghost: the settings of which a write or a save has failed
    at,          \* where each thread stands
    doing,       \* the fix it is about
    saw,         \* what prepare() has observed: the engine's value or not, and the process
    todo,        \* the rest of the autopilot's plan
    outcome,     \* its lists of applied and failed fixes
    told,        \* what it has announced last
    line         \* the line under the cards calls the fix unknown

fixesVars == <<adapter, game, turnabouts, set, record, unsure, at, doing, saw, todo, outcome, told, line>>

NothingSeen == [engine |-> FALSE, process |-> 0]
NothingTold == [plan |-> {}, applied |-> {}, failed |-> {}]

FixesInit ==
    /\ adapter \in BOOLEAN /\ game \in 0..1 /\ turnabouts = 0
    /\ set = {} /\ record = <<>> /\ unsure = {}
    /\ at = [f \in Fixers |-> "idle"] /\ doing = [f \in Fixers |-> "none"]
    /\ saw = [f \in Fixers |-> NothingSeen]
    /\ todo = {} /\ outcome = NothingTold /\ told = NothingTold /\ line = FALSE

-----------------------------------------------------------------------------
(* One fix.                                                                  *)

\* discoverPrimaryInterface, discoverRunningGameProcess: the fix finds a target.
FindsTarget(id) == (id \in NeedAdapter => adapter) /\ (id \in NeedGame => game # 0)

\* The target a fix was prepared for can be observed: an adapter while it is
\* there, a process while it lives; the file of a game stays.
Observable(id, process) == (id \in NeedAdapter => adapter) /\ (id = "priority" => process = game)

\* mutationMutex is tried, and held to the end of execute().
Busy(f) == \E g \in Fixers \ {f} : at[g] = "executes"

\* The fix is not made, and the thread knows why.
Answer(f, what) == /\ at' = [at EXCEPT ![f] = what] /\ saw' = [saw EXCEPT ![f] = NothingSeen]
                   /\ UNCHANGED <<set, record, unsure>>

\* applyFixDetailed and applySafeFix up to prepare(): an identifier the bridge
\* does not know is unknown, a fix without its target, while the engine is busy
\* or without a backup on the disk is refused. ("vm" would only be explained; no card and no plan has it.)
PrepareFix(f) ==
    /\ at[f] = "asks"
    /\ LET id == doing[f]
       IN  \/ id \notin Legacy /\ Answer(f, "unknown")
           \/ id \in Legacy /\ Answer(f, "refused")
           \/ /\ id \in Legacy /\ FindsTarget(id) /\ ~Busy(f)
              /\ at' = [at EXCEPT ![f] = "prepared"]
              /\ saw' = [saw EXCEPT ![f] = [engine |-> id \in set, process |-> IF id = "priority" THEN game ELSE 0]]
              /\ UNCHANGED <<set, record, unsure>>
    /\ UNCHANGED <<adapter, game, turnabouts, doing, todo, outcome, told, line>>

\* Mutant: the state is not observed again.
BeginExecuteStale(f) ==
    /\ at[f] = "prepared"
    /\ IF Busy(f) THEN Answer(f, "refused")
       ELSE at' = [at EXCEPT ![f] = "executes"] /\ UNCHANGED <<set, record, unsure, saw>>
    /\ UNCHANGED <<adapter, game, turnabouts, doing, todo, outcome, told, line>>

\* execute() up to its first write: the target must be there still and its
\* state must be what prepare() saw. A setting that was half written is neither
\* the engine's value nor the one before.
BeginExecute(f) ==
    /\ at[f] = "prepared"
    /\ \/ /\ Busy(f) \/ ~Observable(doing[f], saw[f].process) \/ saw[f].engine # (doing[f] \in set)
             \/ doing[f] \in unsure
          /\ Answer(f, "refused")
       \/ /\ ~Busy(f) /\ Observable(doing[f], saw[f].process) /\ ~(saw[f].engine # (doing[f] \in set))
          /\ at' = [at EXCEPT ![f] = "executes"] /\ UNCHANGED <<set, record, unsure, saw>>
    /\ UNCHANGED <<adapter, game, turnabouts, doing, todo, outcome, told, line>>

\* The write, its check and the saves, when all of them succeed.
FixIsMade(f) ==
    /\ Observable(doing[f], saw[f].process) /\ Len(record) < MaxFixes
    /\ set' = set \cup {doing[f]}
    /\ record' = Append(record, [id |-> doing[f], by |-> f, had |-> saw[f].engine,
                               process |-> saw[f].process, reverted |-> FALSE])
    /\ at' = [at EXCEPT ![f] = "applied"] /\ UNCHANGED unsure

\* What leaves no transaction that can be rolled back: the write fails, or is
\* done in part, or cannot be confirmed; the save after it fails and the fix is
\* refused; the last save fails, which nobody asks, and the fix is applied.
FixIsHalfMade(f) ==
    /\ \/ set' \in {set \cup {doing[f]}, set \ {doing[f]}} /\ at' = [at EXCEPT ![f] = "refused"]
       \/ /\ Observable(doing[f], saw[f].process)
          /\ set' = set \cup {doing[f]} /\ at' = [at EXCEPT ![f] = "applied"]
    /\ unsure' = unsure \cup {doing[f]} /\ UNCHANGED record

\* The rest of execute(); without the first save nothing is written.
FinishFix(f) ==
    /\ at[f] = "executes"
    /\ \/ (FixIsMade(f) \/ FixIsHalfMade(f)) /\ saw' = [saw EXCEPT ![f] = NothingSeen]
       \/ Answer(f, "refused")
    /\ UNCHANGED <<adapter, game, turnabouts, doing, todo, outcome, told, line>>

FixAnswers == {"applied", "refused", "unknown"}

-----------------------------------------------------------------------------
(* The autopilot.                                                            *)

\* AutopilotPlan::actionIdsFor.
Toggles == <<"power_plan", "game_dvr", "tcp", "mtu", "dns", "priority">>
ActionIdsFor(p) == p \cap Range(Toggles)

\* A game starts whose profile has auto_apply: the thread begins its plan. One
\* game's start is followed.
PilotStarts ==
    /\ at["pilot"] = "idle" /\ outcome.plan = {} /\ told = NothingTold /\ game # 0 /\ Len(record) < MaxFixes
    /\ \E p \in ProfileFixes :
         /\ todo' = ActionIdsFor(p)
         /\ outcome' = [NothingTold EXCEPT !.plan = ActionIdsFor(p)]
    /\ UNCHANGED <<adapter, game, turnabouts, set, record, unsure, at, doing, saw, told, line>>

\* The plan is made in the order of the toggles.
PilotAsks ==
    /\ at["pilot"] = "idle"
    /\ \E i \in DOMAIN Toggles :
         /\ Toggles[i] \in todo /\ \A j \in 1..i - 1 : Toggles[j] \notin todo
         /\ doing' = [doing EXCEPT !["pilot"] = Toggles[i]] /\ todo' = todo \ {Toggles[i]}
    /\ at' = [at EXCEPT !["pilot"] = "asks"]
    /\ UNCHANGED <<adapter, game, turnabouts, set, record, unsure, saw, outcome, told, line>>

\* Mutant: a fix that has answered anything is called applied.
PilotNotesEverything ==
    /\ at["pilot"] \in FixAnswers
    /\ outcome' = [outcome EXCEPT !.applied = @ \cup {doing["pilot"]}]
    /\ at' = [at EXCEPT !["pilot"] = "idle"] /\ doing' = [doing EXCEPT !["pilot"] = "none"]
    /\ UNCHANGED <<adapter, game, turnabouts, set, record, unsure, saw, todo, told, line>>

\* outcome.applied or not.
PilotNotes ==
    /\ at["pilot"] \in FixAnswers
    /\ outcome' = IF at["pilot"] = "applied"
                  THEN [outcome EXCEPT !.applied = @ \cup {doing["pilot"]}]
                  ELSE [outcome EXCEPT !.failed = @ \cup {doing["pilot"]}]
    /\ at' = [at EXCEPT !["pilot"] = "idle"] /\ doing' = [doing EXCEPT !["pilot"] = "none"]
    /\ UNCHANGED <<adapter, game, turnabouts, set, record, unsure, saw, todo, told, line>>

\* The lists are posted to the window's thread, which announces them between
\* two of its own steps.
PilotTells ==
    /\ at["pilot"] = "idle" /\ todo = {} /\ outcome.plan # {} /\ at["card"] = "idle"
    /\ told' = outcome /\ outcome' = NothingTold
    /\ UNCHANGED <<adapter, game, turnabouts, set, record, unsure, at, doing, saw, todo, line>>

-----------------------------------------------------------------------------
(* The cards, the button that takes the newest change back, the machine.     *)

\* makeCheckCard, makeProblemCard: the button calls applyFix with the card's
\* fix_action as it is.
CardPressed ==
    /\ at["card"] = "idle" /\ Len(record) < MaxFixes
    /\ \E id \in CardFixes : doing' = [doing EXCEPT !["card"] = id]
    /\ at' = [at EXCEPT !["card"] = "asks"]
    /\ UNCHANGED <<adapter, game, turnabouts, set, record, unsure, saw, todo, outcome, told, line>>

\* The message stands in the line, with a check mark before it.
CardAnswered ==
    /\ at["card"] \in FixAnswers
    /\ line' = (at["card"] = "unknown") /\ at' = [at EXCEPT !["card"] = "idle"] /\ doing' = [doing EXCEPT !["card"] = "none"]
    /\ UNCHANGED <<adapter, game, turnabouts, set, record, unsure, saw, todo, outcome, told>>

Standing == {i \in DOMAIN record : ~record[i].reverted}
Newest == CHOOSE i \in Standing : \A j \in Standing : j <= i

\* rollback() accepts the record: its target can be observed, and its state is
\* what the fix has made.
CanBeTakenBack(r) == Observable(r.id, r.process) /\ r.id \in set

\* Mutant: the oldest change first.
TakeBackOldest ==
    /\ Standing # {} /\ \A f \in Fixers : at[f] # "executes"
    /\ LET i == CHOOSE n \in Standing : \A m \in Standing : n <= m
       IN  /\ CanBeTakenBack(record[i])
           /\ set' = IF record[i].had THEN set ELSE set \ {record[i].id}
           /\ record' = [record EXCEPT ![i].reverted = TRUE]
    /\ UNCHANGED <<adapter, game, turnabouts, unsure, at, doing, saw, todo, outcome, told, line>>

\* revertBoost without a marker: the newest transaction, unless the engine is
\* busy or rollback() does not accept it. A write back that fails leaves the
\* transaction for another attempt, which passes the failed fix over.
TakeBack ==
    /\ Standing # {} /\ \A f \in Fixers : at[f] # "executes"
    /\ LET r == record[Newest]
           taken == [record EXCEPT ![Newest].reverted = TRUE]
       IN  \/ /\ CanBeTakenBack(r)
              /\ set' = IF r.had THEN set ELSE set \ {r.id}
              /\ record' = taken /\ UNCHANGED unsure
           \/ /\ CanBeTakenBack(r) \/ r.id \in unsure
              /\ set' \in {set, set \ {r.id}} /\ record' \in {record, taken}
              /\ unsure' = unsure \cup {r.id}
    /\ UNCHANGED <<adapter, game, turnabouts, at, doing, saw, todo, outcome, told, line>>

\* The adapter comes or goes; a game ends, and its priority with it, or another
\* process of the game starts.
Turnabout ==
    /\ turnabouts < MaxTurnabouts /\ turnabouts' = turnabouts + 1
    /\ \/ adapter' = ~adapter /\ UNCHANGED <<game, set>>
       \/ /\ game' \in {0, turnabouts + 2} \ {game}
          /\ set' = set \ {"priority"}
          /\ UNCHANGED adapter
    /\ UNCHANGED <<record, unsure, at, doing, saw, todo, outcome, told, line>>

FixesNext ==
    \/ \E f \in Fixers : PrepareFix(f) \/ BeginExecute(f) \/ FinishFix(f)
    \/ PilotStarts \/ PilotAsks \/ PilotNotes \/ PilotTells
    \/ CardPressed \/ CardAnswered \/ TakeBack \/ Turnabout

FixesSpec == FixesInit /\ [][FixesNext]_fixesVars

-----------------------------------------------------------------------------
FixesTypeOK ==
    /\ adapter \in BOOLEAN /\ game \in 0..(MaxTurnabouts + 1) /\ turnabouts \in 0..MaxTurnabouts
    /\ set \cup unsure \subseteq Legacy
    /\ \A i \in DOMAIN record : record[i].id \in Legacy /\ record[i].by \in Fixers /\ record[i].had \in BOOLEAN
    /\ at \in [Fixers -> {"idle", "asks", "prepared", "executes"} \cup FixAnswers]

\* What the journal holds and what the machine has agree, whichever thread has
\* made a fix, how often, and however often the newest one is taken back: as long
\* as no write and no save of it has failed, a setting is the engine's exactly as
\* long as a transaction of it stands, so that the last one taken back brings the
\* user's own value. A priority is that of the process that runs.
Counts(r) == r.id = "priority" => r.process = game
MachineFollowsTheJournal ==
    \A id \in Legacy \ unsure : id \in set <=> \E i \in Standing : record[i].id = id /\ Counts(record[i])

\* The autopilot announces what it has done and what it has not: every fix of
\* its plan, and as applied those of which it has left a transaction, or lost the
\* last save of one.
PilotTellsTheTruth ==
    [][told' # told =>
        /\ told'.applied \subseteq unsure \cup {record[i].id : i \in {n \in DOMAIN record : record[n].by = "pilot"}}
        /\ told'.applied \cap told'.failed = {}
        /\ told'.applied \cup told'.failed = told'.plan]_fixesVars

\* Both: the journal and the announcement tell what the machine has.
FixesAreTold == []MachineFollowsTheJournal /\ PilotTellsTheTruth

\* legacy_bridge.cpp:87 promises that the button takes the change back. A fix of
\* a process that has ended cannot be observed any more: rollback() refuses it,
\* and since it stays the newest, the button refuses from then on and never
\* reaches the fixes before it.
ButtonIsNotStuck == Standing # {} => CanBeTakenBack(record[Newest]) \/ ~adapter

\* problem_db.h:16 calls fix_action the identifier of a fix the program can
\* make. The cards of known problems name pairs of fixes, which only
\* ProblemDb::applyAutoFix takes apart, and nothing calls it.
EveryOfferedFixIsKnown == ~line
=============================================================================
