------------------------------- MODULE SetupPage -------------------------------
(***************************************************************************)
(* From a tick to a row: the setup page (OptimizerWidget) keeps a          *)
(* selection, asks the gate for it, and lists what became of every item.   *)
(* The target of an item, the adapter or the running game, is looked for   *)
(* three times on the way: by the gate when it plans, by the service when  *)
(* it selects the actions, and by SystemAudit when the page reads back.    *)
(* The machine goes on in between.                                         *)
(***************************************************************************)
EXTENDS Naturals, SequencesExt, Sublists

CONSTANTS
    Options,     \* the boxes of the page, named as the engine names its actions
    Adapters,    \* a sequence: the order in which Windows lists the adapters
    Tunnels,     \* those that are tunnels or loopbacks
    TypedMtus,   \* what can be typed into the MTU field
    MaxEvents    \* bound on what the user and the machine do

EngineMtu == 1500
NotInEngine == {"VirtualMemory", "Multipath", "RealTimeRoute", "LossCompensation"}
OffAtFirst == {"GameMode", "Dns", "VirtualMemory"}
NeedGame == {"FullscreenOptimizations", "ProcessPriority"}
NeedAdapter == {"Dns", "Mtu"}
\* The actions whose value SystemAudit reads through the engine.
Readable == {"GameDvr", "FullscreenOptimizations", "GameMode", "PowerPlan", "MouseAccel", "Dns", "Mtu"}
Names == Range(Adapters)
Nowhere == "nowhere"
Everywhere == "everywhere"

ASSUME SetupPageAssumption ==
    /\ IsFiniteSet(Options) /\ Adapters \in Seq(Names)
    /\ Tunnels \subseteq Names /\ Nowhere \notin Names /\ Everywhere \notin Names
    /\ TypedMtus \subseteq Nat /\ EngineMtu \in TypedMtus
    /\ MaxEvents \in Nat

VARIABLES
    selection,  \* what the page shows: the ticks and the MTU field
    settings,   \* the same in the stored settings
    button,     \* of "apply": the number in its text, and whether it is enabled
    machine,    \* the adapters that are up, whether a game runs, the values set by the engine
    worker,     \* the thread of the page; ghost .moved: the machine changed while it worked
    shown,      \* rows of "what has changed"; ghosts: what was asked for, done and answered
    occurred    \* how many of the bounded events there were

setupVars == <<selection, settings, button, machine, worker, shown, occurred>>

-----------------------------------------------------------------------------
(* The targets.                                                            *)

\* discoverPrimaryInterface: the first real adapter that is up, and only
\* without one the first tunnel.
Primary(up) ==
    LET usable == {i \in DOMAIN Adapters : Adapters[i] \in up}
        real == {i \in usable : Adapters[i] \notin Tunnels}
    IN  IF real # {} THEN Adapters[Min(real)]
        ELSE IF usable # {} THEN Adapters[Min(usable)]
        ELSE Nowhere

\* discoverRunningGameProcess: a process of a known game, if one can be opened.
RunningGame == IF machine.game THEN Everywhere ELSE Nowhere

\* defaultTargetResolver: Dns and Mtu work on the adapter, two actions on the
\* game, all others on the system.
Target(o) ==
    CASE o \in NeedAdapter -> Primary(machine.up)
      [] o \in NeedGame    -> RunningGame
      [] OTHER             -> Everywhere

\* (a fault) The page with its own idea of the adapter: the first that is up.
ReadBackOfTheFirst(o) ==
    LET usable == {i \in DOMAIN Adapters : Adapters[i] \in machine.up}
        where == IF o \in NeedAdapter /\ usable # {} THEN Adapters[Min(usable)] ELSE Target(o)
    IN  CASE where = Nowhere -> "nothing"
          [] <<o, where>> \in machine.engine -> "expected"
          [] OTHER -> "another"

\* SystemAudit reads with the engine's own means, of the target it finds now.
ReadBack(o) ==
    CASE Target(o) = Nowhere -> "nothing"
      [] OTHER -> IF <<o, Target(o)>> \in machine.engine THEN "expected" ELSE "another"

-----------------------------------------------------------------------------
(* The selection, and how it is kept.                                      *)

\* A box that does nothing is shown, but cannot be ticked or unticked.
Boxes == Options \ NotInEngine
Counted(s) == s.ticked \cap Boxes

Defaults == [ticked |-> Options \ OffAtFirst, mtu |-> EngineMtu]

\* (a fault) What is typed is saved as it is.
SettingsAsTyped(s) == s

\* getSettings: an MTU nobody can have becomes the engine's.
Clamped(m) == IF m \in 576..1500 THEN m ELSE EngineMtu
StoredSettings(s) == [s EXCEPT !.mtu = Clamped(@)]

\* loadSettings: the box of the virtual memory is never ticked again.
Loaded(s) == [ticked |-> s.ticked \ {"VirtualMemory"}, mtu |-> Clamped(s.mtu)]

\* refreshSelectionSummary
Summary(s, busy) ==
    [count |-> Cardinality(Counted(s)), enabled |-> ~busy /\ Counted(s) # {}]

\* (a fault) After an operation the button gets its plain text and is enabled.
FreedAnyway == [count |-> 0, enabled |-> TRUE]

\* setRunningUi(false): the number and the button are worked out anew.
Freed == Summary(selection, FALSE)

Idle == [at |-> "idle", asked |-> {}, mtu |-> EngineMtu, wanted |-> {}, selected |-> {},
         done |-> {}, failed |-> {}, skipped |-> {}, moved |-> FALSE]
NothingShown == [rows |-> <<>>, asked |-> {}, done |-> {}, answer |-> "none", moved |-> FALSE]
Running == worker.at # "idle"

SetupInit ==
    /\ selection = Loaded(Defaults)
    /\ settings = Defaults
    /\ button = Summary(Loaded(Defaults), FALSE)
    /\ machine \in [up : SUBSET Names, game : BOOLEAN, engine : {{}}]
    /\ worker = Idle
    /\ shown = NothingShown
    /\ occurred = 0

Occurs == occurred < MaxEvents /\ occurred' = occurred + 1

SelectionBecomes(s) == selection' = s /\ button' = Summary(s, Running)

Toggle(o) ==
    /\ Occurs /\ o \in Boxes
    /\ SelectionBecomes([selection EXCEPT !.ticked = (@ \ {o}) \cup ({o} \ @)])
    /\ UNCHANGED <<settings, machine, worker, shown>>

TypeMtu(m) ==
    /\ Occurs /\ "Mtu" \in selection.ticked /\ m # selection.mtu
    /\ selection' = [selection EXCEPT !.mtu = m]
    /\ UNCHANGED <<settings, button, machine, worker, shown>>

Reset ==
    /\ Occurs /\ ~Running
    /\ SelectionBecomes(Defaults)
    /\ settings' = StoredSettings(Defaults)
    /\ UNCHANGED <<machine, worker, shown>>

Restart ==
    /\ Occurs /\ ~Running
    /\ SelectionBecomes(Loaded(settings))
    /\ shown' = NothingShown
    /\ UNCHANGED <<settings, machine, worker>>

-----------------------------------------------------------------------------
(* "Apply": the selection is saved, and a thread takes it to the gate.     *)

ClickApply ==
    /\ Occurs /\ ~Running /\ button.enabled
    /\ settings' = StoredSettings(selection)
    /\ worker' = [Idle EXCEPT !.at = "looking", !.asked = Counted(selection),
                              !.mtu = StoredSettings(selection).mtu]
    /\ button' = [button EXCEPT !.enabled = FALSE]
    /\ UNCHANGED <<selection, machine, shown>>

\* boostActionsFor: an item that has no target, or a value the engine does
\* not write, is skipped with a reason.
Offered(o) ==
    /\ Target(o) # Nowhere
    /\ o = "Mtu" => worker.mtu = EngineMtu

Plan ==
    /\ worker.at = "looking"
    /\ LET wanted == {o \in worker.asked : Offered(o)}
       IN  worker' = [worker EXCEPT !.at = IF wanted = {} THEN "reading" ELSE "selecting",
                                    !.wanted = wanted, !.skipped = worker.asked \ wanted]
    /\ UNCHANGED <<selection, settings, button, machine, shown, occurred>>

\* (a fault) Nothing selected is not an answer.
SelectActionsIfAny ==
    /\ worker.at = "selecting"
    /\ LET selected == {o \in worker.wanted : Target(o) # Nowhere}
       IN  /\ selected # {}
           /\ worker' = [worker EXCEPT !.at = "executing",
                                       !.selected = {<<o, Target(o)>> : o \in selected}]
    /\ UNCHANGED <<selection, settings, button, machine, shown, occurred>>

\* applyIds: the targets are resolved once more; an action that has lost its
\* target is not selected, and nobody is told.
SelectActions ==
    /\ worker.at = "selecting"
    /\ LET selected == {o \in worker.wanted : Target(o) # Nowhere}
       IN  worker' = [worker EXCEPT !.at = IF selected = {} THEN "reading" ELSE "executing",
                                    !.selected = {<<o, Target(o)>> : o \in selected}]
    /\ UNCHANGED <<selection, settings, button, machine, shown, occurred>>

\* BoostGate::applyBoost sorts the outcomes into three lists; an action that
\* was not attempted is skipped.  (The actions that a machine may not support
\* are not on this page.)
Listed(done, failed) ==
    [worker EXCEPT !.at = "reading",
                   !.done = {p[1] : p \in done},
                   !.failed = {p[1] : p \in failed},
                   !.skipped = @ \cup {p[1] : p \in worker.selected \ (done \cup failed)}]

\* The transaction: what is applied, what fails, and what is not attempted
\* any more.  FixTransaction says which of these can happen.
Execute ==
    /\ worker.at = "executing"
    /\ \E done \in SUBSET worker.selected : \E failed \in SUBSET (worker.selected \ done) :
          /\ done \cup failed # {}
          /\ worker' = Listed(done, failed)
          /\ machine' = [machine EXCEPT !.engine = @ \cup done]
    /\ UNCHANGED <<selection, settings, button, shown, occurred>>

\* Another operation runs, or the transaction could not be prepared: the
\* answer names at most the actions observed until then.
Refuse ==
    /\ worker.at = "executing"
    /\ \E named \in SUBSET worker.selected :
          worker' = [worker EXCEPT !.at = "refused", !.skipped = @ \cup {p[1] : p \in named}]
    /\ UNCHANGED <<selection, settings, button, machine, shown, occurred>>

-----------------------------------------------------------------------------
(* buildChanges: the answer and what is read back become rows.             *)

Row(o, status) == [id |-> o, status |-> status]

StatusOf(o) ==
    IF o \in worker.failed THEN "Failed"
    ELSE CASE ReadBack(o) = "nothing"  -> "Applied"
           [] ReadBack(o) = "expected" -> "Verified"
           [] ReadBack(o) = "another"  -> "Failed"

\* A list of options becomes one row each.
RowsOf(set, status) == SetToSeq({Row(o, status[o]) : o \in set})

ReadableRows ==
    RowsOf((worker.done \cup worker.failed) \cap (Readable \cup {"TcpParameters"}),
           [o \in Options |-> StatusOf(o)])
AllAre(status) == [o \in Options |-> status]

\* (a fault) TcpParameters forgotten in the list of what has been shown.
OutcomeRowsTwice ==
    RowsOf(worker.done \ Readable, AllAre("Applied")) \o RowsOf(worker.failed \ Readable, AllAre("Failed"))

\* The rest is known from the gate's answer only.
OutcomeRows ==
    LET shownBefore == Readable \cup {"TcpParameters"}
    IN  RowsOf(worker.done \ shownBefore, AllAre("Applied")) \o RowsOf(worker.failed \ shownBefore, AllAre("Failed"))

SkippedRows == RowsOf(worker.skipped, AllAre("NotApplied"))

Rank(status) == CASE status = "Failed" -> 0 [] status = "NotApplied" -> 3 [] OTHER -> 2

Sorted(rows) ==
    LET of(rank) == Sublist(rows, {i \in DOMAIN rows : Rank(rows[i].status) = rank})
    IN  of(0) \o of(2) \o of(3)

Show ==
    /\ worker.at \in {"reading", "refused"}
    /\ \E list \in {ReadableRows \o OutcomeRows \o SkippedRows} :
          shown' = [rows |-> Sorted(list),
                    asked |-> worker.asked, done |-> worker.done, moved |-> worker.moved,
                    answer |-> IF worker.at = "refused" THEN "refused" ELSE "done"]
    /\ worker' = Idle
    /\ button' = Freed
    /\ UNCHANGED <<selection, settings, machine, occurred>>

\* A game starts or ends, an adapter goes up or down.
MachineMoves ==
    /\ Occurs
    /\ \/ machine' = [machine EXCEPT !.game = ~@]
       \/ \E a \in Names : machine' = [machine EXCEPT !.up = (@ \ {a}) \cup ({a} \ @)]
    /\ worker' = [worker EXCEPT !.moved = Running]
    /\ UNCHANGED <<selection, settings, button, shown>>

WorkerSteps == Plan \/ SelectActions \/ Execute \/ Refuse \/ Show

SetupNext ==
    \/ \E o \in Options : Toggle(o)
    \/ \E m \in TypedMtus : TypeMtu(m)
    \/ Reset \/ Restart \/ ClickApply \/ WorkerSteps \/ MachineMoves

SetupSpec == SetupInit /\ [][SetupNext]_setupVars /\ WF_setupVars(WorkerSteps)

-----------------------------------------------------------------------------
Statuses == {"Applied", "Failed", "Verified", "NotApplied"}

\* The type of the page, its settings, its thread and the machine.
SetupTypeOK ==
    /\ selection \in [ticked : SUBSET Options, mtu : TypedMtus]
    /\ settings \in [ticked : SUBSET Options, mtu : 576..1500]
    /\ button \in [count : 0..Cardinality(Boxes), enabled : BOOLEAN]
    /\ machine.up \subseteq Names /\ machine.game \in BOOLEAN
    /\ machine.engine \subseteq Options \X (Names \cup {Everywhere})
    /\ worker.at \in {"idle", "looking", "selecting", "executing", "reading", "refused"}
    /\ worker.done \cap worker.failed = {}
    /\ \A i \in DOMAIN shown.rows : shown.rows[i].id \in Options /\ shown.rows[i].status \in Statuses
    /\ shown.answer \in {"none", "done", "refused"}
    /\ shown.moved \in BOOLEAN /\ occurred \in 0..MaxEvents

RowsFor(o) == {i \in DOMAIN shown.rows : shown.rows[i].id = o}

\* Every item the button counted has one row, and only one, once the gate
\* has worked on the selection, unless the machine changed meanwhile: an item
\* goes through the gate, the service, the transaction and four lists of
\* buildChanges, and must come out of exactly one of them.
EveryTickHasItsRow ==
    shown.answer = "done" =>
        \A o \in shown.asked : /\ Cardinality(RowsFor(o)) <= 1
                               /\ ~shown.moved => Cardinality(RowsFor(o)) = 1

\* What the engine has written and verified is not shown as failed, unless
\* the machine changed: the page reads the same adapter and the same game the
\* engine worked on.
AppliedIsNotBlamed ==
    (shown.answer = "done" /\ ~shown.moved) =>
        \A o \in shown.done : \A i \in RowsFor(o) : shown.rows[i].status # "Failed"

\* The number on the button is that of the items it will apply, and it can
\* be pressed exactly when there are some and the thread is idle; also after
\* an operation, a reset, a restart and ticks made during an operation.
ButtonCountsTicks == button = Summary(selection, Running)

\* What has been saved comes back: the settings stored are those the page
\* would save again after it has loaded them.
SavedIsLoaded == StoredSettings(Loaded(settings)) = settings

\* The thread always gives the page back: every way through the gate ends in
\* an answer.
PageIsGivenBack == Running ~> ~Running

-----------------------------------------------------------------------------
(* What the comments and the page say, and the code does not do.           *)

\* "We show these with a reason and are not silent about them", says the
\* gate of the actions the engine does not even try.  An action whose target
\* goes away between the gate's look and the service's is in no list.
NothingIsPassedOver ==
    shown.answer = "done" => \A o \in shown.asked : RowsFor(o) # {}

\* The hint under the field says that the engine's MTU will be written
\* whatever is typed.  A value of 576 to 1499 is passed on, and skipped.
HintIsTrue ==
    (worker.at = "selecting" /\ "Mtu" \in worker.asked /\ ~worker.moved /\ machine.up # {}) =>
        "Mtu" \in worker.wanted

=============================================================================
