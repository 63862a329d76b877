------------------------------ MODULE BoostGate ------------------------------
(***************************************************************************)
(* The front ends of the remediation engine inside the one process of the  *)
(* program, and what they share: the settings, the journal, the marker     *)
(* file of the active boost and two mutexes that are only ever tried.      *)
(*                                                                         *)
(*   a booster   BoostGate::applyBoost (tray, optimizer page, console)     *)
(*   a fixer     RemediationService::applyIds, directly or through         *)
(*               BoostGate::applyIds (change center): no marker            *)
(*   a bridge    applySafeFix (diagnostics, autopilot): no OperationGuard  *)
(*   a reverter  BoostGate::revertBoost                                    *)
(*   a selector  BoostGate::revertTransaction on a row of the history      *)
(*                                                                         *)
(* A transaction is that of FixTransaction with saves that succeed, so an  *)
(* action and the save of its outcome are one step here: nobody else in    *)
(* the process writes between them. Transactions are created at least a    *)
(* second apart, which is the resolution that list() sorts by.             *)
(***************************************************************************)
EXTENDS Naturals, Sequences, FiniteSets

CONSTANTS
    Settings,    \* the settings, numbered in the order of createActions
    Requests,    \* the sets of settings an operation may be asked for
    MaxTx,       \* bound on the transactions of a behaviour
    FrontEnds,   \* the threads that start operations
    Boosters, Fixers, Bridges, Reverters, Selectors,
    Refusals,    \* whether Windows may refuse a write
    Crashes,     \* whether the process may die
    None

Values == {"original", "engine"}

ASSUME SettingsAssumption ==
    /\ IsFiniteSet(Settings)
    /\ Settings \subseteq Nat
    /\ Requests \subseteq SUBSET Settings
    /\ {} \notin Requests
ASSUME FrontEndsAssumption ==
    /\ Boosters \cup Fixers \cup Bridges \cup Reverters \cup Selectors \subseteq FrontEnds
    /\ Refusals \in BOOLEAN
    /\ Crashes \in BOOLEAN
    /\ MaxTx \in Nat
    /\ None \notin FrontEnds \cup Nat

\* What the journal keeps of a transaction. The applied order is ascending,
\* so the set of its members is all there is to it.
Records == [status  : {"Prepared", "Applying", "Applied", "Failed",
                       "RollingBack", "Reverted", "RollbackFailed"},
            boost   : BOOLEAN,
            before  : [Settings -> Values],
            outcome : [Settings -> {"absent", "NotChecked", "Applied", "Failed", "Reverted"}],
            listed  : SUBSET Settings]

VARIABLES
    sys,      \* the live settings
    journal,  \* the records, oldest first: list() returns them reversed
    marker,   \* boost_transaction.txt
    guard,    \* who holds operationMutex(), by an OperationGuard
    lock,     \* who holds mutationMutex()
    pc,       \* where each front end stands
    op,       \* the kind of its operation
    tx,       \* the transaction it works on
    failing   \* any_failure of its rollback()

vars == <<sys, journal, marker, guard, lock, pc, op, tx, failing>>

PCs == {"idle", "prepared", "applying", "listing", "marking",
        "choosing", "reverting", "undoing", "unmarking", "removing"}
TxIds == 1..MaxTx

TypeOK ==
    /\ sys \in [Settings -> Values]
    /\ journal \in Seq(Records) /\ Len(journal) <= MaxTx
    /\ marker \in TxIds \cup {None}
    /\ guard \in FrontEnds \cup {None}
    /\ lock \in FrontEnds \cup {None}
    /\ pc \in [FrontEnds -> PCs]
    /\ op \in [FrontEnds -> {"none", "boost", "fix", "bridge", "revert"}]
    /\ tx \in [FrontEnds -> TxIds \cup {None}]
    /\ failing \in [FrontEnds -> BOOLEAN]

Init ==
    /\ sys = [s \in Settings |-> "original"]
    /\ journal = <<>>
    /\ marker = None
    /\ guard = None
    /\ lock = None
    /\ pc = [f \in FrontEnds |-> "idle"]
    /\ op = [f \in FrontEnds |-> "none"]
    /\ tx = [f \in FrontEnds |-> None]
    /\ failing = [f \in FrontEnds |-> FALSE]

-----------------------------------------------------------------------------
(* Shared pieces.                                                          *)

GoTo(f, where) ==
    /\ pc' = [pc EXCEPT ![f] = where]
    /\ UNCHANGED <<op, tx, failing>>

\* An operation takes up a transaction; returning, it drops its locals.
Enter(f, kind, t, where) ==
    /\ op' = [op EXCEPT ![f] = kind]
    /\ tx' = [tx EXCEPT ![f] = t]
    /\ pc' = [pc EXCEPT ![f] = where]
    /\ UNCHANGED failing

Return(f) ==
    /\ pc' = [pc EXCEPT ![f] = "idle"]
    /\ op' = [op EXCEPT ![f] = "none"]
    /\ tx' = [tx EXCEPT ![f] = None]
    /\ failing' = [failing EXCEPT ![f] = FALSE]

\* The guard and the mutex are given back by their destructors.
Free(holder, f) == IF holder = f THEN None ELSE holder
ReleaseAll(f) == guard' = Free(guard, f) /\ lock' = Free(lock, f)

\* isRollbackEligible.
Eligible(r) == r.status \in {"Applied", "Failed", "RollbackFailed"} /\ r.listed # {}

With(r, outcome) == {s \in Settings : r.outcome[s] = outcome}

\* The freshness checks of execute() and rollback().
StillAsPrepared(r) == \A s \in With(r, "NotChecked") : sys[s] = r.before[s]
StillAsApplied(r) == \A s \in With(r, "Applied") : sys[s] = "engine"

Update(t, r) == journal' = [journal EXCEPT ![t] = r]

Lowest(S) == {s \in S : \A x \in S : s <= x}
Highest(S) == {s \in S : \A x \in S : s >= x}

Revertible == {t \in DOMAIN journal : Eligible(journal[t])}
Applied == {t \in DOMAIN journal : journal[t].status = "Applied"}

\* Mutant: the history read from its other end.
LatestOldest == Lowest(Revertible)

\* BoostGate::latestAppliedTransactionId; empty when there is none.
Latest == Highest(Revertible)

-----------------------------------------------------------------------------
(* Applying: RemediationService::applyIds and applySafeFix.                *)

\* Mutant: an applyIds() that takes no OperationGuard.
PrepareUnguarded(f, kind, asked) ==
    /\ pc[f] = "idle"
    /\ Len(journal) < MaxTx
    /\ journal' = Append(journal,
          [status  |-> "Prepared",
           boost   |-> kind = "boost",
           before  |-> sys,
           outcome |-> [s \in Settings |-> IF s \in asked THEN "NotChecked" ELSE "absent"],
           listed  |-> {}])
    /\ Enter(f, kind, Len(journal) + 1, "prepared")
    /\ UNCHANGED <<sys, marker, guard, lock>>

\* The transaction is created and prepare() snapshots the settings. The
\* bridge goes straight to FixTransaction; the others take the guard first.
Prepare(f, kind, asked) ==
    /\ pc[f] = "idle"
    /\ Len(journal) < MaxTx
    /\ IF kind = "bridge" THEN UNCHANGED guard ELSE guard = None /\ guard' = f
    /\ journal' = Append(journal,
          [status  |-> "Prepared",
           boost   |-> kind = "boost",
           before  |-> sys,
           outcome |-> [s \in Settings |-> IF s \in asked THEN "NotChecked" ELSE "absent"],
           listed  |-> {}])
    /\ Enter(f, kind, Len(journal) + 1, "prepared")
    /\ UNCHANGED <<sys, marker, lock>>

ExecuteRefused(f) ==
    /\ pc[f] = "prepared"
    /\ lock # None \/ ~StillAsPrepared(journal[tx[f]])
    /\ ReleaseAll(f)
    /\ Return(f)
    /\ UNCHANGED <<sys, journal, marker>>

\* Mutant: an execute() that does not try the process-wide mutex.
ExecuteBeginsUnlocked(f) ==
    /\ pc[f] = "prepared"
    /\ StillAsPrepared(journal[tx[f]])
    /\ lock' = f
    /\ GoTo(f, "applying")
    /\ UNCHANGED <<sys, journal, marker, guard>>

ExecuteBegins(f) ==
    /\ pc[f] = "prepared"
    /\ lock = None
    /\ StillAsPrepared(journal[tx[f]])
    /\ lock' = f
    /\ GoTo(f, "applying")
    /\ UNCHANGED <<sys, journal, marker, guard>>

\* One action: the first that has not been tried.
Apply(f) ==
    /\ pc[f] = "applying"
    /\ LET r == journal[tx[f]]
       IN  \E s \in Lowest(With(r, "NotChecked")) :
              \/ /\ sys[s] = r.before[s]
                 /\ sys' = [sys EXCEPT ![s] = "engine"]
                 /\ Update(tx[f], [r EXCEPT !.status = "Applying",
                                            !.outcome[s] = "Applied",
                                            !.listed = @ \cup {s}])
              \/ /\ sys[s] # r.before[s] \/ Refusals
                 /\ sys' = sys
                 /\ Update(tx[f], [r EXCEPT !.outcome[s] = "Failed"])
    /\ UNCHANGED <<marker, guard, lock, pc, op, tx, failing>>

\* Mutant: a transaction that applied nothing gets a status nobody expects.
FinishExecuteCancelled(f) ==
    /\ pc[f] = "applying"
    /\ LET r == journal[tx[f]]
           status == IF r.listed = {} THEN "Cancelled" ELSE "Applied"
       IN  /\ With(r, "NotChecked") = {}
           /\ Update(tx[f], [r EXCEPT !.status = status])
           /\ IF op[f] = "boost" /\ status = "Applied" THEN GoTo(f, "listing") ELSE Return(f)
    /\ ReleaseAll(f)
    /\ UNCHANGED <<sys, marker>>

FinishExecute(f) ==
    /\ pc[f] = "applying"
    /\ LET r == journal[tx[f]]
           status == IF r.listed = {} THEN "Failed" ELSE "Applied"
       IN  /\ With(r, "NotChecked") = {}
           /\ Update(tx[f], [r EXCEPT !.status = status])
           /\ IF op[f] = "boost" /\ status = "Applied" THEN GoTo(f, "listing") ELSE Return(f)
    /\ ReleaseAll(f)
    /\ UNCHANGED <<sys, marker>>

\* applyBoost, after the service has returned and released the guard: the
\* newest Applied record of the journal is taken to be its own.
ListNewest(f) ==
    /\ pc[f] = "listing"
    /\ \/ Applied = {} /\ Return(f)
       \/ \E t \in Highest(Applied) : Enter(f, "boost", t, "marking")
    /\ UNCHANGED <<sys, journal, marker, guard, lock>>

WriteMarker(f) ==
    /\ pc[f] = "marking"
    /\ marker' = tx[f]
    /\ Return(f)
    /\ UNCHANGED <<sys, journal, guard, lock>>

-----------------------------------------------------------------------------
(* Reverting: revertBoost, revertTransaction, RemediationService::rollback.*)

\* revertBoost reads the marker; without one it looks for the newest record.
ReadMarker(f) ==
    /\ pc[f] = "idle"
    /\ Enter(f, "revert", marker, IF marker = None THEN "choosing" ELSE "reverting")
    /\ UNCHANGED <<sys, journal, marker, guard, lock>>

ChooseLatest(f) ==
    /\ pc[f] = "choosing"
    /\ \/ Latest = {} /\ Return(f)
       \/ \E t \in Latest : Enter(f, "revert", t, "reverting")
    /\ UNCHANGED <<sys, journal, marker, guard, lock>>

\* A row of the history whose button is enabled.
Select(f, t) ==
    /\ pc[f] = "idle"
    /\ Eligible(journal[t])
    /\ Enter(f, "revert", t, "reverting")
    /\ UNCHANGED <<sys, journal, marker, guard, lock>>

\* rollback() takes the record if nobody else is at work and nothing changed.
Accepted(r) == Eligible(r) /\ StillAsApplied(r)

RollbackRefused(f) ==
    /\ pc[f] = "reverting"
    /\ guard # None \/ lock # None \/ ~Accepted(journal[tx[f]])
    /\ Return(f)
    /\ UNCHANGED <<sys, journal, marker, guard, lock>>

RollbackBegins(f) ==
    /\ pc[f] = "reverting"
    /\ guard = None
    /\ lock = None
    /\ Accepted(journal[tx[f]])
    /\ guard' = f
    /\ lock' = f
    /\ Update(tx[f], [journal[tx[f]] EXCEPT !.status = "RollingBack"])
    /\ GoTo(f, "undoing")
    /\ UNCHANGED <<sys, marker>>

\* Mutant: a refused write recorded like one that worked.
UndoSwallowed(f) ==
    /\ pc[f] = "undoing"
    /\ LET r == journal[tx[f]]
       IN  \E s \in Highest(With(r, "Applied")) :
              /\ \/ sys[s] = "engine" /\ sys' = [sys EXCEPT ![s] = r.before[s]]
                 \/ (sys[s] # "engine" \/ Refusals) /\ sys' = sys
              /\ Update(tx[f], [r EXCEPT !.outcome[s] = "Reverted"])
    /\ UNCHANGED <<marker, guard, lock, pc, op, tx, failing>>

Undo(f) ==
    /\ pc[f] = "undoing"
    /\ LET r == journal[tx[f]]
       IN  \E s \in Highest(With(r, "Applied")) :
              \/ /\ sys[s] = "engine"
                 /\ sys' = [sys EXCEPT ![s] = r.before[s]]
                 /\ Update(tx[f], [r EXCEPT !.outcome[s] = "Reverted"])
                 /\ UNCHANGED failing
              \/ /\ sys[s] # "engine" \/ Refusals
                 /\ sys' = sys
                 /\ Update(tx[f], [r EXCEPT !.outcome[s] = "Failed"])
                 /\ failing' = [failing EXCEPT ![f] = TRUE]
    /\ UNCHANGED <<marker, guard, lock, pc, op, tx>>

\* Mutant: the marker of a reverted boost is left behind.
FinishRollbackKeepsMarker(f) ==
    /\ pc[f] = "undoing"
    /\ With(journal[tx[f]], "Applied") = {}
    /\ Update(tx[f], [journal[tx[f]] EXCEPT
                         !.status = IF failing[f] THEN "RollbackFailed" ELSE "Reverted"])
    /\ ReleaseAll(f)
    /\ Return(f)
    /\ UNCHANGED <<sys, marker>>

FinishRollback(f) ==
    /\ pc[f] = "undoing"
    /\ With(journal[tx[f]], "Applied") = {}
    /\ Update(tx[f], [journal[tx[f]] EXCEPT
                         !.status = IF failing[f] THEN "RollbackFailed" ELSE "Reverted"])
    /\ ReleaseAll(f)
    /\ IF failing[f] THEN Return(f) ELSE GoTo(f, "unmarking")
    /\ UNCHANGED <<sys, marker>>

\* After a rollback that succeeded, and after the guard is released, the
\* marker is compared, then removed.
CompareMarker(f) ==
    /\ pc[f] = "unmarking"
    /\ IF marker = tx[f] THEN GoTo(f, "removing") ELSE Return(f)
    /\ UNCHANGED <<sys, journal, marker, guard, lock>>

RemoveMarker(f) ==
    /\ pc[f] = "removing"
    /\ marker' = None
    /\ Return(f)
    /\ UNCHANGED <<sys, journal, guard, lock>>

\* The process dies: its mutexes go with it, the files stay.
Crash ==
    /\ Crashes
    /\ \E f \in FrontEnds : pc[f] # "idle"
    /\ pc' = [f \in FrontEnds |-> "idle"]
    /\ op' = [f \in FrontEnds |-> "none"]
    /\ tx' = [f \in FrontEnds |-> None]
    /\ failing' = [f \in FrontEnds |-> FALSE]
    /\ guard' = None
    /\ lock' = None
    /\ UNCHANGED <<sys, journal, marker>>

-----------------------------------------------------------------------------
Start(f) ==
    \/ \E asked \in Requests :
          \/ f \in Boosters /\ Prepare(f, "boost", asked)
          \/ f \in Fixers /\ Prepare(f, "fix", asked)
          \/ f \in Bridges /\ Prepare(f, "bridge", asked)
    \/ f \in Reverters /\ ReadMarker(f)
    \/ f \in Selectors /\ \E t \in DOMAIN journal : Select(f, t)

Continue(f) ==
    \/ ExecuteRefused(f) \/ ExecuteBegins(f) \/ Apply(f) \/ FinishExecute(f)
    \/ ListNewest(f) \/ WriteMarker(f)
    \/ ChooseLatest(f) \/ RollbackRefused(f) \/ RollbackBegins(f)
    \/ Undo(f) \/ FinishRollback(f) \/ CompareMarker(f) \/ RemoveMarker(f)

Next ==
    \/ \E f \in FrontEnds : Start(f) \/ Continue(f)
    \/ Crash

Spec == Init /\ [][Next]_vars

-----------------------------------------------------------------------------
(* Properties.                                                             *)

AllIdle == \A f \in FrontEnds : pc[f] = "idle"

\* The way back is never lost: while a setting is not as the user had it, a
\* record that holds the user's value has applied it and not reverted it,
\* however the transactions of all front ends overlap.
OriginalRecoverable ==
    \A s \in Settings : sys[s] # "original" =>
        \E t \in DOMAIN journal :
            /\ journal[t].before[s] = "original"
            /\ s \in journal[t].listed
            /\ journal[t].outcome[s] # "Reverted"

\* What execute() and rollback() have checked stays true until they have
\* written: no other operation of the program gets in between.
ChecksHold ==
    \A f \in FrontEnds :
        /\ pc[f] = "applying" => StillAsPrepared(journal[tx[f]])
        /\ pc[f] = "undoing" => StillAsApplied(journal[tx[f]])

\* Of the operations that take the OperationGuard none takes its snapshot while
\* another one is changing the settings: its backup is of a state the user has
\* seen, whatever is refused, cut short by a crash or done by the bridge.
GuardedSnapshotIsSettled ==
    [][\A f \in FrontEnds :
          Len(journal') > Len(journal) /\ pc'[f] # pc[f] /\ op'[f] # "bridge" =>
              \A g \in FrontEnds : pc[g] \in {"applying", "undoing"} => op[g] = "bridge"]_vars

\* The same of every operation of the program.
SnapshotIsSettled ==
    [][Len(journal') > Len(journal) =>
          \A f \in FrontEnds : pc[f] \notin {"applying", "undoing"}]_vars

\* The marker of the active boost names a transaction that can be reverted.
MarkerTellsTruth == AllIdle /\ marker # None => Eligible(journal[marker])

\* When the button is enabled, what it would revert is not refused.
Chosen == IF marker # None THEN {marker} ELSE Latest
ButtonWorks == AllIdle => \A t \in Chosen : Accepted(journal[t])
=============================================================================
