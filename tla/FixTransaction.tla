---------------------------- MODULE FixTransaction ----------------------------
(***************************************************************************)
(* One transaction of the remediation engine, from its creation to its     *)
(* last rollback: FixTransaction (prepare, execute, rollback), the actions *)
(* it drives (WindowsFixAction::observe and ::transition), the journal     *)
(* file of its record (IBackupStore::save, ::load) and the part of         *)
(* RemediationService::rollback that rebuilds it from that file.           *)
(*                                                                         *)
(* The granularity is what another program, a failing disk or a crash can  *)
(* come between: every look at a setting that decides anything, every      *)
(* write to Windows and every save of the record is a step of its own.     *)
(***************************************************************************)
EXTENDS Naturals, Sequences

CONSTANTS
    N,              \* number of actions of the transaction
    Values,         \* the values a setting can hold
    Torn,           \* what a setting made of several registry values shows
                    \* when only some of them were written
    EngineValue,    \* the value the stock action proposes for each setting
    Requests,       \* the value assignments a transaction may be created for
    WriteFaults,    \* how a write to each setting may go wrong
    SaveFaults,     \* how a save of the journal file may go wrong
    Volatile,       \* actions whose target can vanish (the game's process)
    ForeignWriters, \* settings that other programs or the user also change
    Crashes,        \* whether the process may die inside an operation
    NoRecord        \* no journal file, or no transaction object

Actions == 1..N
Settings == Values \cup {Torn}
WriteFaultKinds == {"refused", "half", "unconfirmed"}
SaveFaultKinds == {"kept", "lost"}

ASSUME ActionsAssumption == N \in Nat \ {0}
ASSUME ValuesAssumption ==
    /\ Torn \notin Values
    /\ EngineValue \in [Actions -> Values]
    /\ Requests \subseteq [Actions -> Values]
ASSUME FaultsAssumption ==
    /\ WriteFaults \in [Actions -> SUBSET WriteFaultKinds]
    /\ SaveFaults \subseteq SaveFaultKinds
    /\ Volatile \subseteq Actions
    /\ ForeignWriters \subseteq Actions
    /\ Crashes \in BOOLEAN

TransactionStatus == {"Prepared", "Applying", "Applied", "Failed",
                      "RollingBack", "Reverted", "RollbackFailed"}
ActionStatus == {"NotChecked", "Applied", "Failed", "Reverted"}

\* An ActionState: what observe() returns. Its status field is the comparison
\* of the value with the proposal of the object that observes.
States == [value : Settings, configured : BOOLEAN]

\* The fields of a TransactionRecord that decide anything. The state stored
\* with an Applied outcome is left out: execute() stores it only after it has
\* compared equal to the proposed state.
Records == [status  : TransactionStatus,
            before  : [Actions -> States],
            outcome : [Actions -> ActionStatus],
            applied : Seq(Actions)]

ASSUME RecordAssumption == NoRecord \notin Records

VARIABLES
    sys,      \* the live value of every setting
    gone,     \* the targets that no longer exist
    wanted,   \* the proposed values of this transaction
    mem,      \* record_ of the FixTransaction object of the last operation
    disk,     \* the journal file
    pc,       \* where the running operation stands, or "idle"
    cur,      \* the loop index of execute() or rollback()
    last,     \* the result of the last apply() or rollback() of an action
    failing,  \* any_failure of rollback()
    reply,    \* what the last operation told its caller
    original, \* history: the values when the transaction was created
    foreign,  \* history: settings other programs have changed since
    raced     \* history: those changed between a look and the write after it

env == <<gone, wanted, original, foreign>>
vars == <<sys, gone, wanted, mem, disk, pc, cur, last, failing, reply,
          original, foreign, raced>>

PCs == {"new", "prepared", "apply", "write", "record", "finish",
        "undo", "rewrite", "undone", "idle"}
Replies == {"none", "refused", "applied", "partial", "reverted", "failed"}

TypeOK ==
    /\ sys \in [Actions -> Settings]
    /\ gone \subseteq Actions
    /\ wanted \in [Actions -> Values]
    /\ mem \in Records \cup {NoRecord}
    /\ disk \in Records \cup {NoRecord}
    /\ pc \in PCs
    /\ cur \in Nat
    /\ last \in {"ok", "failed"}
    /\ failing \in BOOLEAN
    /\ reply \in Replies
    /\ original \in [Actions -> Values]
    /\ foreign \subseteq Actions
    /\ raced \subseteq Actions

\* The caller has chosen targets that exist and a value for each of them.
Init ==
    /\ sys \in [Actions -> Values]
    /\ original = sys
    /\ wanted \in Requests
    /\ gone = {}
    /\ foreign = {}
    /\ raced = {}
    /\ mem = NoRecord
    /\ disk = NoRecord
    /\ pc = "new"
    /\ cur = 0
    /\ last = "ok"
    /\ failing = FALSE
    /\ reply = "none"

-----------------------------------------------------------------------------
(* The actions and the journal, as the transaction uses them.              *)

\* WindowsFixAction::observe by an object that proposes target.
Observed(a, target) == [value |-> sys[a], configured |-> sys[a] = target[a]]

\* apply() and rollback() of one action, in two steps: it looks whether the
\* value is the expected one, then writes. The look that follows the write is
\* part of the step that records its result.
Fresh(a, expected) == a \notin gone /\ sys[a] = expected

Write(a, desired) ==
    \/ /\ a \notin gone
       /\ sys' = [sys EXCEPT ![a] = desired]
       /\ last' = "ok" \/ ("unconfirmed" \in WriteFaults[a] /\ last' = "failed")
    \/ /\ a \in gone \/ "refused" \in WriteFaults[a]
       /\ sys' = sys
       /\ last' = "failed"
    \/ /\ a \notin gone
       /\ "half" \in WriteFaults[a]
       /\ sys' = [sys EXCEPT ![a] = Torn]
       /\ last' = "failed"

\* JsonBackupStore::save that succeeds, and one that fails: before the old
\* file was removed, or after.
Saved(r) == disk' = r
NotSaved ==
    \/ "kept" \in SaveFaults /\ disk' = disk
    \/ "lost" \in SaveFaults /\ disk' = NoRecord

\* isRollbackEligible.
Eligible(r) ==
    /\ r.status \in {"Applied", "Failed", "RollbackFailed"}
    /\ r.applied # <<>>

End(answer) == pc' = "idle" /\ reply' = answer

-----------------------------------------------------------------------------
(* prepare()                                                               *)

Snapshot == [status  |-> "Prepared",
             before  |-> [a \in Actions |-> Observed(a, wanted)],
             outcome |-> [a \in Actions |-> "NotChecked"],
             applied |-> <<>>]

\* A target that cannot be read ends the transaction before it has a record.
PrepareRefused ==
    /\ pc = "new"
    /\ gone # {}
    /\ End("refused")
    /\ UNCHANGED <<sys, mem, disk, cur, last, failing, raced, env>>

Prepare ==
    /\ pc = "new"
    /\ gone = {}
    /\ \/ /\ Saved(Snapshot)
          /\ mem' = Snapshot
          /\ pc' = "prepared"
          /\ UNCHANGED reply
       \/ /\ NotSaved
          /\ mem' = [Snapshot EXCEPT !.status = "Failed"]
          /\ End("refused")
    /\ UNCHANGED <<sys, cur, last, failing, raced, env>>

-----------------------------------------------------------------------------
(* execute()                                                               *)

\* The freshness check over all actions.
StillAsPrepared ==
    \A a \in Actions : a \notin gone /\ Observed(a, wanted) = mem.before[a]

ExecuteRefused ==
    /\ pc = "prepared"
    /\ \/ ~StillAsPrepared /\ UNCHANGED disk
       \/ StillAsPrepared /\ NotSaved
    /\ End("refused")
    /\ UNCHANGED <<sys, mem, cur, last, failing, raced, env>>

ExecuteBegins ==
    /\ pc = "prepared"
    /\ StillAsPrepared
    /\ Saved(mem)
    /\ pc' = "apply"
    /\ cur' = 1
    /\ UNCHANGED <<sys, mem, last, reply, failing, raced, env>>

\* Mutant: an apply() that does not look first.
ApplyCheckedBlindly ==
    /\ pc = "apply"
    /\ pc' = "write"
    /\ UNCHANGED <<sys, mem, disk, cur, last, reply, failing, raced, env>>

ApplyChecked ==
    /\ pc = "apply"
    /\ Fresh(cur, mem.before[cur].value)
    /\ pc' = "write"
    /\ UNCHANGED <<sys, mem, disk, cur, last, reply, failing, raced, env>>

ApplyStale ==
    /\ pc = "apply"
    /\ ~Fresh(cur, mem.before[cur].value)
    /\ last' = "failed"
    /\ pc' = "record"
    /\ UNCHANGED <<sys, mem, disk, cur, reply, failing, raced, env>>

ApplyWrites ==
    /\ pc = "write"
    /\ Write(cur, wanted[cur])
    /\ pc' = "record"
    /\ raced' = {}
    /\ UNCHANGED <<mem, disk, cur, reply, failing, env>>

\* Mutant: a read-back that only looks whether the target is still there.
VerifiedByPresence == cur \notin gone

\* The looks that apply() and execute() take after the write.
Verified == last = "ok" /\ cur \notin gone /\ sys[cur] = wanted[cur]

NextAction ==
    /\ pc' = IF cur = N THEN "finish" ELSE "apply"
    /\ cur' = cur + 1
    /\ UNCHANGED reply

\* Mutant: the record takes the live state as the one to return to.
AppliedRecordRebased ==
    [mem EXCEPT !.status = "Applying",
                !.before = [@ EXCEPT ![cur] = Observed(cur, wanted)],
                !.outcome = [@ EXCEPT ![cur] = "Applied"],
                !.applied = Append(@, cur)]

AppliedRecord ==
    [mem EXCEPT !.status = "Applying",
                !.outcome = [@ EXCEPT ![cur] = "Applied"],
                !.applied = Append(@, cur)]

\* An action that worked must reach the journal before the next one starts.
RecordApplied ==
    /\ pc = "record"
    /\ Verified
    /\ \/ /\ Saved(AppliedRecord)
          /\ mem' = AppliedRecord
          /\ NextAction
       \/ /\ NotSaved
          /\ mem' = [AppliedRecord EXCEPT !.status = "Failed"]
          /\ End("failed")
          /\ UNCHANGED cur
    /\ UNCHANGED <<sys, last, failing, raced, env>>

\* An action that failed does not stop the others, and a failure to save
\* that is ignored.
RecordFailed ==
    /\ pc = "record"
    /\ ~Verified
    /\ mem' = [mem EXCEPT !.outcome = [@ EXCEPT ![cur] = "Failed"]]
    /\ Saved(mem') \/ NotSaved
    /\ NextAction
    /\ UNCHANGED <<sys, last, failing, raced, env>>

\* Mutants: a transaction whose last status is never set, and one that ends
\* with a status of the enumeration the engine does not otherwise use.
FinishExecuteUnset ==
    /\ pc = "finish"
    /\ mem' = mem
    /\ Saved(mem') \/ NotSaved
    /\ End(IF \E a \in Actions : mem.outcome[a] = "Failed" THEN "partial" ELSE "applied")
    /\ UNCHANGED <<sys, cur, last, failing, raced, env>>
FinishExecuteCancelled ==
    /\ pc = "finish"
    /\ mem' = [mem EXCEPT !.status = IF mem.applied = <<>> THEN "Cancelled" ELSE "Applied"]
    /\ Saved(mem') \/ NotSaved
    /\ End(IF \E a \in Actions : mem.outcome[a] = "Failed" THEN "partial" ELSE "applied")
    /\ UNCHANGED <<sys, cur, last, failing, raced, env>>

FinishExecute ==
    /\ pc = "finish"
    /\ mem' = [mem EXCEPT !.status = IF mem.applied = <<>> THEN "Failed" ELSE "Applied"]
    /\ Saved(mem') \/ NotSaved
    /\ End(IF \E a \in Actions : mem.outcome[a] = "Failed" THEN "partial" ELSE "applied")
    /\ UNCHANGED <<sys, cur, last, failing, raced, env>>

-----------------------------------------------------------------------------
(* RemediationService::rollback: load the record, rebuild the stock        *)
(* actions, restoreRecord(), rollback().                                   *)

InOrder(r) == {r.applied[k] : k \in DOMAIN r.applied}

\* Mutant: the freshness check of every entry of the applied order.
StillAsAppliedAll ==
    \A a \in InOrder(disk) :
        /\ a \notin gone
        /\ Observed(a, EngineValue) = [value |-> wanted[a], configured |-> TRUE]

\* The freshness check. The states stored with the outcomes were observed by
\* the actions of execute(); these are observed by the rebuilt ones.
StillAsApplied ==
    \A a \in InOrder(disk) : disk.outcome[a] = "Applied" =>
        /\ a \notin gone
        /\ Observed(a, EngineValue) = [value |-> wanted[a], configured |-> TRUE]

CanRollback == disk # NoRecord /\ Eligible(disk) /\ StillAsApplied

RollbackRefused ==
    /\ pc = "idle"
    /\ ~CanRollback
    /\ mem' = disk
    /\ End("refused")
    /\ UNCHANGED <<sys, disk, cur, last, failing, raced, env>>

RollbackBegins ==
    /\ pc = "idle"
    /\ CanRollback
    /\ mem' = [disk EXCEPT !.status = "RollingBack"]
    /\ \/ /\ Saved(mem')
          /\ pc' = "undo"
          /\ cur' = Len(disk.applied)
          /\ failing' = FALSE
          /\ reply' = "none"
       \/ /\ NotSaved
          /\ End("failed")
          /\ UNCHANGED <<cur, failing>>
    /\ UNCHANGED <<sys, last, raced, env>>

UndoChecked ==
    /\ pc = "undo"
    /\ cur > 0
    /\ LET a == mem.applied[cur]
       IN  mem.outcome[a] = "Applied" /\ Fresh(a, wanted[a])
    /\ pc' = "rewrite"
    /\ UNCHANGED <<sys, mem, disk, cur, last, reply, failing, raced, env>>

UndoStale ==
    /\ pc = "undo"
    /\ cur > 0
    /\ LET a == mem.applied[cur]
       IN  mem.outcome[a] = "Applied" /\ ~Fresh(a, wanted[a])
    /\ last' = "failed"
    /\ pc' = "undone"
    /\ UNCHANGED <<sys, mem, disk, cur, reply, failing, raced, env>>

UndoWrites ==
    /\ pc = "rewrite"
    /\ LET a == mem.applied[cur]
       IN  Write(a, mem.before[a].value)
    /\ pc' = "undone"
    /\ raced' = {}
    /\ UNCHANGED <<mem, disk, cur, reply, failing, env>>

\* Mutant: the loop that forgets to go on.
UndoSkippedForever ==
    /\ pc = "undo"
    /\ cur > 0
    /\ mem.outcome[mem.applied[cur]] # "Applied"
    /\ UNCHANGED vars

\* An action whose outcome is no longer Applied is passed over.
UndoSkipped ==
    /\ pc = "undo"
    /\ cur > 0
    /\ mem.outcome[mem.applied[cur]] # "Applied"
    /\ cur' = cur - 1
    /\ UNCHANGED <<sys, mem, disk, pc, last, failing, reply, raced, env>>

\* The state rollback() reads back is compared with before, status included.
Restored(a) ==
    /\ last = "ok"
    /\ a \notin gone
    /\ Observed(a, EngineValue) = mem.before[a]

UndoneRecord ==
    LET a == mem.applied[cur]
    IN  [mem EXCEPT !.outcome =
            [@ EXCEPT ![a] = IF Restored(a) THEN "Reverted" ELSE "Failed"]]

RecordUndone ==
    /\ pc = "undone"
    /\ failing' = (failing \/ ~Restored(mem.applied[cur]))
    /\ \/ /\ Saved(UndoneRecord)
          /\ mem' = UndoneRecord
          /\ pc' = "undo"
          /\ cur' = cur - 1
          /\ UNCHANGED reply
       \/ /\ NotSaved
          /\ mem' = [UndoneRecord EXCEPT !.status = "RollbackFailed"]
          /\ End("failed")
          /\ UNCHANGED cur
    /\ UNCHANGED <<sys, last, raced, env>>

\* Mutant: a loop that ends one entry early.
FinishRollbackEarly ==
    /\ pc = "undo"
    /\ cur \in {0, 1}
    /\ mem' = [mem EXCEPT !.status = IF failing THEN "RollbackFailed" ELSE "Reverted"]
    /\ Saved(mem') \/ NotSaved
    /\ End(IF failing THEN "failed" ELSE "reverted")
    /\ UNCHANGED <<sys, cur, last, failing, raced, env>>

FinishRollback ==
    /\ pc = "undo"
    /\ cur = 0
    /\ mem' = [mem EXCEPT !.status = IF failing THEN "RollbackFailed" ELSE "Reverted"]
    /\ Saved(mem') \/ NotSaved
    /\ End(IF failing THEN "failed" ELSE "reverted")
    /\ UNCHANGED <<sys, cur, last, failing, raced, env>>

-----------------------------------------------------------------------------
(* What the engine does not control.                                       *)

Saving ==
    \/ pc \in {"new", "prepared", "record", "finish", "undone"}
    \/ pc = "undo" /\ cur = 0

\* The process dies inside an operation. A save cut short leaves the old
\* file, or none when it had removed it.
Crash ==
    /\ Crashes
    /\ pc # "idle"
    /\ \/ disk' = disk
       \/ Saving /\ "lost" \in SaveFaults /\ disk' = NoRecord
    /\ mem' = NoRecord
    /\ raced' = {}
    /\ End("none")
    /\ UNCHANGED <<sys, cur, last, failing, env>>

\* Another program, or the user in Windows' own settings, changes a value.
ForeignChange(a, v) ==
    /\ pc # "new"
    /\ a \notin gone
    /\ sys[a] # v
    /\ sys' = [sys EXCEPT ![a] = v]
    /\ foreign' = foreign \cup {a}
    /\ raced' = IF pc \in {"write", "rewrite"} THEN raced \cup {a} ELSE raced
    /\ UNCHANGED <<gone, wanted, original, mem, disk, pc, cur, last, failing, reply>>

TargetVanishes(a) ==
    /\ a \notin gone
    /\ gone' = gone \cup {a}
    /\ UNCHANGED <<sys, wanted, original, foreign, raced, mem, disk, pc, cur, last, failing, reply>>

-----------------------------------------------------------------------------
\* The steps of a running operation. Starting a rollback is up to the user.
Engine ==
    \/ PrepareRefused \/ Prepare
    \/ ExecuteRefused \/ ExecuteBegins
    \/ ApplyChecked \/ ApplyStale \/ ApplyWrites \/ RecordApplied \/ RecordFailed \/ FinishExecute
    \/ UndoChecked \/ UndoStale \/ UndoWrites \/ UndoSkipped \/ RecordUndone \/ FinishRollback

User == RollbackRefused \/ RollbackBegins

World ==
    \/ Crash
    \/ \E a \in ForeignWriters, v \in Values : ForeignChange(a, v)
    \/ \E a \in Volatile : TargetVanishes(a)

Next == Engine \/ User \/ World

Spec == Init /\ [][Next]_vars

\* A thread that has started an operation keeps running; users, other
\* programs and crashes owe nothing.
FairSpec == Spec /\ WF_vars(Engine)

-----------------------------------------------------------------------------
(* Properties.                                                             *)

\* What the transaction has left changed: settings that differ from what they
\* were, though nobody else has touched them.
Residue == {a \in Actions \ (foreign \cup gone) : sys[a] # original[a]}

\* The journal offers a rollback, as the buttons of the program show it.
Offered == disk # NoRecord /\ Eligible(disk)

\* Backup before write: whatever execute() or rollback() has left changed, at
\* every moment and after every crash, the journal file exists and holds the
\* values from before the first write.
BackupIsPristine ==
    Residue # {} =>
        /\ disk # NoRecord
        /\ \A a \in Actions : disk.before[a].value = original[a]

\* A rollback that reports completion has put everything back, provided no
\* action of the transaction ever failed.
CleanRollbackRestores ==
    reply = "reverted" /\ (\A a \in Actions : mem.outcome[a] # "Failed")
        => Residue = {}

\* When the journal offers a rollback it tells the truth: what it calls Applied
\* is in force and what it calls Reverted is back, in spite of the saves whose
\* failure is ignored and of crashes between a write and its save.
OfferedJournalIsTrue ==
    pc = "idle" /\ Offered =>
        \A a \in Actions \ (foreign \cup gone) :
            /\ disk.outcome[a] = "Applied" => sys[a] = wanted[a]
            /\ disk.outcome[a] = "Reverted" => sys[a] = original[a]

\* execute() and rollback() overwrite a value only if it is the one they
\* recorded or the one they put there: what somebody else has given a third
\* value since is not clobbered, however long ago it was prepared, but for a
\* change that falls between the last look at the setting and the write.
ForeignValueSurvives ==
    [][\A a \in Actions \ raced :
          pc' # pc /\ sys'[a] # sys[a] =>
              sys[a] \in {original[a], wanted[a]}]_vars

\* A rollback the journal offers is not refused when nobody has interfered:
\* the freshness check of rollback() accepts the states execute() stored.
OfferedRollbackAccepted ==
    pc = "idle" /\ Offered /\ foreign = {} /\ gone = {} => StillAsApplied

\* isRollbackEligible refuses a record only when it is reverted already or has
\* nothing to revert.
RefusedMeansNothingLeft == pc = "idle" /\ ~Offered => Residue = {}

\* An execute() that reports success leaves a record that can be rolled back.
AppliedMeansOffered == reply = "applied" => Offered

\* What the buttons offer is what there is to take back: a success is offered,
\* and what is not offered has left nothing.
OffersAreComplete == RefusedMeansNothingLeft /\ AppliedMeansOffered

\* The actions a completed rollback claims to have reverted are all back.
RevertedMeansRestored ==
    reply = "reverted" => InOrder(mem) \cap Residue = {}

\* Every operation ends: no path through the loops of execute() and rollback()
\* is left waiting, whatever the disk, the settings and other programs do.
OperationsEnd == (pc # "idle") ~> (pc = "idle")

\* A running operation is never without a next step: what the liveness theorem
\* assumes of ENABLED.
EngineCan == ENABLED <<Engine>>_vars
EveryAnswerIsHandled == pc # "idle" => EngineCan

=============================================================================
