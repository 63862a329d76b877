------------------------- MODULE FixTransactionProofs -------------------------
(***************************************************************************)
(* The invariants of FixTransaction for any number of actions, any values  *)
(* and any of the faults, and what holds without some of the faults.       *)
(***************************************************************************)
EXTENDS FixTransaction, WellFoundedInduction, TLAPS

-----------------------------------------------------------------------------
(* The inductive invariant.                                                *)

Running == pc \notin {"new", "idle"}

\* What both records say of the values before the transaction.
BeforeIsOriginal(r) ==
    r # NoRecord => \A a \in Actions : r.before[a].value = original[a]

\* Only actions listed in the applied order carry the outcome Applied.
AppliedIsListed(r) ==
    r # NoRecord =>
        \A a \in Actions : r.outcome[a] = "Applied" =>
            \E k \in DOMAIN r.applied : r.applied[k] = a

\* The actions whose write is done and whose outcome is not yet recorded.
InFlight ==
    {a \in Actions : \/ pc = "record" /\ a = cur
                     \/ pc = "undone" /\ a = mem.applied[cur]}

\* The record r describes the settings, but for the actions in skip.
Describes(r, skip) ==
    \A a \in Actions : a \notin foreign /\ a \notin gone /\ a \notin skip =>
        /\ r.outcome[a] = "NotChecked" => sys[a] = original[a]
        /\ r.outcome[a] = "Applied" => sys[a] = wanted[a]
        /\ r.outcome[a] = "Reverted" => sys[a] = original[a]

\* Nothing has happened before prepare().
FreshStart == pc = "new" => sys = original /\ mem = NoRecord /\ disk = NoRecord

\* The loop indices, and the statuses a running operation goes through. The
\* file it would leave behind if it died is never one that is offered.
Control ==
    Running =>
        /\ mem # NoRecord
        /\ mem.status \in {"Prepared", "Applying", "RollingBack"}
        /\ disk # NoRecord => disk.status \in {"Prepared", "Applying", "RollingBack"}
        /\ pc \in {"apply", "write", "record"} => cur \in Actions
        /\ pc = "undo" => cur \in 0..Len(mem.applied)
        /\ pc \in {"rewrite", "undone"} =>
              /\ cur \in 1..Len(mem.applied)
              /\ mem.outcome[mem.applied[cur]] = "Applied"

\* execute() has not come to the actions from cur on.
NotYetTried ==
    pc \in {"prepared", "apply", "write", "record"} =>
        \A a \in Actions :
            pc = "prepared" \/ a >= cur => mem.outcome[a] = "NotChecked"

\* rollback() has dealt with every entry of the order above cur.
AlreadyUndone ==
    pc \in {"undo", "rewrite", "undone"} =>
        \A k \in DOMAIN mem.applied :
            k > cur => mem.outcome[mem.applied[k]] # "Applied"

\* Before a write the setting is as it looked, unless somebody was faster.
LookedAt ==
    /\ pc = "write" /\ cur \notin raced => sys[cur] = mem.before[cur].value
    /\ pc = "rewrite" /\ mem.applied[cur] \notin raced =>
          sys[mem.applied[cur]] = wanted[mem.applied[cur]]

MemDescribes == Running => Describes(mem, InFlight)
DiskDescribes == pc = "idle" /\ Offered => Describes(disk, {})

RevertedAnswer ==
    reply = "reverted" =>
        /\ pc = "idle"
        /\ mem # NoRecord
        /\ Describes(mem, {})
        /\ \A a \in Actions : mem.outcome[a] # "Applied"

IInv ==
    /\ TypeOK
    /\ FreshStart
    /\ BeforeIsOriginal(mem)
    /\ BeforeIsOriginal(disk)
    /\ AppliedIsListed(mem)
    /\ AppliedIsListed(disk)
    /\ Control
    /\ NotYetTried
    /\ AlreadyUndone
    /\ LookedAt
    /\ MemDescribes
    /\ DiskDescribes
    /\ RevertedAnswer

-----------------------------------------------------------------------------
(* Types. The one fact about data: a record stays a record.                *)

LEMMA InitTypeOK == Init => TypeOK
<1> SUFFICES ASSUME Init PROVE TypeOK
  OBVIOUS
<1>1. wanted \in [Actions -> Values]
  BY ValuesAssumption DEF Init
<1>2. sys \in [Actions -> Settings]
  BY DEF Init, Settings
<1> QED
  BY <1>1, <1>2 DEF Init, TypeOK, PCs, Replies

LEMMA WriteType ==
    ASSUME TypeOK, NEW a \in Actions, NEW d \in Settings, Write(a, d)
    PROVE  sys' \in [Actions -> Settings] /\ last' \in {"ok", "failed"}
  BY DEF TypeOK, Write, Settings

LEMMA StatusUpdate ==
    ASSUME NEW r \in Records, NEW s \in TransactionStatus
    PROVE  LET u == [r EXCEPT !.status = s]
           IN  /\ u \in Records
               /\ u.status = s
               /\ u.before = r.before
               /\ u.outcome = r.outcome
               /\ u.applied = r.applied
  BY DEF Records

LEMMA OutcomeUpdate ==
    ASSUME NEW r \in Records, NEW a \in Actions, NEW o \in ActionStatus
    PROVE  LET u == [r EXCEPT !.outcome = [@ EXCEPT ![a] = o]]
           IN  /\ u \in Records
               /\ u.status = r.status
               /\ u.before = r.before
               /\ u.outcome = [r.outcome EXCEPT ![a] = o]
               /\ u.applied = r.applied
<1>1. [r.outcome EXCEPT ![a] = o] \in [Actions -> ActionStatus]
  BY DEF Records
<1> QED
  BY <1>1 DEF Records

LEMMA AppliedUpdate ==
    ASSUME NEW r \in Records, NEW a \in Actions
    PROVE  LET u == [r EXCEPT !.status = "Applying",
                              !.outcome = [@ EXCEPT ![a] = "Applied"],
                              !.applied = Append(@, a)]
           IN  /\ u \in Records
               /\ u.status = "Applying"
               /\ u.before = r.before
               /\ u.outcome = [r.outcome EXCEPT ![a] = "Applied"]
               /\ u.applied = Append(r.applied, a)
<1>1. [r.outcome EXCEPT ![a] = "Applied"] \in [Actions -> ActionStatus]
  BY DEF Records, ActionStatus
<1>2. Append(r.applied, a) \in Seq(Actions)
  BY DEF Records
<1> QED
  BY <1>1, <1>2 DEF Records, TransactionStatus

LEMMA UndoneIsRecord ==
    ASSUME mem \in Records, mem.applied[cur] \in Actions
    PROVE  /\ UndoneRecord \in Records
           /\ [UndoneRecord EXCEPT !.status = "RollbackFailed"] \in Records
           /\ UndoneRecord.status = mem.status
           /\ UndoneRecord.applied = mem.applied
<1>1. PICK u \in Records : /\ UndoneRecord = u
                           /\ u.status = mem.status
                           /\ u.applied = mem.applied
  BY ZenonT(40), OutcomeUpdate DEF UndoneRecord, ActionStatus
<1>2. [u EXCEPT !.status = "RollbackFailed"] \in Records
  BY StatusUpdate DEF TransactionStatus
<1> QED
  BY <1>1, <1>2

LEMMA InitControl == Init => Control
  BY DEF Init, Control, Running

LEMMA NextControl == TypeOK /\ Control /\ [Next]_vars => TypeOK' /\ Control'
<1> SUFFICES ASSUME TypeOK, Control, [Next]_vars
             PROVE  TypeOK' /\ Control'
  OBVIOUS
<1> USE ActionsAssumption, ValuesAssumption, FaultsAssumption, RecordAssumption
<1> USE DEF TypeOK, Control, Running, PCs, Replies, env
<1>1. CASE PrepareRefused
  BY <1>1 DEF PrepareRefused, End
<1>2. CASE Prepare
  <2>1. Snapshot \in Records
    BY DEF Snapshot, Observed, Records, States, TransactionStatus, ActionStatus
  <2>2. [Snapshot EXCEPT !.status = "Failed"] \in Records
    BY <2>1, StatusUpdate DEF TransactionStatus
  <2>3. Snapshot.status = "Prepared"
    BY DEF Snapshot
  <2> QED
    BY <1>2, <2>1, <2>2, <2>3 DEF Prepare, Saved, NotSaved, End
<1>3. CASE ExecuteRefused
  BY <1>3 DEF ExecuteRefused, NotSaved, End
<1>4. CASE ExecuteBegins
  BY <1>4 DEF ExecuteBegins, Saved, Actions
<1>5. CASE ApplyWrites
  <2>1. cur \in Actions /\ wanted[cur] \in Settings
    BY <1>5 DEF ApplyWrites, Settings
  <2>2. sys' \in [Actions -> Settings] /\ last' \in {"ok", "failed"}
    BY <1>5, <2>1, WriteType DEF ApplyWrites
  <2> QED
    BY <1>5, <2>1, <2>2 DEF ApplyWrites
<1>19. CASE ApplyChecked \/ ApplyStale
  BY <1>19 DEF ApplyChecked, ApplyStale
<1>6. CASE RecordApplied
  <2>1. mem \in Records /\ cur \in Actions
    BY <1>6 DEF RecordApplied
  <2>2. AppliedRecord \in Records /\ AppliedRecord.status = "Applying"
    BY ZenonT(40), <2>1, AppliedUpdate DEF AppliedRecord
  <2>3. [AppliedRecord EXCEPT !.status = "Failed"] \in Records
    BY <2>2, StatusUpdate DEF TransactionStatus
  <2>4. CASE Saved(AppliedRecord) /\ mem' = AppliedRecord /\ NextAction
    <3>1. cur' \in Nat /\ (pc' = "apply" => cur' \in Actions) /\ pc' \in {"apply", "finish"}
      BY <2>1, <2>4 DEF NextAction, Actions
    <3>2. TypeOK'
      BY <1>6, <2>2, <2>4, <3>1 DEF RecordApplied, Saved, NextAction
    <3>3. Control'
      BY <2>2, <2>4, <3>1 DEF Saved
    <3> QED
      BY <3>2, <3>3
  <2>5. CASE NotSaved /\ mem' = [AppliedRecord EXCEPT !.status = "Failed"]
             /\ End("failed") /\ UNCHANGED cur
    <3>1. TypeOK'
      BY <1>6, <2>3, <2>5 DEF RecordApplied, NotSaved, End
    <3>2. Control'
      BY <2>5 DEF End
    <3> QED
      BY <3>1, <3>2
  <2> QED
    BY <1>6, <2>4, <2>5 DEF RecordApplied
<1>7. CASE RecordFailed
  <2>1. /\ cur \in Actions
        /\ mem' \in Records
        /\ mem'.status = mem.status
    <3>1. mem \in Records /\ cur \in Actions
      BY <1>7 DEF RecordFailed
    <3> QED
      BY ZenonT(40), <1>7, <3>1, OutcomeUpdate DEF RecordFailed, ActionStatus
  <2>2. cur' \in Nat /\ (pc' = "apply" => cur' \in Actions) /\ pc' \in {"apply", "finish"}
    BY <1>7, <2>1 DEF RecordFailed, NextAction, Actions
  <2> QED
    BY <1>7, <2>1, <2>2 DEF RecordFailed, Saved, NotSaved, NextAction
<1>8. CASE FinishExecute
  <2>1. mem' \in Records
    BY <1>8, StatusUpdate DEF FinishExecute, TransactionStatus
  <2> QED
    BY <1>8, <2>1 DEF FinishExecute, Saved, NotSaved, End
<1>9. CASE RollbackRefused
  BY <1>9 DEF RollbackRefused, End
<1>10. CASE RollbackBegins
  <2>1. /\ mem' \in Records
        /\ mem'.status = "RollingBack"
        /\ mem'.applied = disk.applied
        /\ Len(disk.applied) \in Nat
    <3>1. disk \in Records /\ disk.applied \in Seq(Actions)
      BY <1>10 DEF RollbackBegins, CanRollback, Records
    <3>2. mem' = [disk EXCEPT !.status = "RollingBack"]
      BY <1>10 DEF RollbackBegins
    <3>3. "RollingBack" \in TransactionStatus
      BY DEF TransactionStatus
    <3>4. Len(disk.applied) \in Nat
      BY <3>1
    <3> QED
      BY <3>1, <3>2, <3>3, <3>4, StatusUpdate
  <2>2. CASE Saved(mem') /\ pc' = "undo" /\ cur' = Len(disk.applied) /\ failing' = FALSE
             /\ reply' = "none"
    <3>1. cur' \in Nat /\ cur' \in 0..Len(mem'.applied)
      BY <2>1, <2>2
    <3>2. TypeOK'
      BY <1>10, <2>1, <2>2, <3>1 DEF RollbackBegins, Saved
    <3>3. Control'
      BY <2>1, <2>2, <3>1 DEF Saved
    <3> QED
      BY <3>2, <3>3
  <2>3. CASE NotSaved /\ End("failed") /\ UNCHANGED <<cur, failing>>
    BY <1>10, <2>1, <2>3 DEF RollbackBegins, NotSaved, End
  <2> QED
    BY <1>10, <2>2, <2>3 DEF RollbackBegins
<1>11. CASE UndoWrites
  <2> DEFINE a == mem.applied[cur]
  <2>1. /\ mem \in Records
        /\ cur \in 1..Len(mem.applied)
        /\ a \in Actions
        /\ mem.before[a].value \in Settings
    BY <1>11 DEF UndoWrites, Records, States
  <2>2. sys' \in [Actions -> Settings] /\ last' \in {"ok", "failed"}
    BY <1>11, <2>1, WriteType DEF UndoWrites
  <2> QED
    BY <1>11, <2>1, <2>2 DEF UndoWrites
<1>20. CASE UndoChecked \/ UndoStale
  <2>1. /\ mem \in Records
        /\ cur \in 1..Len(mem.applied)
        /\ mem.outcome[mem.applied[cur]] = "Applied"
    BY <1>20 DEF UndoChecked, UndoStale, Records
  <2> QED
    BY <1>20, <2>1 DEF UndoChecked, UndoStale
<1>12. CASE UndoSkipped
  BY <1>12 DEF UndoSkipped, Records
<1>13. CASE RecordUndone
  <2>1. mem \in Records /\ mem.applied[cur] \in Actions
    BY <1>13 DEF RecordUndone, Records
  <2>2. /\ UndoneRecord \in Records
        /\ [UndoneRecord EXCEPT !.status = "RollbackFailed"] \in Records
        /\ UndoneRecord.status = mem.status
        /\ UndoneRecord.applied = mem.applied
    BY <2>1, UndoneIsRecord
  <2>3. failing' \in BOOLEAN
    BY <1>13 DEF RecordUndone
  <2> QED
    BY <1>13, <2>1, <2>2, <2>3 DEF RecordUndone, Saved, NotSaved, End
<1>14. CASE FinishRollback
  <2>1. mem' \in Records
    BY <1>14, StatusUpdate DEF FinishRollback, TransactionStatus
  <2> QED
    BY <1>14, <2>1 DEF FinishRollback, Saved, NotSaved, End
<1>15. CASE Crash
  BY <1>15 DEF Crash, End
<1>16. ASSUME NEW a \in ForeignWriters, NEW v \in Values, ForeignChange(a, v)
       PROVE  TypeOK' /\ Control'
  <2>1. a \in Actions /\ v \in Settings
    BY <1>16 DEF Settings
  <2> QED
    BY <1>16, <2>1 DEF ForeignChange
<1>17. ASSUME NEW a \in Volatile, TargetVanishes(a)
       PROVE  TypeOK' /\ Control'
  BY <1>17 DEF TargetVanishes
<1>18. CASE UNCHANGED vars
  BY <1>18 DEF vars
<1> QED
  BY <1>1, <1>2, <1>3, <1>4, <1>5, <1>6, <1>7, <1>8, <1>9, <1>10, <1>11, <1>12,
     <1>13, <1>14, <1>15, <1>16, <1>17, <1>18, <1>19, <1>20
  DEF Next, Engine, User, World

\* Every variable keeps its type, and a running operation has a record, a
\* status and a loop index that its next step can use.
THEOREM TypeCorrect == Spec => []TypeOK
<1>1. Init => TypeOK /\ Control
  BY InitTypeOK, InitControl
<1>2. TypeOK /\ Control /\ [Next]_vars => (TypeOK /\ Control)'
  BY NextControl
<1> QED
  BY <1>1, <1>2, PTL DEF Spec

-----------------------------------------------------------------------------
(* The inductive invariant is one.                                         *)

LEMMA InitIInv == Init => IInv
<1> SUFFICES ASSUME Init PROVE IInv
  OBVIOUS
<1>1. TypeOK /\ Control
  BY InitTypeOK, InitControl
<1>2. ~Running /\ ~Offered /\ mem = NoRecord /\ disk = NoRecord
  BY DEF Init, Running, Offered
<1> QED
  BY <1>1, <1>2 DEF IInv, Init, FreshStart, BeforeIsOriginal, AppliedIsListed,
     NotYetTried, AlreadyUndone, LookedAt, MemDescribes, DiskDescribes, RevertedAnswer

LEMMA Append1 ==
    ASSUME NEW s \in Seq(Actions), NEW x \in Actions
    PROVE  /\ \A k \in DOMAIN s : k \in DOMAIN Append(s, x) /\ Append(s, x)[k] = s[k]
           /\ \E k \in DOMAIN Append(s, x) : Append(s, x)[k] = x
<1>1. Len(s) + 1 \in DOMAIN Append(s, x) /\ Append(s, x)[Len(s) + 1] = x
  OBVIOUS
<1> QED
  BY <1>1

\* The invariant but for its control part.
DataInv ==
    /\ FreshStart
    /\ BeforeIsOriginal(mem)
    /\ BeforeIsOriginal(disk)
    /\ AppliedIsListed(mem)
    /\ AppliedIsListed(disk)
    /\ NotYetTried
    /\ AlreadyUndone
    /\ LookedAt
    /\ MemDescribes
    /\ DiskDescribes
    /\ RevertedAnswer

\* What a save, done or failed, leaves of the invariant of the file.
LEMMA SaveKeepsFile ==
    ASSUME IInv, Running, UNCHANGED original,
           BeforeIsOriginal(mem)', AppliedIsListed(mem)',
           Saved(mem') \/ NotSaved
    PROVE  BeforeIsOriginal(disk)' /\ AppliedIsListed(disk)'
<1>1. disk' = mem' \/ disk' = disk \/ disk' = NoRecord
  BY DEF Saved, NotSaved
<1> QED
  BY <1>1 DEF IInv, BeforeIsOriginal, AppliedIsListed

\* A file left by a running operation is not one that is offered.
LEMMA InterruptedIsNotOffered ==
    ASSUME IInv, Running, NotSaved
    PROVE  ~Offered'
  BY DEF IInv, Control, NotSaved, Offered, Eligible

LEMMA RecordAppliedData == IInv /\ RecordApplied => DataInv'
<1> SUFFICES ASSUME IInv, RecordApplied PROVE DataInv'
  OBVIOUS
<1> DEFINE order == mem.applied
<1>1. /\ Running
      /\ pc = "record"
      /\ mem \in Records
      /\ mem # NoRecord
      /\ cur \in Actions
      /\ mem.outcome \in [Actions -> ActionStatus]
      /\ order \in Seq(Actions)
      /\ sys[cur] = wanted[cur]
      /\ UNCHANGED <<sys, gone, foreign, original, wanted>>
  BY RecordAssumption DEF IInv, RecordApplied, Running, TypeOK, Control, Records, Verified, env
<1>2. PICK u \in Records : /\ AppliedRecord = u
                           /\ u.status = "Applying"
                           /\ u.before = mem.before
                           /\ u.outcome = [mem.outcome EXCEPT ![cur] = "Applied"]
                           /\ u.applied = Append(order, cur)
  BY <1>1, AppliedUpdate DEF AppliedRecord
<1>3. PICK f \in Records : /\ f = [u EXCEPT !.status = "Failed"]
                           /\ f.before = u.before
                           /\ f.outcome = u.outcome
                           /\ f.applied = u.applied
  BY ZenonT(40), StatusUpdate DEF TransactionStatus
<1>4. /\ mem' \in Records
      /\ mem' # NoRecord
      /\ mem'.before = mem.before
      /\ mem'.outcome = [mem.outcome EXCEPT ![cur] = "Applied"]
      /\ mem'.applied = Append(order, cur)
  BY <1>2, <1>3, RecordAssumption DEF RecordApplied
<1>5. \/ /\ disk' = mem' /\ pc' \in {"apply", "finish"}
         /\ cur' = cur + 1 /\ UNCHANGED reply
      \/ NotSaved /\ pc' = "idle" /\ reply' = "failed"
  BY <1>2 DEF RecordApplied, Saved, NextAction, End
<1>6. BeforeIsOriginal(mem)'
  BY <1>1, <1>4 DEF IInv, BeforeIsOriginal
<1>7. AppliedIsListed(mem)'
  <2> SUFFICES ASSUME NEW a \in Actions, mem'.outcome[a] = "Applied"
               PROVE  \E k \in DOMAIN mem'.applied : mem'.applied[k] = a
    BY DEF AppliedIsListed
  <2>1. CASE a = cur
    BY <1>1, <1>4, <2>1, Append1
  <2>2. CASE a # cur
    <3>1. PICK k \in DOMAIN order : order[k] = a
      BY <1>1, <1>4, <2>2 DEF IInv, AppliedIsListed
    <3> QED
      BY <1>1, <1>4, <3>1, Append1
  <2> QED
    BY <2>1, <2>2
<1>8. BeforeIsOriginal(disk)' /\ AppliedIsListed(disk)'
  BY <1>1, <1>5, <1>6, <1>7, SaveKeepsFile DEF Saved
<1>9. NotYetTried'
  BY <1>1, <1>4, <1>5 DEF IInv, NotYetTried, Actions
<1>10. MemDescribes'
  BY <1>1, <1>4, <1>5 DEF IInv, MemDescribes, Describes, InFlight, Running
<1>11. DiskDescribes'
  BY <1>1, <1>5, InterruptedIsNotOffered DEF DiskDescribes
<1>12. RevertedAnswer'
  BY <1>1, <1>5 DEF IInv, RevertedAnswer
<1> QED
  BY <1>5, <1>6, <1>7, <1>8, <1>9, <1>10, <1>11, <1>12
  DEF DataInv, FreshStart, AlreadyUndone, LookedAt

LEMMA RecordFailedData == IInv /\ RecordFailed => DataInv'
<1> SUFFICES ASSUME IInv, RecordFailed PROVE DataInv'
  OBVIOUS
<1>1. /\ Running
      /\ pc = "record"
      /\ mem \in Records
      /\ mem # NoRecord
      /\ cur \in Actions
      /\ mem.outcome \in [Actions -> ActionStatus]
      /\ UNCHANGED <<sys, gone, foreign, original, wanted>>
  BY RecordAssumption DEF IInv, RecordFailed, Running, TypeOK, Control, Records, env
<1>2. /\ mem' \in Records
      /\ mem' # NoRecord
      /\ mem'.before = mem.before
      /\ mem'.outcome = [mem.outcome EXCEPT ![cur] = "Failed"]
      /\ mem'.applied = mem.applied
  <2>1. mem' = [mem EXCEPT !.outcome = [@ EXCEPT ![cur] = "Failed"]]
    BY DEF RecordFailed
  <2>2. "Failed" \in ActionStatus
    BY DEF ActionStatus
  <2>3. mem' \in Records
    BY <1>1, <2>1, <2>2, OutcomeUpdate
  <2> QED
    BY <1>1, <2>1, <2>2, <2>3, OutcomeUpdate, RecordAssumption
<1>3. /\ Saved(mem') \/ NotSaved
      /\ pc' \in {"apply", "finish"}
      /\ cur' = cur + 1
      /\ UNCHANGED reply
  BY DEF RecordFailed, NextAction
<1>4. BeforeIsOriginal(mem)'
  BY <1>1, <1>2 DEF IInv, BeforeIsOriginal
<1>5. AppliedIsListed(mem)'
  BY <1>1, <1>2 DEF IInv, AppliedIsListed
<1>6. BeforeIsOriginal(disk)' /\ AppliedIsListed(disk)'
  BY <1>1, <1>3, <1>4, <1>5, SaveKeepsFile
<1>7. NotYetTried'
  BY <1>1, <1>2, <1>3 DEF IInv, NotYetTried, Actions
<1>8. MemDescribes'
  BY <1>1, <1>2, <1>3 DEF IInv, MemDescribes, Describes, InFlight, Running
<1>9. DiskDescribes'
  BY <1>3 DEF DiskDescribes
<1>10. RevertedAnswer'
  BY <1>1, <1>3 DEF IInv, RevertedAnswer
<1> QED
  BY <1>3, <1>4, <1>5, <1>6, <1>7, <1>8, <1>9, <1>10
  DEF DataInv, FreshStart, AlreadyUndone, LookedAt

LEMMA FinishExecuteData == IInv /\ FinishExecute => DataInv'
<1> SUFFICES ASSUME IInv, FinishExecute PROVE DataInv'
  OBVIOUS
<1>1. /\ Running
      /\ pc = "finish"
      /\ mem \in Records
      /\ mem # NoRecord
      /\ UNCHANGED <<sys, gone, foreign, original, wanted>>
  BY RecordAssumption DEF IInv, FinishExecute, Running, TypeOK, Control, env
<1>2. /\ mem' \in Records
      /\ mem' # NoRecord
      /\ mem'.before = mem.before
      /\ mem'.outcome = mem.outcome
      /\ mem'.applied = mem.applied
  <2>1. PICK st \in TransactionStatus : mem' = [mem EXCEPT !.status = st]
    BY DEF FinishExecute, TransactionStatus
  <2> QED
    BY <1>1, <2>1, StatusUpdate, RecordAssumption
<1>3. /\ Saved(mem') \/ NotSaved
      /\ pc' = "idle"
      /\ reply' \in {"partial", "applied"}
  BY DEF FinishExecute, End
<1>4. BeforeIsOriginal(mem)' /\ AppliedIsListed(mem)'
  BY <1>1, <1>2 DEF IInv, BeforeIsOriginal, AppliedIsListed
<1>5. BeforeIsOriginal(disk)' /\ AppliedIsListed(disk)'
  BY <1>1, <1>3, <1>4, SaveKeepsFile
<1>6. Describes(mem, {})'
  BY <1>1, <1>2 DEF IInv, MemDescribes, Describes, InFlight
<1>7. DiskDescribes'
  <2>1. CASE Saved(mem')
    BY <1>6, <2>1 DEF Saved, DiskDescribes, Describes
  <2>2. CASE NotSaved
    BY <1>1, <2>2, InterruptedIsNotOffered DEF DiskDescribes
  <2> QED
    BY <1>3, <2>1, <2>2
<1> QED
  BY <1>3, <1>4, <1>5, <1>7
  DEF DataInv, FreshStart, AlreadyUndone, LookedAt, NotYetTried, MemDescribes,
      Running, RevertedAnswer

LEMMA PrepareData == IInv /\ Prepare => DataInv'
<1> SUFFICES ASSUME IInv, Prepare PROVE DataInv'
  OBVIOUS
<1>1. /\ sys = original
      /\ disk = NoRecord
      /\ UNCHANGED <<sys, gone, foreign, original, wanted>>
      /\ reply' # "reverted"
  BY DEF IInv, Prepare, FreshStart, RevertedAnswer, End, env
<1>2. PICK s \in Records : /\ s = Snapshot
                           /\ \A a \in Actions : s.before[a].value = sys[a]
                           /\ s.outcome = [a \in Actions |-> "NotChecked"]
                           /\ s.applied = <<>>
  <2>1. Snapshot \in Records
    BY ValuesAssumption
    DEF Snapshot, Observed, Records, States, TransactionStatus, ActionStatus, IInv, TypeOK
  <2> QED
    BY <2>1 DEF Snapshot, Observed
<1>3. PICK f \in Records : /\ f = [s EXCEPT !.status = "Failed"]
                           /\ f.before = s.before
                           /\ f.outcome = s.outcome
                           /\ f.applied = s.applied
  BY ZenonT(40), StatusUpdate DEF TransactionStatus
<1>4. /\ mem' \in Records
      /\ mem'.before = s.before
      /\ mem'.outcome = s.outcome
      /\ mem'.applied = <<>>
      /\ \/ disk' = mem' /\ pc' = "prepared"
         \/ disk' = NoRecord /\ pc' = "idle"
  BY <1>1, <1>2, <1>3 DEF Prepare, Saved, NotSaved, End
<1>5. BeforeIsOriginal(mem)' /\ AppliedIsListed(mem)' /\ Describes(mem, {})'
  BY <1>1, <1>2, <1>4 DEF BeforeIsOriginal, AppliedIsListed, Describes
<1>6. BeforeIsOriginal(disk)' /\ AppliedIsListed(disk)'
  BY <1>4, <1>5 DEF BeforeIsOriginal, AppliedIsListed
<1>7. NotYetTried' /\ MemDescribes' /\ DiskDescribes'
  BY <1>2, <1>4, <1>5
  DEF NotYetTried, MemDescribes, DiskDescribes, Describes, Offered
<1> QED
  BY <1>1, <1>4, <1>5, <1>6, <1>7
  DEF DataInv, FreshStart, AlreadyUndone, LookedAt, RevertedAnswer

LEMMA RollbackBeginsData == IInv /\ RollbackBegins => DataInv'
<1> SUFFICES ASSUME IInv, RollbackBegins PROVE DataInv'
  OBVIOUS
<1>1. /\ pc = "idle"
      /\ Offered
      /\ disk \in Records
      /\ disk # NoRecord
      /\ disk.applied \in Seq(Actions)
      /\ UNCHANGED <<sys, gone, foreign, original, wanted>>
  BY RecordAssumption DEF IInv, RollbackBegins, CanRollback, Offered, TypeOK, Records, env
<1>2. /\ mem' \in Records
      /\ mem' # NoRecord
      /\ mem'.before = disk.before
      /\ mem'.outcome = disk.outcome
      /\ mem'.applied = disk.applied
  BY ZenonT(40), <1>1, StatusUpdate, RecordAssumption DEF RollbackBegins, TransactionStatus
<1>3. \/ disk' = mem' /\ pc' = "undo" /\ cur' = Len(disk.applied) /\ reply' = "none"
      \/ disk' \in {disk, NoRecord} /\ pc' = "idle" /\ reply' = "failed"
  BY DEF RollbackBegins, Saved, NotSaved, End
<1>4. BeforeIsOriginal(mem)' /\ AppliedIsListed(mem)'
  BY <1>1, <1>2 DEF IInv, BeforeIsOriginal, AppliedIsListed
<1>5. BeforeIsOriginal(disk)' /\ AppliedIsListed(disk)'
  BY <1>1, <1>3, <1>4 DEF IInv, BeforeIsOriginal, AppliedIsListed
<1>6. Describes(disk, {})
  BY <1>1 DEF IInv, DiskDescribes
<1>7. MemDescribes'
  BY <1>1, <1>2, <1>6 DEF MemDescribes, Describes
<1>8. DiskDescribes'
  BY <1>1, <1>3, <1>6 DEF DiskDescribes, Describes, Offered
<1>9. AlreadyUndone'
  BY <1>1, <1>2, <1>3 DEF AlreadyUndone
<1> QED
  BY <1>3, <1>4, <1>5, <1>7, <1>8, <1>9
  DEF DataInv, FreshStart, LookedAt, NotYetTried, RevertedAnswer

LEMMA UndoWritesData == IInv /\ UndoWrites => DataInv'
<1> SUFFICES ASSUME IInv, UndoWrites PROVE DataInv'
  OBVIOUS
<1> DEFINE b == mem.applied[cur]
<1>1. /\ Running
      /\ pc = "rewrite"
      /\ pc' = "undone"
      /\ mem \in Records
      /\ cur \in 1..Len(mem.applied)
      /\ mem.applied \in Seq(Actions)
      /\ b \in Actions
      /\ mem.outcome[b] = "Applied"
      /\ UNCHANGED <<gone, foreign, original, wanted, mem, disk, cur, reply>>
  BY RecordAssumption DEF IInv, UndoWrites, Running, TypeOK, Control, Records, env
<1>2. \A a \in Actions : a # b => sys'[a] = sys[a]
  BY <1>1 DEF UndoWrites, Write, IInv, TypeOK
<1>3. MemDescribes'
  BY <1>1, <1>2 DEF IInv, MemDescribes, Describes, InFlight, Running
<1>4. AlreadyUndone'
  BY <1>1 DEF IInv, AlreadyUndone
<1>5. BeforeIsOriginal(mem)' /\ AppliedIsListed(mem)' /\ BeforeIsOriginal(disk)'
      /\ AppliedIsListed(disk)'
  BY <1>1 DEF IInv, BeforeIsOriginal, AppliedIsListed
<1>6. RevertedAnswer'
  BY <1>1 DEF IInv, RevertedAnswer
<1> QED
  BY <1>1, <1>3, <1>4, <1>5, <1>6
  DEF DataInv, FreshStart, LookedAt, NotYetTried, DiskDescribes

LEMMA ApplyWritesData == IInv /\ ApplyWrites => DataInv'
<1> SUFFICES ASSUME IInv, ApplyWrites PROVE DataInv'
  OBVIOUS
<1>1. /\ Running
      /\ pc = "write"
      /\ pc' = "record"
      /\ mem \in Records
      /\ cur \in Actions
      /\ UNCHANGED <<gone, foreign, original, wanted, mem, disk, cur, reply>>
  BY RecordAssumption DEF IInv, ApplyWrites, Running, TypeOK, Control, env
<1>2. \A a \in Actions : a # cur => sys'[a] = sys[a]
  BY <1>1 DEF ApplyWrites, Write, IInv, TypeOK
<1>3. MemDescribes'
  BY <1>1, <1>2 DEF IInv, MemDescribes, Describes, InFlight, Running
<1>4. NotYetTried'
  BY <1>1 DEF IInv, NotYetTried
<1>5. BeforeIsOriginal(mem)' /\ AppliedIsListed(mem)' /\ BeforeIsOriginal(disk)'
      /\ AppliedIsListed(disk)'
  BY <1>1 DEF IInv, BeforeIsOriginal, AppliedIsListed
<1>6. RevertedAnswer'
  BY <1>1 DEF IInv, RevertedAnswer
<1> QED
  BY <1>1, <1>3, <1>4, <1>5, <1>6
  DEF DataInv, FreshStart, LookedAt, AlreadyUndone, DiskDescribes

LEMMA RecordUndoneData == IInv /\ RecordUndone => DataInv'
<1> SUFFICES ASSUME IInv, RecordUndone PROVE DataInv'
  OBVIOUS
<1> DEFINE b == mem.applied[cur]
<1>1. /\ Running
      /\ pc = "undone"
      /\ mem \in Records
      /\ mem # NoRecord
      /\ mem.applied \in Seq(Actions)
      /\ mem.outcome \in [Actions -> ActionStatus]
      /\ cur \in 1..Len(mem.applied)
      /\ b \in Actions
      /\ mem.outcome[b] = "Applied"
      /\ UNCHANGED <<sys, gone, foreign, original, wanted>>
  BY RecordAssumption DEF IInv, RecordUndone, Running, TypeOK, Control, Records, env
<1>2. PICK o \in ActionStatus : /\ o \in {"Reverted", "Failed"}
                                /\ o = "Reverted" => sys[b] = mem.before[b].value
                                /\ UndoneRecord = [mem EXCEPT !.outcome = [@ EXCEPT ![b] = o]]
  BY DEF UndoneRecord, Restored, Observed, ActionStatus
<1> DEFINE w == [mem EXCEPT !.outcome = [@ EXCEPT ![b] = o]]
<1>2a. /\ w \in Records
       /\ w.before = mem.before
       /\ w.outcome = [mem.outcome EXCEPT ![b] = o]
       /\ w.applied = mem.applied
  BY <1>1, OutcomeUpdate
<1>3. PICK u \in Records : /\ UndoneRecord = u
                           /\ u.before = mem.before
                           /\ u.outcome = [mem.outcome EXCEPT ![b] = o]
                           /\ u.applied = mem.applied
  BY <1>2, <1>2a
<1>4. PICK f \in Records : /\ f = [u EXCEPT !.status = "RollbackFailed"]
                           /\ f.before = u.before
                           /\ f.outcome = u.outcome
                           /\ f.applied = u.applied
  BY StatusUpdate DEF TransactionStatus
<1>5. /\ mem' \in Records
      /\ mem' # NoRecord
      /\ mem'.before = mem.before
      /\ mem'.outcome = [mem.outcome EXCEPT ![b] = o]
      /\ mem'.applied = mem.applied
  BY <1>3, <1>4, RecordAssumption DEF RecordUndone
<1>6. \/ disk' = mem' /\ pc' = "undo" /\ cur' = cur - 1 /\ UNCHANGED reply
      \/ NotSaved /\ pc' = "idle" /\ reply' = "failed"
  BY <1>3 DEF RecordUndone, Saved, End
<1>7. BeforeIsOriginal(mem)'
  BY <1>1, <1>5 DEF IInv, BeforeIsOriginal
<1>8. AppliedIsListed(mem)'
  BY <1>1, <1>2, <1>5 DEF IInv, AppliedIsListed
<1>9. BeforeIsOriginal(disk)' /\ AppliedIsListed(disk)'
  BY <1>1, <1>6, <1>7, <1>8, SaveKeepsFile DEF Saved
<1>10. AlreadyUndone'
  <2> SUFFICES ASSUME pc' = "undo", cur' = cur - 1, NEW k \in DOMAIN mem.applied, k > cur - 1
               PROVE  mem'.outcome[mem.applied[k]] # "Applied"
    BY <1>5, <1>6 DEF AlreadyUndone
  <2>1. CASE mem.applied[k] = b
    BY <1>1, <1>2, <1>5, <2>1
  <2>2. CASE mem.applied[k] # b
    <3>1. k > cur /\ mem.applied[k] \in Actions
      BY <1>1, <2>2
    <3> QED
      BY <1>1, <1>5, <2>2, <3>1 DEF IInv, AlreadyUndone
  <2> QED
    BY <2>1, <2>2
<1>11. o = "Reverted" => sys[b] = original[b]
  BY <1>1, <1>2 DEF IInv, BeforeIsOriginal
<1>12. MemDescribes'
  BY <1>1, <1>2, <1>5, <1>6, <1>11 DEF IInv, MemDescribes, Describes, InFlight, Running
<1>13. DiskDescribes'
  BY <1>1, <1>6, InterruptedIsNotOffered DEF DiskDescribes
<1>14. RevertedAnswer'
  BY <1>1, <1>6 DEF IInv, RevertedAnswer
<1> QED
  BY <1>6, <1>7, <1>8, <1>9, <1>10, <1>12, <1>13, <1>14
  DEF DataInv, FreshStart, LookedAt, NotYetTried

LEMMA FinishRollbackData == IInv /\ FinishRollback => DataInv'
<1> SUFFICES ASSUME IInv, FinishRollback PROVE DataInv'
  OBVIOUS
<1>1. /\ Running
      /\ pc = "undo"
      /\ cur = 0
      /\ mem \in Records
      /\ mem # NoRecord
      /\ mem.applied \in Seq(Actions)
      /\ UNCHANGED <<sys, gone, foreign, original, wanted>>
  BY RecordAssumption DEF IInv, FinishRollback, Running, TypeOK, Control, Records, env
<1>2. /\ mem' \in Records
      /\ mem' # NoRecord
      /\ mem'.before = mem.before
      /\ mem'.outcome = mem.outcome
      /\ mem'.applied = mem.applied
  <2>1. PICK st \in TransactionStatus : mem' = [mem EXCEPT !.status = st]
    BY DEF FinishRollback, TransactionStatus
  <2> QED
    BY <1>1, <2>1, StatusUpdate, RecordAssumption
<1>3. (Saved(mem') \/ NotSaved) /\ pc' = "idle"
  BY DEF FinishRollback, End
<1>4. BeforeIsOriginal(mem)' /\ AppliedIsListed(mem)'
  BY <1>1, <1>2 DEF IInv, BeforeIsOriginal, AppliedIsListed
<1>5. BeforeIsOriginal(disk)' /\ AppliedIsListed(disk)'
  BY <1>1, <1>3, <1>4, SaveKeepsFile
<1>6. Describes(mem, {})'
  BY <1>1, <1>2 DEF IInv, MemDescribes, Describes, InFlight
<1>7. \A a \in Actions : mem'.outcome[a] # "Applied"
  <2> SUFFICES ASSUME NEW a \in Actions, mem.outcome[a] = "Applied"
               PROVE  FALSE
    BY <1>2
  <2>1. PICK k \in DOMAIN mem.applied : mem.applied[k] = a
    BY <1>1 DEF IInv, AppliedIsListed
  <2>2. k > cur
    BY <1>1
  <2> QED
    BY <1>1, <2>1, <2>2 DEF IInv, AlreadyUndone
<1>8. DiskDescribes'
  <2>1. CASE Saved(mem')
    BY <1>6, <2>1 DEF Saved, DiskDescribes, Describes
  <2>2. CASE NotSaved
    BY <1>1, <2>2, InterruptedIsNotOffered DEF DiskDescribes
  <2> QED
    BY <1>3, <2>1, <2>2
<1> QED
  BY <1>2, <1>3, <1>4, <1>5, <1>6, <1>7, <1>8
  DEF DataInv, FreshStart, AlreadyUndone, LookedAt, NotYetTried, MemDescribes,
      Running, RevertedAnswer

LEMMA NextDataInv == IInv /\ [Next]_vars => DataInv'
<1> SUFFICES ASSUME IInv, [Next]_vars
             PROVE  DataInv'
  OBVIOUS
<1>0. TypeOK /\ Control /\ TypeOK' /\ Control'
  BY NextControl DEF IInv
<1> USE RecordAssumption
<1> USE DEF IInv, DataInv, FreshStart, BeforeIsOriginal, AppliedIsListed, NotYetTried,
            AlreadyUndone, LookedAt, MemDescribes, DiskDescribes, RevertedAnswer,
            Describes, InFlight, Running, Offered, env, End, Saved, NotSaved
<1>1. CASE PrepareRefused
  BY <1>1 DEF PrepareRefused
<1>3. CASE ExecuteRefused
  BY <1>0, <1>3 DEF ExecuteRefused, TypeOK, Control, Eligible
<1>4. CASE ExecuteBegins
  BY <1>0, <1>4 DEF ExecuteBegins, TypeOK, Control
<1>5. CASE ApplyChecked \/ ApplyStale
  BY <1>0, <1>5 DEF ApplyChecked, ApplyStale, Fresh, TypeOK, Control
<1>9. CASE RollbackRefused
  BY <1>0, <1>9 DEF RollbackRefused, TypeOK, Control
<1>11. CASE UndoChecked \/ UndoStale
  BY <1>0, <1>11 DEF UndoChecked, UndoStale, Fresh, TypeOK, Control
<1>12. CASE UndoSkipped
  BY <1>0, <1>12 DEF UndoSkipped, TypeOK, Control
<1>15. CASE Crash
  BY <1>0, <1>15 DEF Crash, TypeOK, Control, Eligible
<1>16. ASSUME NEW a \in ForeignWriters, NEW v \in Values, ForeignChange(a, v)
       PROVE  DataInv'
  BY <1>0, <1>16 DEF ForeignChange, TypeOK
<1>17. ASSUME NEW a \in Volatile, TargetVanishes(a)
       PROVE  DataInv'
  BY <1>0, <1>17 DEF TargetVanishes, TypeOK
<1>18. CASE UNCHANGED vars
  BY <1>18 DEF vars
<1> QED
  BY <1>1, PrepareData, <1>3, <1>4, <1>5, ApplyWritesData, RecordAppliedData, RecordFailedData,
     FinishExecuteData, <1>9, RollbackBeginsData, <1>11, UndoWritesData, <1>12, RecordUndoneData,
     FinishRollbackData, <1>15, <1>16, <1>17, <1>18
  DEF Next, Engine, User, World

\* Whatever has failed, every record describes the settings it is about: what
\* the journal calls applied, reverted or untouched is so.
THEOREM RecordsDescribeSettings == Spec => []IInv
<1>1. IInv /\ [Next]_vars => IInv'
  <2> SUFFICES ASSUME IInv, [Next]_vars PROVE IInv'
    OBVIOUS
  <2>1. TypeOK' /\ Control'
    BY NextControl DEF IInv
  <2>2. DataInv'
    BY NextDataInv
  <2> QED
    BY <2>1, <2>2 DEF IInv, DataInv
<1> QED
  BY InitIInv, <1>1, PTL DEF Spec

-----------------------------------------------------------------------------
(* What the user is promised.                                              *)

\* A rollback that reports completion, of a transaction no action of which
\* ever failed, has put every setting back: for any number of actions, any
\* faults of writes and saves, and any crashes before it.
THEOREM CleanRollback == Spec => []CleanRollbackRestores
<1>1. IInv => CleanRollbackRestores
  <2> SUFFICES ASSUME IInv, reply = "reverted",
                      \A a \in Actions : mem.outcome[a] # "Failed",
                      NEW a \in Actions, a \notin foreign, a \notin gone
               PROVE  sys[a] = original[a]
    BY DEF CleanRollbackRestores, Residue
  <2>1. mem \in Records /\ Describes(mem, {}) /\ mem.outcome[a] # "Applied"
    BY DEF IInv, RevertedAnswer, TypeOK
  <2>2. mem.outcome[a] \in {"NotChecked", "Reverted"}
    BY <2>1 DEF Records, ActionStatus
  <2> QED
    BY <2>1, <2>2 DEF Describes
<1> QED
  BY <1>1, RecordsDescribeSettings, PTL

\* A record the buttons of the program offer for rollback tells the truth.
THEOREM OfferedJournal == Spec => []OfferedJournalIsTrue
<1>1. IInv => OfferedJournalIsTrue
  BY DEF IInv, DiskDescribes, Describes, OfferedJournalIsTrue
<1> QED
  BY <1>1, RecordsDescribeSettings, PTL

\* The engine overwrites only the value it recorded and the value it wrote,
\* unless somebody changes it between its last look and its write.
THEOREM ForeignValues == Spec => ForeignValueSurvives
<1>1. ASSUME IInv, [Next]_vars, NEW a \in Actions \ raced, pc' # pc, sys'[a] # sys[a]
      PROVE  sys[a] \in {original[a], wanted[a]}
  <2>0. sys \in [Actions -> Settings]
    BY <1>1 DEF IInv, TypeOK
  <2>1. ApplyWrites \/ UndoWrites
    BY <1>1 DEF Next, Engine, User, World, vars, PrepareRefused, Prepare, ExecuteRefused,
       ExecuteBegins, ApplyChecked, ApplyStale, RecordApplied, RecordFailed, FinishExecute,
       UndoChecked, UndoStale, UndoSkipped, RecordUndone, FinishRollback, RollbackRefused,
       RollbackBegins, Crash, ForeignChange, TargetVanishes
  <2>2. CASE ApplyWrites
    <3>1. a = cur /\ pc = "write" /\ mem # NoRecord
      BY <1>1, <2>0, <2>2 DEF ApplyWrites, Write, IInv, Control, Running
    <3> QED
      BY <1>1, <3>1 DEF IInv, LookedAt, BeforeIsOriginal
  <2>3. CASE UndoWrites
    <3>1. a = mem.applied[cur] /\ pc = "rewrite"
      BY <1>1, <2>0, <2>3 DEF UndoWrites, Write
    <3> QED
      BY <1>1, <3>1 DEF IInv, LookedAt
  <2> QED
    BY <2>1, <2>2, <2>3
<1>2. IInv /\ [Next]_vars =>
        [\A a \in Actions \ raced : pc' # pc /\ sys'[a] # sys[a] =>
            sys[a] \in {original[a], wanted[a]}]_vars
  BY <1>1
<1> QED
  BY <1>2, RecordsDescribeSettings, PTL DEF ForeignValueSurvives, Spec

\* A transaction of the engine's own proposals, once applied, is not refused
\* its rollback unless somebody has interfered.
THEOREM StockRollbackAccepted ==
    ASSUME Requests = {EngineValue}
    PROVE  Spec => []OfferedRollbackAccepted
<1>1. Init => wanted = EngineValue
  BY DEF Init
<1>2. wanted = EngineValue /\ [Next]_vars => (wanted = EngineValue)'
  BY DEF Next, Engine, User, World, vars, env, PrepareRefused, Prepare, ExecuteRefused,
     ExecuteBegins, ApplyChecked, ApplyStale, ApplyWrites, RecordApplied, RecordFailed,
     FinishExecute, UndoChecked, UndoStale, UndoWrites, UndoSkipped, RecordUndone, FinishRollback, RollbackRefused, RollbackBegins, Crash, ForeignChange,
     TargetVanishes
<1>3. IInv /\ wanted = EngineValue => OfferedRollbackAccepted
  <2> SUFFICES ASSUME IInv, wanted = EngineValue, pc = "idle", Offered, foreign = {}, gone = {}
               PROVE  StillAsApplied
    BY DEF OfferedRollbackAccepted
  <2>1. disk \in Records /\ InOrder(disk) \subseteq Actions
    BY DEF IInv, TypeOK, Offered, Records, InOrder
  <2>2. Describes(disk, {})
    BY DEF IInv, DiskDescribes
  <2>3. \A a \in Actions : disk.outcome[a] = "Applied" => sys[a] = EngineValue[a]
    BY <2>2 DEF Describes
  <2> QED
    BY <2>1, <2>3 DEF StillAsApplied, Observed
<1> QED
  BY <1>1, <1>2, <1>3, RecordsDescribeSettings, PTL DEF Spec

\* While no save loses the old file, the record exists from before the first
\* write until for ever.
FileBeforeWrites ==
    disk = NoRecord =>
        /\ pc \in {"new", "idle"}
        /\ \A a \in Actions \ foreign : sys[a] = original[a]

LEMMA FileIsKept ==
    ASSUME "lost" \notin SaveFaults, IInv, [Next]_vars, disk # NoRecord
    PROVE  disk' # NoRecord
<1> USE DEF Saved
<1>0. NotSaved => disk' = disk
  BY DEF NotSaved
<1>1. TypeOK /\ Control /\ DataInv' /\ TypeOK'
  BY NextControl, NextDataInv DEF IInv
<1>2. Running => mem # NoRecord
  BY <1>1 DEF Control
<1>3. CASE Prepare
  BY <1>3 DEF IInv, FreshStart, Prepare
<1>4. CASE RecordApplied
  <2>1. mem \in Records /\ cur \in Actions
    BY <1>2, <1>4 DEF RecordApplied, IInv, TypeOK, Control, Running
  <2>2. AppliedRecord \in Records
    BY <2>1, AppliedUpdate DEF AppliedRecord
  <2> QED
    BY <1>0, <1>4, <2>2, RecordAssumption DEF RecordApplied
<1>5. CASE RecordUndone
  <2>1. mem \in Records /\ mem.applied[cur] \in Actions
    BY <1>2, <1>5 DEF RecordUndone, IInv, TypeOK, Control, Running, Records
  <2>2. UndoneRecord \in Records
    BY <2>1, UndoneIsRecord
  <2> QED
    BY <1>0, <1>5, <2>2, RecordAssumption DEF RecordUndone
<1>6. CASE RecordFailed
  BY <1>0, <1>6, NextControl DEF RecordFailed, NextAction, IInv, Control, Running
<1>7. CASE FinishExecute
  <2>1. PICK st \in TransactionStatus : mem' = [mem EXCEPT !.status = st]
    BY <1>7 DEF FinishExecute, TransactionStatus
  <2>2. mem' \in Records
    BY <1>2, <1>7, <2>1, StatusUpdate DEF FinishExecute, IInv, TypeOK, Running
  <2> QED
    BY <1>0, <1>7, <2>2, RecordAssumption DEF FinishExecute
<1>8. CASE RollbackBegins
  <2>1. mem' \in Records
    BY <1>8, StatusUpdate DEF RollbackBegins, CanRollback, IInv, TypeOK, TransactionStatus
  <2> QED
    BY <1>0, <1>8, <2>1, RecordAssumption DEF RollbackBegins
<1>9. CASE FinishRollback
  <2>1. PICK st \in TransactionStatus : mem' = [mem EXCEPT !.status = st]
    BY <1>9 DEF FinishRollback, TransactionStatus
  <2>2. mem' \in Records
    BY <1>2, <1>9, <2>1, StatusUpdate DEF FinishRollback, IInv, TypeOK, Running
  <2> QED
    BY <1>0, <1>9, <2>2, RecordAssumption DEF FinishRollback
<1>10. CASE ExecuteBegins
  BY <1>2, <1>10 DEF ExecuteBegins, Running
<1>11. CASE ExecuteRefused
  BY <1>0, <1>11 DEF ExecuteRefused
<1>12. CASE Crash
  BY <1>12 DEF Crash
<1>13. CASE \/ PrepareRefused \/ ApplyChecked \/ ApplyStale \/ ApplyWrites
            \/ UndoChecked \/ UndoStale \/ UndoWrites \/ UndoSkipped \/ RollbackRefused
            \/ \E a \in ForeignWriters, v \in Values : ForeignChange(a, v)
            \/ \E a \in Volatile : TargetVanishes(a)
            \/ UNCHANGED vars
  BY <1>13 DEF PrepareRefused, ApplyChecked, ApplyStale, ApplyWrites, UndoChecked, UndoStale,
     UndoWrites, UndoSkipped, RollbackRefused, ForeignChange, TargetVanishes, vars
<1> QED
  BY <1>3, <1>4, <1>5, <1>6, <1>7, <1>8, <1>9, <1>10, <1>11, <1>12, <1>13
  DEF Next, Engine, User, World

LEMMA NextFileBeforeWrites ==
    ASSUME "lost" \notin SaveFaults
    PROVE  IInv /\ FileBeforeWrites /\ [Next]_vars => FileBeforeWrites'
<1> SUFFICES ASSUME IInv, FileBeforeWrites, [Next]_vars, disk' = NoRecord
             PROVE  /\ pc' \in {"new", "idle"}
                    /\ \A a \in Actions \ foreign' : sys'[a] = original'[a]
  BY DEF FileBeforeWrites
<1>1. disk = NoRecord
  BY FileIsKept
<1>2. pc \in {"new", "idle"} /\ \A a \in Actions \ foreign : sys[a] = original[a]
  BY <1>1 DEF FileBeforeWrites
<1>3. ~CanRollback
  BY <1>1 DEF CanRollback
<1>4. CASE Prepare
  <2>1. Snapshot \in Records
    BY ValuesAssumption
    DEF Snapshot, Observed, Records, States, TransactionStatus, ActionStatus, IInv, TypeOK
  <2> QED
    BY <1>2, <1>4, <2>1, RecordAssumption DEF Prepare, Saved, End, env
<1>5. CASE PrepareRefused \/ RollbackRefused \/ Crash \/ UNCHANGED vars
  BY <1>2, <1>5 DEF PrepareRefused, RollbackRefused, Crash, End, env, vars
<1>6. ASSUME NEW a \in Actions, NEW v \in Values, ForeignChange(a, v)
      PROVE  /\ pc' \in {"new", "idle"}
             /\ \A b \in Actions \ foreign' : sys'[b] = original'[b]
  BY <1>2, <1>6 DEF ForeignChange, IInv, TypeOK
<1>7. ASSUME NEW a \in Volatile, TargetVanishes(a)
      PROVE  /\ pc' \in {"new", "idle"}
             /\ \A b \in Actions \ foreign' : sys'[b] = original'[b]
  BY <1>2, <1>7 DEF TargetVanishes
<1> QED
  BY <1>2, <1>3, <1>4, <1>5, <1>6, <1>7, FaultsAssumption
  DEF Next, Engine, User, World, ExecuteRefused, ExecuteBegins, ApplyChecked,
      ApplyStale, ApplyWrites, RecordApplied, RecordFailed, FinishExecute, UndoChecked,
      UndoStale, UndoWrites, UndoSkipped, RecordUndone, FinishRollback, RollbackBegins

\* Backup before write, for every fault but the loss of the old file: whatever
\* is changed, the journal holds the values from before the first write.
THEOREM BackupBeforeWrite ==
    ASSUME "lost" \notin SaveFaults
    PROVE  Spec => []BackupIsPristine
<1>1. Init => FileBeforeWrites
  BY DEF Init, FileBeforeWrites
<1>2. IInv /\ FileBeforeWrites /\ [Next]_vars => FileBeforeWrites'
  BY NextFileBeforeWrites
<1>3. IInv /\ FileBeforeWrites => BackupIsPristine
  BY DEF IInv, FileBeforeWrites, BeforeIsOriginal, BackupIsPristine, Residue
<1> QED
  BY <1>1, <1>2, <1>3, RecordsDescribeSettings, PTL DEF Spec

-----------------------------------------------------------------------------
(* What a transaction leaves behind where the disk and Windows do what     *)
(* they are told: for any number of actions, and whatever other programs   *)
(* change and whichever targets vanish meanwhile.                          *)

SavesSucceed == SaveFaults = {}
Quiet ==
    /\ SavesSucceed /\ ~Crashes /\ Requests = {EngineValue}
    /\ \A a \in Actions : WriteFaults[a] = {}

-----------------------------------------------------------------------------
(* A success that is reported is a record that is offered.                 *)

\* execute() leaves an outcome for every action it has passed.
Tried ==
    /\ pc \in {"apply", "write", "record"} =>
          \A a \in Actions : a < cur => mem.outcome[a] \in {"Applied", "Failed"}
    /\ pc = "finish" => \A a \in Actions : mem.outcome[a] \in {"Applied", "Failed"}

AnswerStands == reply = "applied" => pc = "idle" /\ Offered

LEMMA RunningRecord ==
    ASSUME IInv, Running
    PROVE  mem \in Records
BY DEF IInv, TypeOK, Control

LEMMA TriedOneMore ==
    ASSUME IInv, Tried, NextAction, pc = "record",
           NEW o \in {"Applied", "Failed"}, mem'.outcome = [mem.outcome EXCEPT ![cur] = o]
    PROVE  Tried'
<1>1. cur \in 1..N /\ N \in Nat /\ mem.outcome \in [Actions -> ActionStatus]
    BY RunningRecord, ActionsAssumption DEF IInv, Control, Running, Actions, Records
<1>2. \A a \in Actions : a < cur \/ a = cur => mem'.outcome[a] \in {"Applied", "Failed"}
    BY <1>1 DEF Tried, Actions
<1>3. cur' = cur + 1 /\ pc' = IF cur = N THEN "finish" ELSE "apply"
    BY DEF NextAction
<1> QED
    BY <1>1, <1>2, <1>3 DEF Tried, Actions

LEMMA NextTried == ASSUME IInv, Tried, [Next]_vars PROVE Tried'
<1>1. CASE RecordApplied
  <2>1. mem \in Records /\ cur \in Actions
      BY <1>1, RunningRecord DEF RecordApplied, IInv, Control, Running
  <2>2. AppliedRecord.outcome = [mem.outcome EXCEPT ![cur] = "Applied"]
      BY <2>1, AppliedUpdate DEF AppliedRecord
  <2> QED
      BY <1>1, <2>2, TriedOneMore DEF RecordApplied, End, Tried
<1>2. CASE RecordFailed
  <2>1. mem \in Records /\ cur \in Actions /\ "Failed" \in ActionStatus
      BY <1>2, RunningRecord DEF RecordFailed, IInv, Control, Running, ActionStatus
  <2>2. mem'.outcome = [mem.outcome EXCEPT ![cur] = "Failed"]
      BY <1>2, <2>1, OutcomeUpdate DEF RecordFailed
  <2> QED
      BY <1>2, <2>2, TriedOneMore DEF RecordFailed
<1>3. CASE ExecuteBegins
    BY <1>3 DEF ExecuteBegins, Tried, Actions
<1>4. CASE \/ PrepareRefused \/ Prepare \/ ExecuteRefused \/ FinishExecute
           \/ UndoChecked \/ UndoStale \/ UndoWrites \/ UndoSkipped \/ RecordUndone
           \/ FinishRollback \/ User \/ Crash
    BY <1>4 DEF PrepareRefused, Prepare, ExecuteRefused, FinishExecute, UndoChecked, UndoStale,
       UndoWrites, UndoSkipped, RecordUndone, FinishRollback, User, RollbackRefused,
       RollbackBegins, Crash, End, Tried
<1>5. CASE ApplyChecked \/ ApplyStale \/ ApplyWrites
    BY <1>5 DEF ApplyChecked, ApplyStale, ApplyWrites, Tried
<1>6. CASE (\E a \in ForeignWriters, v \in Values : ForeignChange(a, v))
           \/ (\E a \in Volatile : TargetVanishes(a)) \/ UNCHANGED vars
    BY <1>6 DEF ForeignChange, TargetVanishes, vars, Tried
<1> QED
    BY <1>1, <1>2, <1>3, <1>4, <1>5, <1>6 DEF Next, Engine, World, User

LEMMA NextAnswer ==
    ASSUME SavesSucceed, IInv, Tried, AnswerStands, [Next]_vars
    PROVE  AnswerStands'
<1>1. ~NotSaved
    BY DEF SavesSucceed, NotSaved
<1>2. CASE FinishExecute
  <2> SUFFICES ASSUME reply' = "applied" PROVE pc' = "idle" /\ Offered'
      BY DEF AnswerStands
  <2>1. mem \in Records /\ 1 \in Actions
      BY <1>2, RunningRecord, ActionsAssumption DEF FinishExecute, Running, Actions
  <2>2. mem.outcome[1] = "Applied"
      BY <1>2, <2>1 DEF FinishExecute, End, Tried
  <2>3. \E k \in DOMAIN mem.applied : mem.applied[k] = 1
      BY <2>1, <2>2, RecordAssumption DEF IInv, AppliedIsListed
  <2>4. mem.applied # <<>>
      BY <2>3
  <2>5. mem' = [mem EXCEPT !.status = "Applied"] /\ disk' = mem' /\ pc' = "idle"
      BY <1>1, <1>2, <2>4 DEF FinishExecute, End, Saved
  <2>6. mem' \in Records /\ mem'.status = "Applied" /\ mem'.applied = mem.applied
      BY <2>1, <2>5, StatusUpdate DEF TransactionStatus
  <2> QED
      BY <2>4, <2>5, <2>6, RecordAssumption DEF Offered, Eligible
<1>3. CASE \/ PrepareRefused \/ Prepare \/ ExecuteRefused \/ ExecuteBegins \/ ApplyChecked
           \/ ApplyStale \/ ApplyWrites \/ RecordApplied \/ RecordFailed
    BY <1>1, <1>3 DEF PrepareRefused, Prepare, ExecuteRefused, ExecuteBegins, ApplyChecked, ApplyStale,
       ApplyWrites, RecordApplied, RecordFailed, NextAction, End, AnswerStands
<1>4. CASE \/ UndoChecked \/ UndoStale \/ UndoWrites \/ UndoSkipped \/ RecordUndone
           \/ FinishRollback \/ User \/ Crash
    BY <1>1, <1>4 DEF UndoChecked, UndoStale, UndoWrites, UndoSkipped, RecordUndone, FinishRollback,
       User, RollbackRefused, RollbackBegins, Crash, End, AnswerStands
<1>5. CASE (\E a \in ForeignWriters, v \in Values : ForeignChange(a, v))
           \/ (\E a \in Volatile : TargetVanishes(a)) \/ UNCHANGED vars
    BY <1>5 DEF ForeignChange, TargetVanishes, vars, AnswerStands, Offered
<1> QED
    BY <1>2, <1>3, <1>4, <1>5 DEF Next, Engine, World

\* As long as every save succeeds, an execute() that reports success leaves a
\* record that the buttons of the program offer for rollback, whatever writes
\* fail, whoever interferes and wherever the process dies.
THEOREM AppliedOffered ==
    ASSUME SavesSucceed
    PROVE  Spec => []AppliedMeansOffered
<1>1. Init => Tried /\ AnswerStands
    BY DEF Init, Tried, AnswerStands
<1>2. IInv /\ Tried /\ AnswerStands /\ [Next]_vars => Tried' /\ AnswerStands'
    BY NextTried, NextAnswer
<1>3. AnswerStands => AppliedMeansOffered
    BY DEF AnswerStands, AppliedMeansOffered
<1> QED
    BY <1>1, <1>2, <1>3, RecordsDescribeSettings, PTL DEF Spec

-----------------------------------------------------------------------------
(* A record that is refused has left nothing.                              *)

\* What others have touched or what is gone: no residue of the transaction.
Excused == foreign \cup gone

\* Every save is a success, so there is one record.
OneRecord == mem = disk

FailedIsExcused ==
    mem # NoRecord => \A a \in Actions : mem.outcome[a] = "Failed" => a \in Excused

\* The stock action that rolls back compares as the one that has prepared.
ComparesAlike ==
    mem # NoRecord => \A a \in Actions :
        mem.before[a] = [value |-> original[a], configured |-> original[a] = EngineValue[a]]

\* A write says what has become of the setting until its outcome is recorded.
WriteTold ==
    /\ pc = "record" =>
          IF last = "ok" THEN cur \in Excused \/ sys[cur] = wanted[cur] ELSE cur \in Excused
    /\ pc = "undone" =>
          IF last = "ok" THEN mem.applied[cur] \in Excused \/ sys[mem.applied[cur]] = original[mem.applied[cur]]
          ELSE mem.applied[cur] \in Excused

\* The journal describes the settings between operations; what it does not
\* offer has no action that is still applied.
IdleTold ==
    pc = "idle" /\ disk # NoRecord =>
        /\ Describes(disk, {})
        /\ disk.status \notin {"Applied", "Failed", "RollbackFailed"} =>
              \A a \in Actions : disk.outcome[a] # "Applied"

QInv ==
    /\ wanted = EngineValue /\ OneRecord /\ FailedIsExcused /\ ComparesAlike /\ WriteTold /\ IdleTold

\* Steps that leave the record as it is.
LEMMA RecordRests ==
    ASSUME QInv, UNCHANGED <<mem, disk, wanted, original>>, Excused \subseteq Excused'
    PROVE  wanted' = EngineValue /\ OneRecord' /\ FailedIsExcused' /\ ComparesAlike'
BY DEF QInv, OneRecord, FailedIsExcused, ComparesAlike

LEMMA StaleIsExcused ==
    ASSUME Quiet, IInv, QInv, ApplyStale \/ UndoStale
    PROVE  QInv'
<1>1. UNCHANGED <<sys, mem, disk, cur, gone, foreign, wanted, original>> /\ last' = "failed"
    BY DEF ApplyStale, UndoStale, env
<1>2. CASE ApplyStale
  <2>1. /\ pc = "apply" /\ pc' = "record" /\ Running /\ cur \in Actions /\ mem # NoRecord
        /\ mem.outcome[cur] = "NotChecked" /\ InFlight = {}
      BY <1>2, ActionsAssumption DEF ApplyStale, Running, IInv, Control, NotYetTried, InFlight, Actions
  <2>2. cur \in Excused
      BY <1>2, <2>1 DEF ApplyStale, Fresh, IInv, MemDescribes, Describes, BeforeIsOriginal, Excused
  <2> QED
      BY <1>1, <2>1, <2>2, RecordRests DEF QInv, WriteTold, IdleTold, Excused
<1>3. CASE UndoStale
  <2>1. /\ pc = "undo" /\ pc' = "undone" /\ Running /\ mem \in Records /\ cur \in 1..Len(mem.applied)
        /\ mem.outcome[mem.applied[cur]] = "Applied" /\ InFlight = {}
      BY <1>3, RunningRecord DEF UndoStale, Running, IInv, Control, InFlight, Records
  <2>2. mem.applied[cur] \in Actions
      BY <2>1 DEF Records
  <2>3. mem.applied[cur] \in Excused
      BY <1>3, <2>1, <2>2 DEF UndoStale, Fresh, IInv, MemDescribes, Describes, Excused
  <2> QED
      BY <1>1, <2>1, <2>3, RecordRests DEF QInv, WriteTold, IdleTold, Excused
<1> QED
    BY <1>2, <1>3

LEMMA WritesAreTold ==
    ASSUME Quiet, IInv, QInv, ApplyWrites \/ UndoWrites
    PROVE  QInv'
<1>1. UNCHANGED <<mem, disk, cur, gone, foreign, wanted, original>> /\ Running /\ mem \in Records
    BY RunningRecord DEF ApplyWrites, UndoWrites, env, Running
<1>2. sys \in [Actions -> Settings]
    BY DEF IInv, TypeOK
<1>3. CASE ApplyWrites
  <2>1. /\ pc' = "record" /\ cur \in Actions /\ WriteFaults[cur] = {} /\ Write(cur, wanted[cur])
      BY <1>3 DEF ApplyWrites, Running, IInv, Control, Quiet
  <2>2. IF last' = "ok" THEN sys'[cur] = wanted[cur] ELSE cur \in gone
      BY <1>2, <2>1 DEF Write
  <2> QED
      BY <1>1, <2>1, <2>2, RecordRests DEF QInv, WriteTold, IdleTold, Excused
<1>4. CASE UndoWrites
  <2>1. /\ pc' = "undone" /\ cur \in 1..Len(mem.applied)
        /\ Write(mem.applied[cur], mem.before[mem.applied[cur]].value)
      BY <1>4 DEF UndoWrites, Running, IInv, Control
  <2>2. mem.applied[cur] \in Actions
      BY <1>1, <2>1 DEF Records
  <2>3. WriteFaults[mem.applied[cur]] = {} /\ mem.before[mem.applied[cur]].value = original[mem.applied[cur]]
      BY <1>1, <2>2, RecordAssumption DEF Quiet, IInv, BeforeIsOriginal
  <2>4. IF last' = "ok" THEN sys'[mem.applied[cur]] = original[mem.applied[cur]]
        ELSE mem.applied[cur] \in gone
      BY <1>2, <2>1, <2>2, <2>3 DEF Write
  <2> QED
      BY <1>1, <2>1, <2>4, RecordRests DEF QInv, WriteTold, IdleTold, Excused
<1> QED
    BY <1>3, <1>4

\* A step that records an outcome: Failed only where somebody interfered.
LEMMA OutcomeRecorded ==
    ASSUME Quiet, IInv, QInv, Running, pc' \notin {"idle", "record", "undone"}, disk' = mem',
           UNCHANGED <<sys, gone, foreign, wanted, original>>,
           NEW a \in Actions, NEW o \in ActionStatus, o = "Failed" => a \in Excused,
           mem' \in Records, mem'.before = mem.before, mem'.outcome = [mem.outcome EXCEPT ![a] = o]
    PROVE  QInv'
<1>1. mem # NoRecord /\ mem.outcome \in [Actions -> ActionStatus]
    BY RunningRecord, RecordAssumption DEF Records
<1>2. FailedIsExcused'
    BY <1>1 DEF QInv, FailedIsExcused, Excused
<1>3. ComparesAlike'
    BY <1>1 DEF QInv, ComparesAlike
<1> QED
    BY <1>2, <1>3 DEF QInv, OneRecord, WriteTold, IdleTold

LEMMA RecordsAreTold ==
    ASSUME Quiet, IInv, QInv, RecordApplied \/ RecordFailed \/ RecordUndone
    PROVE  QInv'
<1>1. ~NotSaved
    BY DEF Quiet, SavesSucceed, NotSaved
<1>2. UNCHANGED <<sys, gone, foreign, wanted, original>> /\ Running /\ mem \in Records
    BY RunningRecord DEF RecordApplied, RecordFailed, RecordUndone, env, Running
<1>3. CASE RecordApplied
  <2>1. cur \in Actions /\ "Applied" \in ActionStatus
      BY <1>3, <1>2 DEF RecordApplied, IInv, Control, ActionStatus
  <2>2. mem' = AppliedRecord /\ disk' = mem' /\ pc' \in {"apply", "finish"}
      BY <1>1, <1>3 DEF RecordApplied, Saved, NextAction
  <2>3. /\ mem' \in Records /\ mem'.before = mem.before
        /\ mem'.outcome = [mem.outcome EXCEPT ![cur] = "Applied"]
      BY <1>2, <2>1, <2>2, AppliedUpdate DEF AppliedRecord
  <2> QED
      BY <1>2, <2>1, <2>2, <2>3, OutcomeRecorded
<1>4. CASE RecordFailed
  <2>1. cur \in Actions /\ "Failed" \in ActionStatus
      BY <1>4, <1>2 DEF RecordFailed, IInv, Control, ActionStatus
  <2>2. /\ mem' = [mem EXCEPT !.outcome = [@ EXCEPT ![cur] = "Failed"]] /\ disk' = mem'
        /\ pc' \in {"apply", "finish"}
      BY <1>1, <1>4 DEF RecordFailed, Saved, NextAction
  <2>3. /\ mem' \in Records /\ mem'.before = mem.before
        /\ mem'.outcome = [mem.outcome EXCEPT ![cur] = "Failed"]
      BY <1>2, <2>1, <2>2, OutcomeUpdate
  <2>4. cur \in Excused
      BY <1>4 DEF RecordFailed, Verified, QInv, WriteTold, Excused
  <2> QED
      BY <1>2, <2>1, <2>2, <2>3, <2>4, OutcomeRecorded
<1>5. CASE RecordUndone
  <2> DEFINE b == mem.applied[cur]
             o == IF Restored(b) THEN "Reverted" ELSE "Failed"
  <2>1. pc = "undone" /\ cur \in 1..Len(mem.applied) /\ mem # NoRecord
      BY <1>5, <1>2, RecordAssumption DEF RecordUndone, IInv, Control
  <2>2. b \in Actions /\ o \in ActionStatus
      BY <1>2, <2>1 DEF Records, ActionStatus
  <2>3. mem' = UndoneRecord /\ disk' = mem' /\ pc' = "undo"
      BY <1>1, <1>5 DEF RecordUndone, Saved
  <2>4. /\ mem' \in Records /\ mem'.before = mem.before
        /\ mem'.outcome = [mem.outcome EXCEPT ![b] = o]
      BY <1>2, <2>2, <2>3, OutcomeUpdate DEF UndoneRecord
  <2>5. ASSUME ~Restored(b) PROVE b \in Excused
    <3>1. mem.before[b] = [value |-> original[b], configured |-> original[b] = EngineValue[b]]
        BY <2>1, <2>2 DEF QInv, ComparesAlike
    <3>2. IF last = "ok" THEN b \in Excused \/ sys[b] = original[b] ELSE b \in Excused
        BY <2>1 DEF QInv, WriteTold
    <3> QED
        BY <2>5, <3>1, <3>2 DEF Restored, Observed, Excused
  <2>6. o = "Failed" => b \in Excused
      BY <2>5
  <2> HIDE DEF b, o
  <2> QED
      BY <1>2, <2>2, <2>3, <2>4, <2>6, OutcomeRecorded
<1> QED
    BY <1>3, <1>4, <1>5

\* A step that changes no outcome but the status of the record.
LEMMA StatusTold ==
    ASSUME Quiet, IInv, QInv, mem \in Records, NEW st \in TransactionStatus,
           mem' = [mem EXCEPT !.status = st], disk' = mem',
           UNCHANGED <<sys, gone, foreign, wanted, original>>,
           Describes(mem, {}), pc' \notin {"record", "undone"},
           st \notin {"Applied", "Failed", "RollbackFailed"} /\ pc' = "idle" =>
               \A a \in Actions : mem.outcome[a] # "Applied"
    PROVE  QInv'
<1>1. /\ mem' \in Records /\ mem'.status = st /\ mem'.before = mem.before
      /\ mem'.outcome = mem.outcome /\ mem # NoRecord /\ mem' # NoRecord
    BY StatusUpdate, RecordAssumption
<1>2. FailedIsExcused' /\ ComparesAlike'
    BY <1>1 DEF QInv, FailedIsExcused, ComparesAlike, Excused
<1>3. IdleTold'
    BY <1>1 DEF IdleTold, Describes
<1> QED
    BY <1>2, <1>3 DEF QInv, OneRecord, WriteTold

LEMMA EndsAreTold ==
    ASSUME Quiet, IInv, QInv, FinishExecute \/ FinishRollback \/ RollbackBegins
    PROVE  QInv'
<1>1. ~NotSaved /\ UNCHANGED <<sys, gone, foreign, wanted, original>>
    BY DEF Quiet, SavesSucceed, NotSaved, FinishExecute, FinishRollback, RollbackBegins, env
<1>2. CASE FinishExecute
  <2>1. Running /\ InFlight = {} /\ pc' = "idle" /\ disk' = mem'
      BY <1>1, <1>2 DEF FinishExecute, Running, InFlight, End, Saved
  <2>2. mem \in Records /\ Describes(mem, {})
      BY <2>1, RunningRecord DEF IInv, MemDescribes
  <2>3. mem' = [mem EXCEPT !.status = IF mem.applied = <<>> THEN "Failed" ELSE "Applied"]
      BY <1>2 DEF FinishExecute
  <2> QED
      BY <1>1, <2>1, <2>2, <2>3, StatusTold DEF TransactionStatus
<1>3. CASE FinishRollback
  <2>1. Running /\ InFlight = {} /\ pc' = "idle" /\ disk' = mem'
      BY <1>1, <1>3 DEF FinishRollback, Running, InFlight, End, Saved
  <2>2. mem \in Records /\ Describes(mem, {})
      BY <2>1, RunningRecord DEF IInv, MemDescribes
  <2>3. mem' = [mem EXCEPT !.status = IF failing THEN "RollbackFailed" ELSE "Reverted"]
      BY <1>3 DEF FinishRollback
  <2>4. \A a \in Actions : mem.outcome[a] # "Applied"
      BY <1>3, <2>2, RecordAssumption DEF FinishRollback, IInv, AlreadyUndone, AppliedIsListed, Records
  <2> QED
      BY <1>1, <2>1, <2>2, <2>3, <2>4, StatusTold DEF TransactionStatus
<1>4. CASE RollbackBegins
  <2>1. pc = "idle" /\ disk # NoRecord /\ mem = disk /\ pc' = "undo" /\ disk' = mem'
      BY <1>1, <1>4 DEF RollbackBegins, CanRollback, Saved, QInv, OneRecord
  <2>2. mem \in Records /\ Describes(mem, {})
      BY <2>1 DEF IInv, TypeOK, QInv, IdleTold
  <2>3. mem' = [mem EXCEPT !.status = "RollingBack"]
      BY <1>4, <2>1 DEF RollbackBegins
  <2> QED
      BY <1>1, <2>1, <2>2, <2>3, StatusTold DEF TransactionStatus
<1> QED
    BY <1>2, <1>3, <1>4

LEMMA BeginningIsTold ==
    ASSUME Quiet, IInv, QInv, Prepare \/ PrepareRefused \/ ExecuteRefused \/ ExecuteBegins
    PROVE  QInv'
<1>1. ~NotSaved /\ UNCHANGED <<sys, gone, foreign, wanted, original>>
    BY DEF Quiet, SavesSucceed, NotSaved, Prepare, PrepareRefused, ExecuteRefused, ExecuteBegins, env
<1>2. CASE PrepareRefused
    BY <1>1, <1>2, RecordRests DEF PrepareRefused, End, IInv, FreshStart, QInv, WriteTold, IdleTold, Excused
<1>3. CASE Prepare
  <2>1. mem' = Snapshot /\ disk' = Snapshot /\ pc' = "prepared" /\ sys = original
      BY <1>1, <1>3 DEF Prepare, Saved, IInv, FreshStart
  <2>2. \A a \in Actions : /\ Snapshot.outcome[a] = "NotChecked"
                           /\ Snapshot.before[a] = Observed(a, wanted)
      BY DEF Snapshot
  <2>3. FailedIsExcused' /\ ComparesAlike'
      BY <1>1, <2>1, <2>2 DEF FailedIsExcused, ComparesAlike, Observed, QInv
  <2> QED
      BY <1>1, <2>1, <2>3 DEF QInv, OneRecord, WriteTold, IdleTold
<1>4. CASE ExecuteRefused
  <2>1. pc = "prepared" /\ pc' = "idle" /\ UNCHANGED <<mem, disk>> /\ Running /\ InFlight = {}
      BY <1>1, <1>4 DEF ExecuteRefused, End, Running, InFlight
  <2>2. Describes(mem, {}) /\ \A a \in Actions : mem.outcome[a] = "NotChecked"
      BY <2>1 DEF IInv, MemDescribes, NotYetTried
  <2>3. IdleTold'
      BY <1>1, <2>1, <2>2 DEF IdleTold, Describes, QInv, OneRecord
  <2> QED
      BY <1>1, <2>1, <2>3, RecordRests DEF QInv, WriteTold, Excused
<1>5. CASE ExecuteBegins
    BY <1>1, <1>5, RecordRests DEF ExecuteBegins, Saved, QInv, OneRecord, WriteTold, IdleTold, Excused
<1> QED
    BY <1>2, <1>3, <1>4, <1>5

LEMMA WorldIsTold ==
    ASSUME Quiet, IInv, QInv,
           \/ \E a \in ForeignWriters, v \in Values : ForeignChange(a, v)
           \/ \E a \in Volatile : TargetVanishes(a)
           \/ UNCHANGED vars
    PROVE  QInv'
<1>1. UNCHANGED <<mem, disk, pc, cur, last, wanted, original>> /\ Excused \subseteq Excused'
    BY DEF ForeignChange, TargetVanishes, vars, Excused
<1>2. \A a \in Actions \ Excused' : sys'[a] = sys[a]
    BY DEF ForeignChange, TargetVanishes, vars, Excused, IInv, TypeOK
<1>3. pc = "record" => cur \in Actions
    BY DEF IInv, Control, Running
<1>4. pc = "undone" => mem.applied[cur] \in Actions
  <2> SUFFICES ASSUME pc = "undone" PROVE mem.applied[cur] \in Actions
      OBVIOUS
  <2>1. mem \in Records /\ cur \in 1..Len(mem.applied)
      BY RunningRecord DEF IInv, Control, Running
  <2> QED
      BY <2>1 DEF Records
<1>5. WriteTold'
    BY <1>1, <1>2, <1>3, <1>4 DEF QInv, WriteTold
<1>6. IdleTold'
    BY <1>1, <1>2 DEF QInv, IdleTold, Describes, Excused
<1> QED
    BY <1>1, <1>5, <1>6, RecordRests DEF QInv

LEMMA NextQInv == ASSUME Quiet, IInv, QInv, [Next]_vars PROVE QInv'
<1>1. CASE ApplyChecked \/ UndoChecked \/ UndoSkipped \/ RollbackRefused
    BY <1>1, RecordRests DEF ApplyChecked, UndoChecked, UndoSkipped, RollbackRefused, End, env, QInv,
       OneRecord, WriteTold, IdleTold, Describes, Excused
<1>2. ~Crash
    BY DEF Quiet, Crash
<1> QED
    BY <1>1, <1>2, StaleIsExcused, WritesAreTold, RecordsAreTold, EndsAreTold, BeginningIsTold, WorldIsTold
       DEF Next, Engine, User, World

\* Where saves and writes succeed and the process lives, the engine's own
\* transactions leave nothing behind that the journal does not offer for
\* rollback, whatever others change and whichever targets vanish.
THEOREM RefusedLeavesNothing ==
    ASSUME Quiet
    PROVE  Spec => []RefusedMeansNothingLeft
<1>1. Init => QInv /\ FileBeforeWrites
    BY DEF Quiet, Init, QInv, OneRecord, FailedIsExcused, ComparesAlike, WriteTold, IdleTold,
       FileBeforeWrites
<1>2. IInv /\ QInv /\ FileBeforeWrites /\ [Next]_vars => QInv' /\ FileBeforeWrites'
    BY NextQInv, NextFileBeforeWrites DEF Quiet, SavesSucceed
<1>3. IInv /\ QInv /\ FileBeforeWrites => RefusedMeansNothingLeft
  <2> SUFFICES ASSUME IInv, QInv, FileBeforeWrites, pc = "idle", ~Offered,
                      NEW a \in Actions, a \notin foreign, a \notin gone
               PROVE  sys[a] = original[a]
      BY DEF RefusedMeansNothingLeft, Residue
  <2>1. CASE disk = NoRecord
      BY <2>1 DEF FileBeforeWrites
  <2>2. CASE disk # NoRecord
    <3>1. disk \in Records /\ Describes(disk, {}) /\ disk.outcome[a] # "Failed"
        BY <2>2 DEF IInv, TypeOK, QInv, IdleTold, OneRecord, FailedIsExcused, Excused
    <3>2. disk.outcome[a] # "Applied"
      <4>1. CASE disk.applied = <<>>
          BY <2>2, <3>1, <4>1 DEF IInv, AppliedIsListed
      <4>2. CASE disk.applied # <<>>
          BY <2>2, <4>2 DEF Offered, Eligible, QInv, IdleTold
      <4> QED
          BY <4>1, <4>2
    <3>3. disk.outcome[a] \in {"NotChecked", "Reverted"}
        BY <3>1, <3>2 DEF Records, ActionStatus
    <3> QED
        BY <3>1, <3>3 DEF Describes
  <2> QED
      BY <2>1, <2>2
<1> QED
    BY <1>1, <1>2, <1>3, RecordsDescribeSettings, PTL DEF Spec

\* Under the same conditions the buttons offer what there is to take back.
THEOREM OffersComplete ==
    ASSUME Quiet
    PROVE  Spec => []OffersAreComplete
BY AppliedOffered, RefusedLeavesNothing, PTL DEF Quiet, OffersAreComplete

-----------------------------------------------------------------------------
(* Every operation ends: each of its steps leaves fewer of them, however   *)
(* many actions the transaction has and whatever comes in between.         *)

\* The running operation has at most n steps left.
Within(n) ==
    \/ pc = "new" /\ 3 * N + 3 <= n
    \/ pc = "prepared" /\ 3 * N + 2 <= n
    \/ pc = "apply" /\ 3 * (N - cur) + 4 <= n
    \/ pc = "write" /\ 3 * (N - cur) + 3 <= n
    \/ pc = "record" /\ 3 * (N - cur) + 2 <= n
    \/ pc = "finish" /\ 1 <= n
    \/ pc = "undo" /\ 3 * cur + 1 <= n
    \/ pc = "rewrite" /\ 3 * cur <= n
    \/ pc = "undone" /\ 3 * cur - 1 <= n

\* No operation is running.
Idle == pc = "idle"

\* The loop index is a number where it counts.
LEMMA IndexCounts ==
    ASSUME IInv
    PROVE  /\ N \in Nat /\ N >= 1 /\ cur \in Nat
           /\ pc \in {"apply", "write", "record"} => cur >= 1 /\ cur <= N
           /\ pc \in {"rewrite", "undone"} => cur >= 1
<1>1. N \in Nat /\ N >= 1 /\ cur \in Nat
    BY ActionsAssumption DEF IInv, TypeOK
<1>2. pc \in {"apply", "write", "record"} => cur >= 1 /\ cur <= N
    BY <1>1 DEF IInv, Control, Running, Actions
<1>3. pc \in {"rewrite", "undone"} => cur \in 1..Len(mem.applied)
    BY DEF IInv, Control, Running
<1>4. ASSUME NEW m, cur \in 1..m PROVE cur >= 1
    BY <1>1, <1>4
<1> HIDE DEF Actions
<1>5. pc \in {"rewrite", "undone"} => cur >= 1
    BY <1>3, <1>4
<1> QED
    BY <1>1, <1>2, <1>5

\* Where execute() and rollback() go from each of their places.
EngineGoesOn ==
    \/ pc' = "idle"
    \/ pc = "new" /\ pc' = "prepared"
    \/ pc = "prepared" /\ pc' = "apply" /\ cur' = 1
    \/ pc = "apply" /\ pc' \in {"write", "record"} /\ cur' = cur
    \/ pc = "write" /\ pc' = "record" /\ cur' = cur
    \/ pc = "record" /\ cur # N /\ pc' = "apply" /\ cur' = cur + 1
    \/ pc = "record" /\ cur = N /\ pc' = "finish"
    \/ pc = "undo" /\ cur > 0 /\ pc' \in {"rewrite", "undone"} /\ cur' = cur
    \/ pc = "undo" /\ cur > 0 /\ pc' = "undo" /\ cur' = cur - 1
    \/ pc = "rewrite" /\ pc' = "undone" /\ cur' = cur
    \/ pc = "undone" /\ pc' = "undo" /\ cur' = cur - 1

LEMMA EngineStep == ASSUME Engine PROVE EngineGoesOn
<1>1. CASE PrepareRefused \/ Prepare
    BY <1>1 DEF PrepareRefused, Prepare, End, EngineGoesOn
<1>2. CASE ExecuteRefused \/ ExecuteBegins
    BY <1>2 DEF ExecuteRefused, ExecuteBegins, End, EngineGoesOn
<1>3. CASE ApplyChecked \/ ApplyStale \/ ApplyWrites
    BY <1>3 DEF ApplyChecked, ApplyStale, ApplyWrites, EngineGoesOn
<1>4. CASE RecordApplied
    BY <1>4 DEF RecordApplied, NextAction, End, EngineGoesOn
<1>5. CASE RecordFailed
    BY <1>5 DEF RecordFailed, NextAction, EngineGoesOn
<1>6. CASE FinishExecute \/ FinishRollback
    BY <1>6 DEF FinishExecute, FinishRollback, End, EngineGoesOn
<1>7. CASE UndoChecked \/ UndoStale \/ UndoWrites \/ UndoSkipped
    BY <1>7 DEF UndoChecked, UndoStale, UndoWrites, UndoSkipped, EngineGoesOn
<1>8. CASE RecordUndone
    BY <1>8 DEF RecordUndone, End, EngineGoesOn
<1> QED
    BY <1>1, <1>2, <1>3, <1>4, <1>5, <1>6, <1>7, <1>8 DEF Engine

\* A step of the operation is one step less.
LEMMA EngineComesNearer ==
    ASSUME IInv, NEW n \in Nat, Within(n + 1), Engine
    PROVE  Idle' \/ Within(n)'
<1>1. /\ N \in Nat /\ N >= 1 /\ cur \in Nat
      /\ pc \in {"apply", "write", "record"} => cur >= 1 /\ cur <= N
      /\ pc \in {"rewrite", "undone"} => cur >= 1
    BY IndexCounts
<1>2. EngineGoesOn
    BY EngineStep
<1> QED
    BY <1>1, <1>2 DEF EngineGoesOn, Within, Idle

\* Users wait for the end of the operation, other programs and vanishing
\* targets do not touch it, and a crash ends it.
LEMMA OthersLeaveIt ==
    ASSUME IInv, NEW n \in Nat, Within(n + 1), [Next]_vars
    PROVE  Idle' \/ Within(n)' \/ Within(n + 1)'
<1>1. CASE Engine
    BY <1>1, EngineComesNearer
<1>2. CASE User
    BY <1>2 DEF User, RollbackRefused, RollbackBegins, Within
<1>3. CASE Crash
    BY <1>3 DEF Crash, End, Idle
<1>4. CASE UNCHANGED <<pc, cur>>
    BY <1>4 DEF Within
<1>5. World => Crash \/ UNCHANGED <<pc, cur>>
    BY DEF World, ForeignChange, TargetVanishes
<1>6. UNCHANGED vars => UNCHANGED <<pc, cur>>
    BY DEF vars
<1> QED
    BY <1>1, <1>2, <1>3, <1>4, <1>5, <1>6 DEF Next

\* An operation that runs has a step left.
LEMMA RunningIsNotOver == ASSUME IInv PROVE ~Within(0)
BY IndexCounts DEF Within

\* And there is a bound on what it has left.
LEMMA BoundExists ==
    ASSUME IInv, ~Idle
    PROVE  \E n \in Nat : Within(n)
<1>1. N \in Nat /\ cur \in Nat
    BY IndexCounts
<1>2. pc \in PCs
    BY DEF IInv, TypeOK
<1>3. CASE pc \in {"new", "prepared", "apply", "write", "record", "finish"}
  <2>1. 3 * N + 4 \in Nat
      BY <1>1
  <2>2. Within(3 * N + 4)
      BY <1>1, <1>3 DEF Within
  <2> QED
      BY <2>1, <2>2
<1>4. CASE pc \in {"undo", "rewrite", "undone"}
  <2>1. 3 * cur + 1 \in Nat
      BY <1>1
  <2>2. Within(3 * cur + 1)
      BY <1>1, <1>4 DEF Within
  <2> QED
      BY <2>1, <2>2
<1> QED
    BY <1>2, <1>3, <1>4 DEF PCs, Idle

\* A set of numbers without a smallest one is empty: what an induction over
\* the steps that are left comes to.
LEMMA NoSmallest ==
    ASSUME NEW S \in SUBSET Nat, 0 \notin S, \A n \in Nat : n + 1 \in S => n \in S
    PROVE  S = {}
<1> SUFFICES ASSUME S # {} PROVE FALSE
    OBVIOUS
<1> DEFINE R == {ss \in Nat \X Nat : ss[1] < ss[2]}
<1>1. R = OpToRel(<, Nat)
    BY DEF OpToRel
<1>2. \E x \in S : \A y \in S : ~(<<y, x>> \in OpToRel(<, Nat))
    BY NatLessThanWellFounded, WFMin, Zenon
<1>3. PICK x \in S : \A y \in S : ~(<<y, x>> \in R)
  <2> HIDE DEF R
  <2> QED
      BY <1>1, <1>2, Zenon
<1>4. x \in Nat /\ x # 0
    OBVIOUS
<1>5. x - 1 \in Nat /\ (x - 1) + 1 = x
    BY <1>4
<1>6. x - 1 \in S
    BY <1>5
<1>7. <<x - 1, x>> \in R
    BY <1>4, <1>5
<1> HIDE DEF R
<1> QED
    BY <1>3, <1>6, <1>7

\* From n steps before its end, the operation comes to its end.
EndsFrom(n) == [](Within(n) => <>Idle)

\* The numbers for which it does form a set.  This holds in every behaviour,
\* but TLA+ has no set {n \in Nat : EndsFrom(n)} when EndsFrom(n) is temporal,
\* so the theorem says it where it needs the induction over these numbers.
BoundsFormASet == \E S \in SUBSET Nat : \A n \in Nat : n \in S <=> EndsFrom(n)

\* The step that is due is taken.
LEMMA OneStepLess ==
    ASSUME NEW n \in Nat
    PROVE  []IInv /\ [][Next]_vars /\ WF_vars(Engine) /\ []EveryAnswerIsHandled
             => [](Within(n + 1) => <>(Idle \/ Within(n)))
<1>1. IInv /\ [Next]_vars /\ Within(n + 1) => (Idle \/ Within(n))' \/ Within(n + 1)'
    BY OthersLeaveIt
<1>2. IInv /\ Within(n + 1) /\ <<Engine>>_vars => (Idle \/ Within(n))'
    BY EngineComesNearer
<1>3. EveryAnswerIsHandled /\ Within(n + 1) => EngineCan
    BY DEF EveryAnswerIsHandled, Within
<1> QED
    BY <1>1, <1>2, <1>3, PTL DEF EngineCan

\* Every operation ends, for any number of actions, whatever fails, crashes or
\* changes meanwhile: the thread is scheduled, and it has a next step wherever
\* it stands.  The latter is about ENABLED, which is not within the prover's
\* reach, and assumed: where it fails a fair behaviour stays there for ever,
\* and OperationsEnd fails with it on the instance of the run.
THEOREM OperationsAlwaysEnd == FairSpec /\ []EveryAnswerIsHandled /\ []BoundsFormASet => OperationsEnd
<1> SUFFICES ASSUME []IInv, [][Next]_vars, WF_vars(Engine), []EveryAnswerIsHandled, []BoundsFormASet
             PROVE  ~Idle => <>Idle
  <2>1. Idle <=> pc = "idle"
      BY DEF Idle
  <2> QED
      BY <2>1, RecordsDescribeSettings, PTL DEF FairSpec, Spec, OperationsEnd
<1>1. ASSUME NEW n \in Nat, EndsFrom(n) PROVE EndsFrom(n + 1)
  <2>1. [](Within(n + 1) => <>(Idle \/ Within(n)))
      BY OneStepLess, PTL
  <2> QED
      BY <1>1, <2>1, PTL DEF EndsFrom
<1>2. EndsFrom(0)
  <2>1. IInv => ~Within(0)
      BY RunningIsNotOver
  <2> QED
      BY <2>1, PTL DEF EndsFrom
<1>3. \A n \in Nat : EndsFrom(n)
  <2>1. BoundsFormASet
      BY PTL
  <2>2. PICK S \in SUBSET Nat : \A n \in Nat : n \in S <=> EndsFrom(n)
      BY <2>1 DEF BoundsFormASet
  <2>3. Nat \ S \in SUBSET Nat /\ 0 \notin Nat \ S
      BY <1>2, <2>2
  <2>4. ASSUME NEW n \in Nat, n + 1 \in Nat \ S PROVE n \in Nat \ S
      BY <1>1, <2>2, <2>4
  <2>5. Nat \ S = {}
      BY <2>3, <2>4, NoSmallest
  <2> QED
      BY <2>2, <2>5
<1> DEFINE Comes == <>Idle
<1>4. ASSUME NEW n \in Nat PROVE Within(n) => Comes
  <2>1. EndsFrom(n)
      BY <1>3
  <2> QED
      BY <2>1, PTL DEF EndsFrom
<1>5. IInv /\ ~Idle => \E n \in Nat : Within(n)
    BY BoundExists
<1> HIDE DEF Comes
<1>6. IInv => (~Idle => Comes)
    BY <1>4, <1>5
<1> QED
    BY <1>6, PTL DEF Comes
=============================================================================
