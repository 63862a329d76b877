-------------------------- MODULE BackupStoreProofs --------------------------
(***************************************************************************)
(* What a save of the journal owes to the transaction that calls it.       *)
(***************************************************************************)
EXTENDS BackupStore, TLAPS

\* A save knows what it stores, and has it whole in the temporary file from
\* the first rename on.
Saving == record = None <=> pc = "idle"
WholeWhenWritten == pc \in {"renaming", "removing", "retrying", "cleaning"} => tmp = record

IInv == TypeOK /\ Saving /\ WholeWhenWritten

LEMMA InitIInv == Init => IInv
BY DEF Init, IInv, TypeOK, Saving, WholeWhenWritten, PCs

LEMMA NextIInv == IInv /\ [Next]_vars => IInv'
<1> SUFFICES ASSUME IInv, [Next]_vars PROVE IInv'
    OBVIOUS
<1> USE RecordsAssumption DEF IInv, TypeOK, Saving, WholeWhenWritten, PCs
<1>1. ASSUME NEW r \in Records, Save(r) PROVE IInv'
    BY <1>1 DEF Save
<1>2. CASE Open
    BY <1>2 DEF Open
<1>3. CASE OpenFails
    BY <1>3 DEF OpenFails, Return
<1>4. CASE Write
    BY <1>4 DEF Write
<1>5. CASE WriteFails
    BY <1>5 DEF WriteFails, Return
<1>6. CASE Rename
    BY <1>6 DEF Rename
<1>7. CASE RenameFails
    BY <1>7 DEF RenameFails, Interference
<1>8. CASE RemoveTarget
    BY <1>8 DEF RemoveTarget, Interference
<1>9. CASE RetryFails
    BY <1>9 DEF RetryFails, Interference
<1>10. CASE Clean
    BY <1>10 DEF Clean, Return
<1>11. CASE Saved
    BY <1>11 DEF Saved, Return
<1>12. ASSUME NEW r \in Readers, OpenToRead(r) \/ Read(r) \/ NotFound(r) PROVE IInv'
    BY <1>12 DEF OpenToRead, Read, NotFound
<1>13. CASE Crash
    BY <1>13 DEF Crash, Return
<1>14. CASE UNCHANGED vars
    BY <1>14 DEF vars
<1> QED
    BY <1>1, <1>2, <1>3, <1>4, <1>5, <1>6, <1>7, <1>8, <1>9, <1>10, <1>11, <1>12, <1>13, <1>14
       DEF Next

\* Whatever fails, and whenever the process dies, the journal file holds a
\* whole record or is not there: nobody ever loads half of one.
THEOREM TypeCorrect == Spec => []TypeOK
<1>1. IInv => TypeOK
    BY DEF IInv
<1> QED
    BY <1>1, InitIInv, NextIInv, PTL DEF Spec

-----------------------------------------------------------------------------
(* The refinement.                                                         *)

LEMMA InitLossy == Init => Lossy!Init
BY DEF Init, Lossy!Init, TheRecord, InForce, TheAnswer

LEMMA ReturnStep ==
    ASSUME NEW result \in {"ok", "failed"}, Return(result), IInv, file' = file, pc # "idle",
           result = "ok" => pc = "saved"
    PROVE  Lossy!Return("save", result)
BY DEF Return, Lossy!Return, TheRecord, InForce, TheAnswer, IInv, Saving

LEMMA NextLossy == IInv /\ [Next]_vars => [Lossy!Next]_(Lossy!vars)
<1> SUFFICES ASSUME IInv, [Next]_vars PROVE Lossy!Next \/ UNCHANGED Lossy!vars
    OBVIOUS
<1> USE DEF TheRecord, InForce, TheAnswer
<1>1. ASSUME NEW r \in Records, Save(r) PROVE Lossy!Begin("save", r)
    BY <1>1 DEF Save, Lossy!Begin, IInv, Saving
<1>2. ASSUME \/ Open \/ Write \/ RenameFails \/ RetryFails
             \/ \E r \in Readers : OpenToRead(r) \/ Read(r) \/ NotFound(r)
      PROVE  UNCHANGED Lossy!vars
    BY <1>2 DEF Open, Write, RenameFails, RetryFails, OpenToRead, Read, NotFound, Lossy!vars
<1>3. CASE OpenFails \/ WriteFails \/ Clean \/ Saved
    <2>1. \E result \in {"ok", "failed"} : Lossy!Return("save", result)
        BY <1>3, ReturnStep DEF OpenFails, WriteFails, Clean, Saved
    <2> QED
        BY <2>1 DEF Lossy!Next
<1>4. CASE Rename
    <2>1. Lossy!Replace("save")
        BY <1>4 DEF Rename, Lossy!Replace, IInv, Saving, WholeWhenWritten
    <2> QED
        BY <2>1 DEF Lossy!Next
<1>5. CASE RemoveTarget
    <2>1. CASE file' = None
        <3>1. Lossy!Lose("save")
            BY <1>5, <2>1 DEF RemoveTarget, Lossy!Lose, IInv, Saving
        <3> QED
            BY <3>1 DEF Lossy!Next
    <2>2. CASE file' = file
        BY <1>5, <2>2 DEF RemoveTarget, Lossy!vars
    <2> QED
        BY <1>5, <2>1, <2>2 DEF RemoveTarget
<1>6. CASE Crash
    <2>1. Lossy!Die({"save"})
        BY <1>6 DEF Crash, Return, Lossy!Die
    <2> QED
        BY <2>1 DEF Lossy!Next
<1>7. CASE UNCHANGED vars
    BY <1>7 DEF vars, Lossy!vars
<1>8. ASSUME NEW r \in Records, Save(r) PROVE Lossy!Next
    BY <1>1, <1>8 DEF Lossy!Next
<1> QED
    BY <1>2, <1>3, <1>4, <1>5, <1>6, <1>7, <1>8 DEF Next

\* JsonBackupStore::save implements the lossy abstract file, which is what
\* FixTransaction takes a save to be.
THEOREM JournalKeepsOrLoses == Spec => KeepsOrLoses
<1>1. Init => Lossy!Init
    BY InitLossy
<1>2. IInv /\ [Next]_vars => [Lossy!Next]_(Lossy!vars)
    BY NextLossy
<1> QED
    BY <1>1, <1>2, InitIInv, NextIInv, PTL DEF Spec, KeepsOrLoses, Lossy!Spec

-----------------------------------------------------------------------------
\* Between the removal and the second rename nobody can have the file open.
RecordKept ==
    /\ stored /\ file = None => pc = "retrying"
    /\ file = None => open = {}

\* As long as nothing but the program itself opens the file, and the process
\* lives, a save that fails has kept the record there was: the reader that made
\* the first rename fail keeps the file from being removed, or is gone for good.
THEOREM RecordStays == Spec => []SavedStaysSaved
<1>1. Init => RecordKept
    BY DEF Init, RecordKept
<1>2. IInv /\ RecordKept /\ [Next]_vars => RecordKept'
    <2> SUFFICES ASSUME IInv, RecordKept, [Next]_vars PROVE RecordKept'
        OBVIOUS
    <2> USE DEF RecordKept
    <2>1. CASE \/ \E r \in Records : Save(r)
               \/ Open \/ OpenFails \/ Write \/ WriteFails \/ Clean \/ Saved
        BY <2>1 DEF Save, Open, OpenFails, Write, WriteFails, Clean, Saved, Return
    <2>2. CASE Rename
        BY <2>2, RecordsAssumption DEF Rename, IInv, WholeWhenWritten, Saving, TypeOK
    <2>3. CASE RemoveTarget
        BY <2>3 DEF RemoveTarget, Interference
    <2>4. CASE RenameFails \/ RetryFails
        <3>1. file' = file /\ open' = open /\ stored' = (stored /\ open # {})
            BY <2>4 DEF RenameFails, RetryFails, Interference
        <3> QED
            BY <3>1
    <2>5. CASE \E r \in Readers : OpenToRead(r) \/ Read(r) \/ NotFound(r)
        BY <2>5 DEF OpenToRead, Read, NotFound
    <2>6. CASE Crash \/ UNCHANGED vars
        BY <2>6 DEF Crash, Return, vars
    <2> QED
        BY <2>1, <2>2, <2>3, <2>4, <2>5, <2>6 DEF Next
<1>3. RecordKept => SavedStaysSaved
    BY DEF RecordKept, SavedStaysSaved
<1> QED
    BY <1>1, <1>2, <1>3, InitIInv, NextIInv, PTL DEF Spec
=============================================================================
